----------------------------- MODULE BootProofs -----------------------------
(***************************************************************************)
(* Proofs, for any number of shells and interrupts, that main's setting up *)
(* is safe but for the windows its properties name: which requests have    *)
(* gates, what stops the machine, and what becomes of cursors, texts and   *)
(* pages while main, ticks, page keys and shells take turns.               *)
(***************************************************************************)
EXTENDS Boot, TLAPS

USE TasksAssumption, BootAssumption

-----------------------------------------------------------------------------
(* The order of main's steps *)

LEMMA SetupSteps ==
    /\ StepsOf(Setup) = {"preset", "idt_init", "irq_init", "init_keyboard", "info",
                         "init_syscall", "sti", "cls", "init_multitask", "init_fs", "start",
                         "next", "advance", "arguments", "assign", "int127"}
    /\ \A i, j \in DOMAIN Setup : Setup[i] = Setup[j] => i = j
BY DEF StepsOf, Setup

LEMMA ShowingSteps ==
    /\ StepsOf(Showing) = {"store", "save", "column", "load", "move", "page", "aside", "keep",
                           "name", "back", "restore"}
    /\ \A i, j \in DOMAIN Showing : Showing[i] = Showing[j] => i = j
BY DEF StepsOf, Showing

LEMMA ExecutingSteps ==
    /\ StepsOf(Executing) = {"find", "create", "segments", "context"}
    /\ \A i, j \in DOMAIN Executing : Executing[i] = Executing[j] => i = j
BY DEF StepsOf, Executing

LEMMA FollowingIs ==
    ASSUME NEW steps, \A i, j \in DOMAIN steps : steps[i] = steps[j] => i = j,
           NEW i \in DOMAIN steps
    PROVE  Following(steps[i], steps) = steps[1 + i]
BY DEF Following

LEMMA SetupAfter == \A i \in 1 .. 15 : After(Setup[i]) = Setup[1 + i]
<1> TAKE i \in 1 .. 15
<1>1. i \in DOMAIN Setup /\ Setup[i] \in StepsOf(Setup)
  BY DEF StepsOf, Setup
<1>2. Setup[i] \notin {"int127", "restore", "context"}
  BY DEF Setup
<1>3. After(Setup[i]) = Following(Setup[i], Setup)
  BY <1>1, <1>2, SetupSteps, ShowingSteps, ExecutingSteps DEF After
<1> QED
  BY <1>1, <1>3, SetupSteps, FollowingIs

LEMMA ShowingAfter == \A i \in 1 .. 10 : After(Showing[i]) = Showing[1 + i]
<1> TAKE i \in 1 .. 10
<1>1. i \in DOMAIN Showing /\ Showing[i] \in StepsOf(Showing)
  BY DEF StepsOf, Showing
<1>2. Showing[i] \notin {"int127", "restore", "context"}
  BY DEF Showing
<1>3. After(Showing[i]) = Following(Showing[i], Showing)
  BY <1>1, <1>2, SetupSteps, ShowingSteps, ExecutingSteps DEF After
<1> QED
  BY <1>1, <1>3, ShowingSteps, FollowingIs

LEMMA ExecutingAfter == \A i \in 1 .. 3 : After(Executing[i]) = Executing[1 + i]
<1> TAKE i \in 1 .. 3
<1>1. i \in DOMAIN Executing /\ Executing[i] \in StepsOf(Executing)
  BY DEF StepsOf, Executing
<1>2. Executing[i] \notin {"int127", "restore", "context"}
  BY DEF Executing
<1>3. After(Executing[i]) = Following(Executing[i], Executing)
  BY <1>1, <1>2, SetupSteps, ShowingSteps, ExecutingSteps DEF After
<1> QED
  BY <1>1, <1>3, ExecutingSteps, FollowingIs

LEMMA AfterIs ==
    /\ After("preset") = "idt_init" /\ After("idt_init") = "irq_init"
    /\ After("irq_init") = "init_keyboard" /\ After("init_keyboard") = "info"
    /\ After("info") = "init_syscall" /\ After("init_syscall") = "sti"
    /\ After("sti") = "cls" /\ After("cls") = "init_multitask"
    /\ After("init_multitask") = "init_fs" /\ After("init_fs") = "start"
    /\ After("start") = "next" /\ After("next") = "advance" /\ After("advance") = "arguments"
    /\ After("arguments") = "assign" /\ After("assign") = "int127" /\ After("int127") = "store"
    /\ After("store") = "save" /\ After("save") = "column" /\ After("column") = "load"
    /\ After("load") = "move" /\ After("move") = "page"
    /\ After("page") = "aside" /\ After("aside") = "keep" /\ After("keep") = "name"
    /\ After("name") = "back" /\ After("back") = "restore"
    /\ After("restore") = IF launched < Shells THEN "find" ELSE "loop"
    /\ After("find") = "create" /\ After("create") = "segments"
    /\ After("segments") = "context" /\ After("context") = "store"
<1>1. \A i \in 1 .. 15 : After(Setup[i]) = Setup[1 + i]
  BY SetupAfter
<1>2. \A i \in 1 .. 10 : After(Showing[i]) = Showing[1 + i]
  BY ShowingAfter
<1>3. \A i \in 1 .. 3 : After(Executing[i]) = Executing[1 + i]
  BY ExecutingAfter
<1>4. /\ After(Setup[1]) = Setup[2] /\ After(Setup[2]) = Setup[3] /\ After(Setup[3]) = Setup[4]
      /\ After(Setup[4]) = Setup[5] /\ After(Setup[5]) = Setup[6] /\ After(Setup[6]) = Setup[7]
      /\ After(Setup[7]) = Setup[8] /\ After(Setup[8]) = Setup[9]
      /\ After(Setup[9]) = Setup[10] /\ After(Setup[10]) = Setup[11]
      /\ After(Setup[11]) = Setup[12] /\ After(Setup[12]) = Setup[13]
      /\ After(Setup[13]) = Setup[14] /\ After(Setup[14]) = Setup[15]
      /\ After(Setup[15]) = Setup[16]
  BY <1>1
<1>5. /\ After(Showing[1]) = Showing[2] /\ After(Showing[2]) = Showing[3]
      /\ After(Showing[3]) = Showing[4] /\ After(Showing[4]) = Showing[5]
      /\ After(Showing[5]) = Showing[6] /\ After(Showing[6]) = Showing[7]
      /\ After(Showing[7]) = Showing[8] /\ After(Showing[8]) = Showing[9]
      /\ After(Showing[9]) = Showing[10] /\ After(Showing[10]) = Showing[11]
  BY <1>2
<1>6. /\ After(Executing[1]) = Executing[2] /\ After(Executing[2]) = Executing[3]
      /\ After(Executing[3]) = Executing[4]
  BY <1>3
<1>7. /\ After("int127") = "store" /\ After("context") = "store"
      /\ After("restore") = IF launched < Shells THEN "find" ELSE "loop"
  BY SetupSteps, ShowingSteps, ExecutingSteps DEF After
<1> QED
  BY <1>4, <1>5, <1>6, <1>7 DEF Setup, Showing, Executing

-----------------------------------------------------------------------------
(* The inductive invariant *)

(* The place main is at, also before it is a task. *)
Where == IF cur_task \in {Null, Main} THEN cpu ELSE estatus[Main]

Off == {"preset", "idt_init", "irq_init", "init_keyboard", "info", "init_syscall", "sti"}
Early == Off \cup {"cls", "init_multitask"}
Starting == {"init_fs", "start", "next", "advance", "arguments", "assign"}
Printing == {"next", "advance", "assign"}
Saving == {"save", "column"}
Copying == {"load", "move", "page"}
Naming == {"keep", "name", "back", "restore"}
Busy == Printing \cup Saving \cup Copying \cup Naming
Moving == Copying \cup {"next", "advance", "name", "back", "restore"}

(* What exists follows from the place main is at; the one block without a
   context is that of the task main is making. *)
Control ==
    /\ mode \in {"run", "fault", "lost"}
    /\ Where \in MainPlace
    /\ launched \in 0 .. Shells
    /\ pid_counter \in Int
    /\ DOMAIN estatus = Task
    /\ cur_task = Null => /\ Where \in Early
                          /\ pid_counter = 0 /\ launched = 0 /\ estatus[Main] = "none"
    /\ cur_task # Null => /\ cur_task \in Created
                          /\ Where \notin Early
                          /\ pid_counter = launched
                               + IF Where \in {"segments", "context"} THEN 2 ELSE 1
                          /\ mode = "run" => cpu # "none"
    /\ Where \in StepsOf(Executing) => launched < Shells
    /\ Where \in Starting => launched = 0
    /\ \A t \in Task \ {Main} : At(t) = IF t <= launched THEN "run" ELSE "none"

Gates ==
    /\ enabled => Where \notin Off
    /\ Where \notin {"preset", "idt_init", "irq_init"} => remapped /\ 32 .. 47 \subseteq gates

Stops ==
    /\ mode = "fault" => "exec" \in struck
    /\ mode = "lost" => "early" \in struck /\ cur_task = Null /\ cpu \in {"cls", "init_multitask"}

(* From set_page to create_empty_task the page shown is that of the next shell. *)
Pages ==
    /\ cur_video_page \in Page /\ video_page \in [Task -> Page]
    /\ "page" \notin struck =>
          /\ \A t \in Created \ {Main} : video_page[t] = t
          /\ Where \in Naming \cup {"aside"} => cur_video_page = PageToShow
          /\ Where \in {"find", "create"} => cur_video_page = launched + 1

Column == Nat \cup {Status}

CursorTypes ==
    /\ reg \in Column /\ scr \in Column /\ store \in Column
    /\ cursor \in [Page -> Column] /\ printed \in [Page -> Nat]

(* Nobody but main runs in the middle of switch_video_page unless an interrupt
   has fallen into it. *)
Alone ==
    /\ Where \in Copying /\ cur_task # Main => "show" \in struck
    /\ Where \in Naming /\ cur_task # Main => "status" \in struck

(* Where the cursors are while main prints, copies a page and writes its name. *)
Cursors ==
    mode = "run" /\ struck \cap {"status", "show", "start"} = {} =>
        /\ Where \in Copying => /\ cursor = printed
                                /\ Where = "page" => scr = printed[PageToShow]
        /\ Where \in {"keep", "advance", "assign"} => reg = scr
        /\ Where \in {"name", "back"} => store = printed[cur_video_page]
        /\ Where = "restore" => reg = printed[cur_video_page]
        /\ Where \in {"next", "advance"} => scr + 1 = printed[cur_video_page]
        /\ Where \in Moving \ Copying =>
               \A p \in Page \ {cur_video_page} : cursor[p] = printed[p]
        /\ Where \notin Moving => \A p \in Page : CursorOf(p) = printed[p]

TextTypes == screen \in Page /\ text \in [Page -> Page] /\ dest \in Page

(* Where the texts are while main copies a page. *)
Texts ==
    "show" \notin struck =>
        /\ Where \in Saving => dest = cur_video_page
        /\ Where = "column" => text[cur_video_page] = cur_video_page
        /\ Where \in Copying => /\ \A p \in Page : text[p] = p
                                /\ Where # "load" => screen = PageToShow
        /\ Where \notin Copying => /\ screen = cur_video_page
                                   /\ \A p \in Page \ {screen} : text[p] = p

BInv ==
    /\ Control /\ Gates /\ Stops /\ Pages
    /\ CursorTypes /\ Alone /\ Cursors
    /\ TextTypes /\ Texts

LEMMA PlaceSets ==
    /\ MainPlace = Early \cup Starting \cup Saving \cup Copying \cup Naming \cup
                   {"int127", "store", "aside", "find", "create", "segments", "context", "loop"}
    /\ StepsOf(Executing) = {"find", "create", "segments", "context"}
BY SetupSteps, ShowingSteps, ExecutingSteps
   DEF MainPlace, Early, Off, Starting, Saving, Copying, Naming

LEMMA InitBInv == BInit => BInv
<1> SUFFICES ASSUME BInit PROVE BInv
  OBVIOUS
<1>1. Where = "preset" /\ Main \in Task /\ Null \notin Task /\ Null # Main
  BY DEF BInit, Where, Task, Null, Main
<1>2. Control
  BY <1>1, PlaceSets DEF BInit, Control, At, Early, Off, Task, Main, Null, Starting
<1>3. Gates /\ Stops /\ Alone
  BY <1>1 DEF BInit, Gates, Stops, Alone, Off, Copying, Naming
<1>4. Pages /\ TextTypes /\ Texts
  BY <1>1 DEF BInit, Pages, TextTypes, Texts, Page, Created, Copying, Naming, Saving
<1>5. CursorTypes /\ Cursors
  BY <1>1 DEF BInit, CursorTypes, Cursors, Column, CursorOf, Page, Copying, Moving
<1> QED
  BY <1>2, <1>3, <1>4, <1>5 DEF BInv

-----------------------------------------------------------------------------
(* main's steps *)

(* A step of main that makes no task. *)
LEMMA MainControl ==
    ASSUME BInv, NEW place \in MainPlace \ {"init_multitask", "create", "context", "loop"},
           MainAt(place), cpu' = After(place),
           UNCHANGED <<pid_counter, cur_task, estatus, mode, launched>>
    PROVE  /\ Control' /\ Stops' /\ Where = place /\ Where' = After(place)
           /\ mode = "run" /\ mode' = "run" /\ cur_task \in {Null, Main} /\ PageToShow' = PageToShow
<1>1. Where = place /\ Where' = After(place) /\ mode = "run" /\ cur_task \in {Null, Main}
  BY DEF MainAt, Where
<1>2. After(place) \in MainPlace
  BY AfterIs, PlaceSets DEF Early, Off, Starting, Saving, Copying, Naming
<1>3. /\ After(place) \in Early <=> place \in Early
      /\ After(place) \in {"segments", "context"} <=> place \in {"segments", "context"}
      /\ After(place) \in StepsOf(Executing) => launched < Shells
      /\ After(place) \in Starting => place \in Starting
  BY <1>1, AfterIs, PlaceSets DEF Early, Off, Starting, Saving, Copying, Naming, BInv, Control
<1>4. \A t \in Task \ {Main} : At(t)' = At(t)
  BY <1>1 DEF At, Task, Null
<1>5. After(place) # "none"
  BY <1>2, PlaceSets DEF Early, Off, Starting, Saving, Copying, Naming
<1>6. Control'
  BY <1>1, <1>2, <1>3, <1>4, <1>5 DEF BInv, Control, Created
<1>7. Stops' /\ mode' = "run" /\ PageToShow' = PageToShow
  BY <1>1 DEF BInv, Stops, PageToShow
<1> QED
  BY <1>1, <1>6, <1>7

(* What stays when main goes on and a group of variables does not change. *)
LEMMA GatesFrame ==
    ASSUME BInv, NEW place \in MainPlace \ {"loop"}, Where = place, Where' = After(place),
           UNCHANGED tables, place \notin {"idt_init", "irq_init", "sti"}
    PROVE  Gates'
BY AfterIs, PlaceSets DEF BInv, Gates, tables, Early, Off, Starting, Saving, Copying, Naming

LEMMA PagesFrame ==
    ASSUME BInv, NEW place \in MainPlace \ {"page", "create", "context", "loop"},
           Where = place, Where' = After(place),
           UNCHANGED <<pid_counter, launched, cur_video_page, video_page, struck>>
    PROVE  Pages'
<1>1. Created' = Created /\ PageToShow' = PageToShow
  BY DEF Created, PageToShow
<1>2. /\ Where' \in Naming \cup {"aside"} => place \in Naming \cup {"aside"}
      /\ Where' \in {"find", "create"} => place \in {"find", "restore"}
      /\ place = "restore" /\ Where' \in {"find", "create"} => PageToShow = launched + 1
  BY AfterIs, PlaceSets DEF Early, Off, Starting, Saving, Copying, Naming, PageToShow
<1> QED
  BY <1>1, <1>2 DEF BInv, Pages, Naming

LEMMA ShownFrame ==
    ASSUME BInv, NEW place \in MainPlace, Where = place, UNCHANGED <<shown, struck>>,
           mode = "run", cur_task \in {Null, Main}, UNCHANGED <<cur_task, launched>>,
           \/ place = "name" /\ Where' = "back"
           \/ place \notin Busy /\ Where' \notin Busy
    PROVE  CursorTypes' /\ Alone' /\ Cursors' /\ TextTypes' /\ Texts'
<1>1. CursorTypes' /\ TextTypes'
  BY DEF BInv, CursorTypes, TextTypes, shown, held
<1>2. Alone'
  BY DEF BInv, Alone, Busy, Copying, Naming, Null, Control, Early, Off
<1>3. Cursors'
  BY DEF BInv, Cursors, Busy, Printing, Copying, Naming, Moving, shown, CursorOf
<1>4. Texts'
  BY DEF BInv, Texts, Busy, Saving, Copying, Naming, shown, held
<1> QED
  BY <1>1, <1>2, <1>3, <1>4

(* The steps that only set up, read or print the name. *)
LEMMA SetupBInv ==
    ASSUME BInv,
           \/ init_gdt \/ idt_init \/ irq_init \/ init_keyboard \/ init_syscall \/ sti
           \/ init_fs \/ print_name \/ find_file \/ add_segments
    PROVE  BInv'
<1>1. PICK place \in {"preset", "idt_init", "irq_init", "init_keyboard", "init_syscall", "sti",
                      "init_fs", "name", "find", "segments"} :
        MainAt(place) /\ cpu' = After(place)
  BY DEF init_gdt, idt_init, irq_init, init_keyboard, init_syscall, sti, init_fs, print_name,
         find_file, add_segments, Goes, MainAt
<1>2. UNCHANGED <<pid_counter, cur_task, estatus, mode, video_page, struck, launched, shown>>
  BY DEF init_gdt, idt_init, irq_init, init_keyboard, init_syscall, sti, init_fs, print_name,
         find_file, add_segments, Keeps
<1>3. place \in MainPlace \ {"init_multitask", "create", "context", "loop", "page"}
  BY PlaceSets DEF Early, Off, Starting, Naming
<1>4. /\ Control' /\ Stops' /\ Where = place /\ Where' = After(place)
      /\ mode = "run" /\ cur_task \in {Null, Main}
  BY <1>1, <1>2, <1>3, MainControl
<1>5. Gates'
  <2>1. CASE place \notin {"idt_init", "irq_init", "sti"}
    <3>1. place \in {"init_keyboard", "init_syscall"} => remapped' = remapped /\ gates' = gates
                                                        /\ enabled' = enabled
      BY <1>1, <2>1 DEF init_gdt, idt_init, irq_init, init_keyboard, init_syscall, sti, init_fs,
                        print_name, find_file, add_segments, MainAt, tables
    <3> QED
      BY <1>1, <1>4, <2>1, <3>1, AfterIs
         DEF init_gdt, idt_init, irq_init, init_keyboard, init_syscall, sti, init_fs,
             print_name, find_file, add_segments, MainAt, tables, BInv, Gates, Off
  <2>2. CASE place \in {"idt_init", "irq_init", "sti"}
    BY <1>1, <1>4, <2>2, AfterIs
       DEF init_gdt, idt_init, irq_init, init_keyboard, init_syscall, sti, init_fs,
           print_name, find_file, add_segments, MainAt, BInv, Gates, Off
  <2> QED
    BY <2>1, <2>2
<1>6. Pages'
  BY <1>2, <1>3, <1>4, PagesFrame DEF shown
<1>7. CursorTypes' /\ Alone' /\ Cursors' /\ TextTypes' /\ Texts'
  <2>1. \/ place = "name" /\ Where' = "back"
        \/ place = "preset" /\ Where' = "idt_init"
        \/ place = "idt_init" /\ Where' = "irq_init"
        \/ place = "irq_init" /\ Where' = "init_keyboard"
        \/ place = "init_keyboard" /\ Where' = "info"
        \/ place = "init_syscall" /\ Where' = "sti"
        \/ place = "sti" /\ Where' = "cls"
        \/ place = "init_fs" /\ Where' = "start"
        \/ place = "find" /\ Where' = "create"
        \/ place = "segments" /\ Where' = "context"
    BY <1>1, <1>4, AfterIs
  <2>2. \/ place = "name" /\ Where' = "back"
        \/ place \notin Busy /\ Where' \notin Busy
    <3>1. Busy = {"next", "advance", "assign", "save", "column", "load", "move", "page", "keep",
                  "name", "back", "restore"}
      BY DEF Busy, Printing, Saving, Copying, Naming
    <3> QED
      BY <2>1, <3>1
  <2> QED
    BY <1>2, <1>3, <1>4, <2>2, ShownFrame
<1> QED
  BY <1>4, <1>5, <1>6, <1>7 DEF BInv

(* Interrupts off, cls, int $127: the screen and its cursor stay together. *)
LEMMA PrintBInv ==
    ASSUME BInv, kprintf \/ cls \/ int127
    PROVE  BInv'
<1>1. PICK place \in {"info", "cls", "int127"} : MainAt(place) /\ cpu' = After(place)
  BY DEF kprintf, cls, int127, Goes, MainAt
<1>2. /\ UNCHANGED <<pid_counter, cur_task, estatus, mode, video_page, struck, launched, held>>
      /\ UNCHANGED <<cursor, screen, text, cur_video_page, enabled, gates, remapped>>
  BY DEF kprintf, cls, int127, Keeps, tables
<1>3. place \in MainPlace \ {"init_multitask", "create", "context", "loop", "page"}
  BY PlaceSets DEF Early, Off
<1>4. /\ Control' /\ Stops' /\ Where = place /\ Where' = After(place)
      /\ mode = "run" /\ mode' = "run" /\ cur_task \in {Null, Main}
  BY <1>1, <1>2, <1>3, MainControl
<1>5. Where' \notin Busy /\ place \notin Busy
  BY <1>1, <1>4, AfterIs DEF Busy, Printing, Saving, Copying, Naming
<1>6. Gates'
  BY <1>2, <1>4, AfterIs DEF BInv, Gates, Off
<1>7. Pages'
  BY <1>2, <1>3, <1>4, PagesFrame
<1>8. Alone' /\ TextTypes' /\ Texts'
  BY <1>2, <1>4, <1>5 DEF BInv, Alone, TextTypes, Texts, held, Busy, Saving
<1>9. \/ scr' = scr + 1 /\ printed' = [printed EXCEPT ![cur_video_page] = @ + 1] /\ store' = store
      \/ scr' = 0 /\ printed' = [printed EXCEPT ![cur_video_page] = 0] /\ store' = store
      \/ scr' = scr /\ printed' = printed /\ store' = scr
  BY DEF kprintf, cls, int127
<1>10. CursorTypes'
  BY <1>2, <1>9 DEF BInv, CursorTypes, Column, Pages, Status, held
<1>11. Cursors'
  <2>1. /\ place \notin Moving \cup {"keep", "assign"}
        /\ Where' \notin Moving \cup {"keep", "assign"}
    BY <1>5 DEF Busy, Moving, Printing, Naming
  <2> QED
    BY <1>2, <1>4, <1>9, <2>1 DEF BInv, Cursors, CursorOf, CursorTypes, Pages, Moving
<1> QED
  BY <1>4, <1>6, <1>7, <1>8, <1>10, <1>11 DEF BInv

(* The line main prints with interrupts on, and where it loads its cursor. *)
LEMMA StartBInv ==
    ASSUME BInv, print_start \/ load_scr \/ store_scr
    PROVE  BInv'
<1>1. PICK place \in {"start", "next", "advance", "arguments", "assign", "aside"} :
        MainAt(place) /\ cpu' = After(place)
  BY DEF print_start, load_scr, store_scr, Goes, MainAt
<1>2. UNCHANGED <<pid_counter, cur_task, estatus, mode, video_page, struck, launched, tables,
                  dest, store, cursor, screen, text, cur_video_page>>
  BY DEF print_start, load_scr, store_scr, Keeps, held
<1>3. place \in MainPlace \ {"init_multitask", "create", "context", "loop", "page", "idt_init",
                             "irq_init", "sti"}
  BY PlaceSets DEF Starting
<1>4. /\ Control' /\ Stops' /\ Where = place /\ Where' = After(place)
      /\ mode = "run" /\ mode' = "run" /\ cur_task \in {Null, Main}
  BY <1>1, <1>2, <1>3, MainControl
<1>5. cur_task = Main
  BY <1>1, <1>4 DEF BInv, Control, Early, Off
<1>6. Gates' /\ Pages' /\ Alone'
  BY <1>2, <1>3, <1>4, <1>5, GatesFrame, PagesFrame DEF Alone
<1>7. Where' \notin Saving \cup Copying /\ place \notin Saving \cup Copying
  BY <1>1, <1>4, AfterIs DEF Saving, Copying
<1>8. TextTypes' /\ Texts'
  BY <1>2, <1>4, <1>7 DEF BInv, TextTypes, Texts, Saving
<1>9. /\ reg \in Column /\ scr \in Column /\ cursor \in [Page -> Column]
      /\ printed \in [Page -> Nat] /\ cur_video_page \in Page
  BY DEF BInv, CursorTypes, Pages
<1>10. \A p \in Page : CursorOf(p) = IF p = cur_video_page THEN scr ELSE cursor[p]
  BY DEF CursorOf
<1>11. CASE print_start
  <2>1. /\ place = "start" /\ Where' = "next"
        /\ printed' = [printed EXCEPT ![cur_video_page] = @ + 1] /\ UNCHANGED <<reg, scr>>
    BY <1>1, <1>4, <1>11, AfterIs DEF print_start, MainAt, held
  <2>2. CursorTypes'
    BY <1>2, <1>9, <2>1 DEF BInv, CursorTypes
  <2>3. Cursors'
    BY <1>2, <1>4, <1>9, <1>10, <2>1 DEF BInv, Cursors, Copying, Moving
  <2> QED
    BY <1>4, <1>6, <1>8, <2>2, <2>3 DEF BInv
<1>12. CASE load_scr
  <2>1. /\ \/ place = "next" /\ Where' = "advance"
           \/ place = "arguments" /\ Where' = "assign"
           \/ place = "aside" /\ Where' = "keep"
        /\ reg' = scr /\ UNCHANGED <<scr, printed>>
    BY <1>1, <1>4, <1>12, AfterIs DEF load_scr, MainAt
  <2>2. CursorTypes'
    BY <1>2, <1>9, <2>1 DEF BInv, CursorTypes
  <2>3. Cursors'
    BY <1>2, <1>4, <2>1 DEF BInv, Cursors, CursorOf, Copying, Moving
  <2> QED
    BY <1>4, <1>6, <1>8, <2>2, <2>3 DEF BInv
<1>13. CASE store_scr
  <2>1. /\ \/ place = "advance" /\ Where' = "arguments" /\ scr' = reg + 1
           \/ place = "assign" /\ Where' = "int127" /\ scr' = reg
        /\ reg' = 0 /\ printed' = printed
    BY <1>1, <1>4, <1>13, AfterIs DEF store_scr, MainAt
  <2>2. CursorTypes'
    BY <1>2, <1>9, <2>1 DEF BInv, CursorTypes, Column, Status
  <2>3. Cursors'
    BY <1>2, <1>4, <1>9, <2>1 DEF BInv, Cursors, CursorOf, Copying, Moving
  <2> QED
    BY <1>4, <1>6, <1>8, <2>2, <2>3 DEF BInv
<1> QED
  BY <1>11, <1>12, <1>13

(* switch_video_page and the two moves of the cursor around the name. *)
LEMMA ShowBInv ==
    ASSUME BInv,
           \/ find_page \/ store_page \/ store_cursor \/ load_page \/ move_cursor \/ set_page
           \/ scr_temp_move_to \/ load_store \/ scr_temp_retrieve
    PROVE  BInv'
<1>1. PICK place \in {"store", "save", "column", "load", "move", "page", "keep", "back",
                      "restore"} :
        MainAt(place) /\ cpu' = After(place)
  BY DEF find_page, store_page, store_cursor, load_page, move_cursor, set_page,
         scr_temp_move_to, load_store, scr_temp_retrieve, Goes, MainAt
<1>2. UNCHANGED <<pid_counter, cur_task, estatus, mode, video_page, struck, launched, tables,
                  printed>>
  BY DEF find_page, store_page, store_cursor, load_page, move_cursor, set_page,
         scr_temp_move_to, load_store, scr_temp_retrieve, Keeps, held
<1>3. place \in MainPlace \ {"init_multitask", "create", "context", "loop"}
  BY PlaceSets DEF Saving, Copying, Naming
<1>4. /\ Control' /\ Stops' /\ Where = place /\ Where' = After(place)
      /\ mode = "run" /\ mode' = "run" /\ cur_task \in {Null, Main} /\ PageToShow' = PageToShow
  BY <1>1, <1>2, <1>3, MainControl
<1>5. Gates'
  BY <1>1, <1>2, <1>3, <1>4, GatesFrame
<1>6. PageToShow \in Page /\ cur_task = Main
  BY <1>1, <1>4 DEF PageToShow, Page, BInv, Control, Early, Off
<1>7. Alone'
  BY <1>2, <1>6 DEF Alone
<1>8. /\ reg \in Column /\ scr \in Column /\ store \in Column /\ cursor \in [Page -> Column]
      /\ printed \in [Page -> Nat] /\ cur_video_page \in Page /\ dest \in Page
      /\ screen \in Page /\ text \in [Page -> Page] /\ 0 \in Page /\ 0 \in Column
  BY DEF BInv, CursorTypes, TextTypes, Pages, Column, Page
<1>9. CASE find_page
  <2>1. /\ place = "store" /\ Where' = "save" /\ dest' = cur_video_page
        /\ UNCHANGED <<reg, scr, store, cursor, screen, text, cur_video_page>>
    BY <1>1, <1>4, <1>9, AfterIs DEF find_page, MainAt
  <2>2. Pages' /\ CursorTypes' /\ TextTypes'
    BY <1>2, <1>3, <1>4, <1>8, <2>1, PagesFrame DEF CursorTypes, TextTypes
  <2>3. Cursors'
    BY <1>2, <1>4, <2>1 DEF BInv, Cursors, CursorOf, Copying, Moving
  <2>4. Texts'
    BY <1>2, <1>4, <2>1 DEF BInv, Texts, Copying, Saving
  <2> QED
    BY <1>4, <1>5, <1>7, <2>2, <2>3, <2>4 DEF BInv
<1>15. CASE store_page
  <2>1. /\ place = "save" /\ Where' = "column" /\ dest' = cur_video_page
        /\ text' = [text EXCEPT ![dest] = screen]
        /\ UNCHANGED <<reg, scr, store, cursor, screen, cur_video_page>>
    BY <1>1, <1>4, <1>15, AfterIs DEF store_page, MainAt
  <2>2. Pages' /\ CursorTypes' /\ TextTypes'
    BY <1>2, <1>3, <1>4, <1>8, <2>1, PagesFrame DEF CursorTypes, TextTypes
  <2>3. Cursors'
    BY <1>2, <1>4, <2>1 DEF BInv, Cursors, CursorOf, Copying, Moving
  <2>4. Texts'
    BY <1>2, <1>4, <1>8, <2>1 DEF BInv, Texts, Copying, Saving
  <2> QED
    BY <1>4, <1>5, <1>7, <2>2, <2>3, <2>4 DEF BInv
<1>16. CASE store_cursor
  <2>1. /\ place = "column" /\ Where' = "load" /\ dest' = 0
        /\ cursor' = [cursor EXCEPT ![dest] = scr]
        /\ UNCHANGED <<reg, scr, store, screen, text, cur_video_page>>
    BY <1>1, <1>4, <1>16, AfterIs DEF store_cursor, MainAt
  <2>2. Pages' /\ CursorTypes' /\ TextTypes'
    BY <1>2, <1>3, <1>4, <1>8, <2>1, PagesFrame DEF CursorTypes, TextTypes
  <2>3. Cursors'
    <3>1. SUFFICES ASSUME struck \cap {"status", "show", "start"} = {} PROVE cursor' = printed
      BY <1>2, <2>1 DEF Cursors, Moving, Copying
    <3>2. dest = cur_video_page
      BY <1>4, <2>1, <3>1 DEF BInv, Texts, Saving
    <3>3. \A p \in Page : CursorOf(p) = printed[p]
      BY <1>4, <2>1, <3>1 DEF BInv, Cursors, Moving, Copying
    <3> QED
      BY <1>8, <2>1, <3>2, <3>3 DEF CursorOf
  <2>4. Texts'
    BY <1>2, <1>4, <1>8, <2>1 DEF BInv, Texts, Copying, Saving
  <2> QED
    BY <1>4, <1>5, <1>7, <2>2, <2>3, <2>4 DEF BInv
<1>10. CASE load_page
  <2>1. /\ place = "load" /\ Where' = "move" /\ screen' = text[PageToShow]
        /\ UNCHANGED <<reg, dest, scr, store, cursor, text, cur_video_page>>
    BY <1>1, <1>4, <1>10, AfterIs DEF load_page, MainAt, held
  <2>2. Pages' /\ CursorTypes' /\ TextTypes'
    BY <1>2, <1>3, <1>4, <1>6, <1>8, <2>1, PagesFrame DEF CursorTypes, TextTypes
  <2>3. Cursors'
    BY <1>2, <1>4, <1>8, <2>1 DEF BInv, Cursors, CursorOf, Copying, Moving
  <2>4. Texts'
    BY <1>2, <1>4, <1>6, <1>8, <2>1 DEF BInv, Texts, Copying, Saving
  <2> QED
    BY <1>4, <1>5, <1>7, <2>2, <2>3, <2>4 DEF BInv
<1>11. CASE move_cursor
  <2>1. /\ place = "move" /\ Where' = "page" /\ scr' = cursor[PageToShow]
        /\ UNCHANGED <<reg, dest, store, cursor, screen, text, cur_video_page>>
    BY <1>1, <1>4, <1>11, AfterIs DEF move_cursor, MainAt, held
  <2>2. Pages' /\ CursorTypes' /\ TextTypes'
    BY <1>2, <1>3, <1>4, <1>6, <1>8, <2>1, PagesFrame DEF CursorTypes, TextTypes
  <2>3. Cursors'
    BY <1>2, <1>4, <1>8, <2>1 DEF BInv, Cursors, CursorOf, Copying, Moving
  <2>4. Texts'
    BY <1>2, <1>4, <1>8, <2>1 DEF BInv, Texts, Copying, Saving
  <2> QED
    BY <1>4, <1>5, <1>7, <2>2, <2>3, <2>4 DEF BInv
<1>12. CASE set_page
  <2>1. /\ place = "page" /\ Where' = "aside" /\ cur_video_page' = PageToShow
        /\ UNCHANGED <<reg, dest, scr, store, cursor, screen, text>>
    BY <1>1, <1>4, <1>12, AfterIs DEF set_page, MainAt, held
  <2>2. Pages' /\ CursorTypes' /\ TextTypes'
    BY <1>2, <1>4, <1>6, <1>8, <2>1 DEF BInv, Pages, Created, CursorTypes, TextTypes, Naming
  <2>3. Cursors'
    BY <1>2, <1>4, <1>6, <1>8, <2>1 DEF BInv, Cursors, CursorOf, Copying, Moving
  <2>4. Texts'
    BY <1>2, <1>4, <1>8, <2>1 DEF BInv, Texts, Copying, Saving
  <2> QED
    BY <1>4, <1>5, <1>7, <2>2, <2>3, <2>4 DEF BInv
<1>13. CASE scr_temp_move_to
  <2>1. /\ place = "keep" /\ Where' = "name" /\ store' = reg /\ scr' = Status /\ reg' = 0
        /\ UNCHANGED <<dest, cursor, screen, text, cur_video_page>>
    BY <1>1, <1>4, <1>13, AfterIs DEF scr_temp_move_to, MainAt
  <2>2. Pages' /\ CursorTypes' /\ TextTypes'
    BY <1>2, <1>3, <1>4, <1>8, <2>1, PagesFrame DEF CursorTypes, TextTypes, Column
  <2>3. Cursors'
    BY <1>2, <1>4, <1>8, <2>1 DEF BInv, Cursors, CursorOf, Copying, Moving
  <2>4. Texts'
    BY <1>2, <1>4, <1>8, <2>1 DEF BInv, Texts, Copying, Saving
  <2> QED
    BY <1>4, <1>5, <1>7, <2>2, <2>3, <2>4 DEF BInv
<1>17. CASE load_store
  <2>1. /\ place = "back" /\ Where' = "restore" /\ reg' = store
        /\ UNCHANGED <<dest, scr, store, cursor, screen, text, cur_video_page>>
    BY <1>1, <1>4, <1>17, AfterIs DEF load_store, MainAt
  <2>2. Pages' /\ CursorTypes' /\ TextTypes'
    BY <1>2, <1>3, <1>4, <1>8, <2>1, PagesFrame DEF CursorTypes, TextTypes
  <2>3. Cursors'
    BY <1>2, <1>4, <1>8, <2>1 DEF BInv, Cursors, Copying, Moving
  <2>4. Texts'
    BY <1>2, <1>4, <1>8, <2>1 DEF BInv, Texts, Copying, Saving
  <2> QED
    BY <1>4, <1>5, <1>7, <2>2, <2>3, <2>4 DEF BInv
<1>14. CASE scr_temp_retrieve
  <2>1. /\ place = "restore" /\ Where' \in {"find", "loop"} /\ scr' = reg /\ reg' = 0
        /\ UNCHANGED <<dest, store, cursor, screen, text, cur_video_page>>
    BY <1>1, <1>4, <1>14, AfterIs DEF scr_temp_retrieve, MainAt
  <2>2. Pages' /\ CursorTypes' /\ TextTypes'
    BY <1>2, <1>3, <1>4, <1>8, <2>1, PagesFrame DEF CursorTypes, TextTypes
  <2>3. Cursors'
    BY <1>2, <1>4, <1>8, <2>1 DEF BInv, Cursors, CursorOf, Copying, Moving
  <2>4. Texts'
    BY <1>2, <1>4, <1>8, <2>1 DEF BInv, Texts, Copying, Saving
  <2> QED
    BY <1>4, <1>5, <1>7, <2>2, <2>3, <2>4 DEF BInv
<1> QED
  BY <1>9, <1>10, <1>11, <1>12, <1>13, <1>14, <1>15, <1>16, <1>17

LEMMA MultitaskBInv == ASSUME BInv, BootMultitask PROVE BInv'
<1>1. /\ cpu = "init_multitask" /\ cpu' = "init_fs" /\ cur_task \in {Null, Main} /\ mode = "run"
      /\ pid_counter' = pid_counter + 1 /\ estatus' = [estatus EXCEPT ![Main] = "none"]
      /\ cur_task' = Main
      /\ scr' = scr + 1 /\ printed' = [printed EXCEPT ![cur_video_page] = @ + 1]
      /\ UNCHANGED <<launched, mode, tables, held, store, cursor, screen, text, cur_video_page,
                     video_page, struck>>
  BY AfterIs DEF BootMultitask, MainAt, Goes, CreateTask
<1>2. Where = "init_multitask" /\ Where' = "init_fs" /\ Main \in Task /\ Main # Null
  BY <1>1 DEF Where, Task, Main, Null
<1>3. cur_task = Null /\ pid_counter = 0 /\ launched = 0
  BY <1>2 DEF BInv, Control, Early
<1>4. Control'
  <2>1. \A t \in Task \ {Main} : At(t)' = At(t)
    BY <1>1, <1>2, <1>3 DEF At, Task, Null, BInv, Control
  <2>2. Where' \in MainPlace /\ Where' \notin Early /\ Where' \notin StepsOf(Executing)
    BY <1>2, PlaceSets DEF Early, Off, Starting
  <2> QED
    BY <1>1, <1>2, <1>3, <2>1, <2>2 DEF BInv, Control, Created, Main
<1>5. Gates' /\ Stops' /\ Alone'
  BY <1>1, <1>2 DEF BInv, Gates, Stops, Alone, tables, Off
<1>6. Pages'
  BY <1>1, <1>2, <1>3 DEF BInv, Pages, Created, Main, Naming
<1>7. CursorTypes' /\ TextTypes'
  BY <1>1 DEF BInv, CursorTypes, TextTypes, Column, Pages, Status, held
<1>8. Cursors'
  BY <1>1, <1>2 DEF BInv, Cursors, CursorOf, Copying, Moving, CursorTypes, Pages
<1>9. Texts'
  BY <1>1, <1>2 DEF BInv, Texts, Copying, Saving
<1> QED
  BY <1>4, <1>5, <1>6, <1>7, <1>8, <1>9 DEF BInv

LEMMA CreateBInv == ASSUME BInv, create_empty_task PROVE BInv'
<1>1. /\ cpu = "create" /\ cpu' = "segments" /\ cur_task \in {Null, Main} /\ mode = "run"
      /\ pid_counter' = pid_counter + 1 /\ estatus' = [estatus EXCEPT ![pid_counter] = "none"]
      /\ video_page' = [video_page EXCEPT ![pid_counter] = cur_video_page]
      /\ pid_counter < MaxTasks
      /\ UNCHANGED <<cur_task, launched, mode, tables, shown, struck>>
  BY AfterIs DEF create_empty_task, MainAt, Goes, CreateTask
<1>2. Where = "create" /\ Where' = "segments"
  BY <1>1 DEF Where
<1>3. cur_task = Main /\ pid_counter = launched + 1 /\ launched < Shells /\ launched \in Nat
  BY <1>1, <1>2, PlaceSets DEF BInv, Control, Early, Off
<1>4. pid_counter \in Task \ {Main}
  BY <1>1, <1>3 DEF Task, Main
<1>5. Control'
  <2>1. \A t \in Task \ {Main} : At(t)' = At(t)
    BY <1>1, <1>3, <1>4 DEF At, BInv, Control
  <2>2. Where' \in MainPlace /\ Where' \notin Early \cup Starting
    BY <1>2, PlaceSets DEF Early, Off, Starting
  <2>3. Main \in Created' /\ DOMAIN estatus' = Task /\ pid_counter' = launched' + 2
        /\ pid_counter' \in Int
    BY <1>1, <1>3 DEF BInv, Control, Created, Main
  <2> QED
    BY <1>1, <1>2, <1>3, <2>1, <2>2, <2>3 DEF BInv, Control, Main, Null
<1>6. Gates' /\ Stops' /\ Alone'
  BY <1>1, <1>2 DEF BInv, Gates, Stops, Alone, tables, Off, Copying, Naming
<1>7. Pages'
  <2>1. Created' = Created \cup {pid_counter} /\ pid_counter \notin Created
    BY <1>1, <1>3 DEF Created
  <2>2. Created \subseteq Task /\ cur_video_page' = cur_video_page
    BY <1>1, <1>3 DEF Created, Task, shown
  <2> QED
    BY <1>1, <1>2, <1>3, <1>4, <2>1, <2>2 DEF BInv, Pages, Naming
<1>8. CursorTypes' /\ Cursors' /\ TextTypes' /\ Texts'
  BY <1>1, <1>2, <1>3, PlaceSets, ShownFrame DEF Busy, Printing, Saving, Copying, Naming
<1> QED
  BY <1>5, <1>6, <1>7, <1>8 DEF BInv

LEMMA ContextBInv == ASSUME BInv, write_context PROVE BInv'
<1>1. /\ cpu = "context" /\ cpu' = "store" /\ cur_task \in {Null, Main} /\ mode = "run"
      /\ estatus' = [estatus EXCEPT ![pid_counter - 1] = "run"] /\ launched' = launched + 1
      /\ UNCHANGED <<pid_counter, cur_task, mode, tables, shown, video_page, struck>>
  BY AfterIs DEF write_context, MainAt, Goes, FirstContext
<1>2. Where = "context" /\ Where' = "store"
  BY <1>1 DEF Where
<1>3. cur_task = Main /\ pid_counter = launched + 2 /\ launched < Shells /\ launched \in Nat
  BY <1>1, <1>2, PlaceSets DEF BInv, Control, Early, Off
<1>4. Control'
  <2>1. \A t \in Task \ {Main} : At(t)' = IF t = launched + 1 THEN "run" ELSE At(t)
    BY <1>1, <1>3 DEF At, Task, Main, BInv, Control
  <2>2. \A t \in Task \ {Main} : At(t)' = IF t <= launched' THEN "run" ELSE "none"
    BY <1>1, <1>3, <2>1 DEF BInv, Control, Task, Main
  <2>3. /\ Where' \in MainPlace /\ Where' \notin Early \cup Starting
        /\ Where' \notin StepsOf(Executing)
    BY <1>2, PlaceSets DEF Early, Off, Starting
  <2>4. /\ Main \in Created' /\ DOMAIN estatus' = Task /\ launched' \in 0 .. Shells
        /\ pid_counter' = launched' + 1 /\ pid_counter' \in Int
    BY <1>1, <1>3 DEF BInv, Control, Created, Main
  <2> QED
    BY <1>1, <1>2, <1>3, <2>2, <2>3, <2>4 DEF BInv, Control, Main, Null
<1>5. Gates' /\ Stops' /\ Alone'
  BY <1>1, <1>2 DEF BInv, Gates, Stops, Alone, tables, Off, Copying, Naming
<1>6. Pages'
  BY <1>1, <1>2 DEF BInv, Pages, Created, shown, Naming
<1>7. CursorTypes' /\ TextTypes'
  BY <1>1 DEF BInv, CursorTypes, TextTypes, shown, held
<1>8. Cursors' /\ Texts'
  BY <1>1, <1>2 DEF BInv, Cursors, Texts, CursorOf, Copying, Moving, Saving, shown, held
<1> QED
  BY <1>4, <1>5, <1>6, <1>7, <1>8 DEF BInv

-----------------------------------------------------------------------------
(* Interrupts and the shells *)

LEMMA NullBInv == ASSUME BInv, null_task PROVE BInv'
<1>1. /\ mode = "run" /\ cur_task = Null /\ enabled /\ mode' \in {"run", "lost"}
      /\ struck' = struck \cup {"early"}
      /\ UNCHANGED <<vars, tables, shown, video_page>>
  BY DEF null_task, Accepts, Null, Task
<1>2. UNCHANGED <<pid_counter, cur_task, estatus, cpu, launched>> /\ Where' = Where /\ Where = cpu
  BY <1>1 DEF vars, Where
<1>3. cpu \in {"cls", "init_multitask"}
  BY <1>1, <1>2 DEF BInv, Control, Gates, Early
<1>4. Control' /\ Gates' /\ Stops'
  BY <1>1, <1>2, <1>3 DEF BInv, Control, Gates, Stops, Created, At, tables
<1>5. Pages' /\ CursorTypes' /\ TextTypes'
  BY <1>1, <1>2 DEF BInv, Pages, CursorTypes, TextTypes, Created, PageToShow, shown, held
<1>6. Alone' /\ Cursors' /\ Texts'
  BY <1>1, <1>2, <1>3 DEF BInv, Alone, Cursors, Texts, CursorOf, Copying, Naming, Moving, Saving,
                          shown, held
<1> QED
  BY <1>4, <1>5, <1>6 DEF BInv

(* A slice ends: everyone stays at his place; the processor faults only on the
   block main has not finished. *)
LEMMA SliceBInv == ASSUME BInv, timer_slice PROVE BInv'
<1>1. /\ mode = "run" /\ cur_task # Null /\ store' = scr
      /\ mode' = IF cpu' = "none" THEN "fault" ELSE "run"
      /\ struck' = struck \cup Struck("status", Naming) \cup Struck("show", Copying)
                          \cup Struck("exec", {"create", "segments", "context"})
      /\ UNCHANGED <<enabled, gates, remapped, reg, dest, scr, cursor, screen, text,
                     cur_video_page, printed, video_page>>
  BY DEF timer_slice, Switch, Accepts, Naming, Copying, held
<1>2. PICK t \in Created :
        /\ estatus' = [estatus EXCEPT ![cur_task] = cpu]
        /\ cpu' = estatus'[t]
        /\ cur_task' = t
        /\ UNCHANGED <<pid_counter, launched>>
  BY DEF timer_slice, Switch, task_switch
<1>3. cur_task \in Created /\ Created \subseteq Task /\ Main \in Task /\ t # Null /\ Main # Null
  BY <1>1, PlaceSets DEF BInv, Control, Created, Task, Main, Null
<1>4. Where' = Where /\ At(Main) = Where
  BY <1>1, <1>2, <1>3 DEF Where, At, BInv, Control
<1>5. \A s \in Task : At(s)' = At(s)
  BY <1>2, <1>3 DEF At, BInv, Control
<1>6. cpu' = At(t)
  BY <1>2, <1>3 DEF At, BInv, Control
<1>7. Control'
  BY <1>1, <1>2, <1>3, <1>4, <1>5 DEF BInv, Control, Created
<1>8. Gates'
  BY <1>1, <1>4 DEF BInv, Gates
<1>9. Stops'
  <2>1. CASE cpu' # "none"
    BY <1>1, <2>1 DEF Stops
  <2>2. CASE cpu' = "none"
    <3>1. t # Main /\ t > launched
      <4>1. "none" \notin MainPlace
        BY PlaceSets DEF Early, Off, Starting, Saving, Copying, Naming
      <4>2. t # Main
        BY <1>4, <1>6, <2>2, <4>1 DEF BInv, Control
      <4>3. t \in Task \ {Main} /\ t \in Int /\ launched \in Int
        BY <1>2, <1>3, <4>2 DEF BInv, Control, Task
      <4>4. ~(t <= launched)
        BY <1>6, <2>2, <4>3 DEF BInv, Control
      <4> QED
        BY <4>2, <4>3, <4>4
    <3>2. Where \in {"segments", "context"}
      BY <1>1, <1>2, <3>1 DEF BInv, Control, Created
    <3>3. "exec" \in struck'
      BY <1>1, <1>4, <3>2 DEF Struck
    <3> QED
      BY <1>1, <2>2, <3>3 DEF Stops
  <2> QED
    BY <2>1, <2>2
<1>10. Pages'
  BY <1>1, <1>2, <1>4 DEF BInv, Pages, Created, PageToShow
<1>11. CursorTypes' /\ TextTypes'
  BY <1>1 DEF BInv, CursorTypes, TextTypes
<1>12. /\ Where \in Copying => "show" \in struck'
       /\ Where \in Naming => "status" \in struck'
       /\ struck \subseteq struck'
  BY <1>1, <1>4 DEF Struck
<1>13. Alone' /\ Texts'
  BY <1>1, <1>4, <1>12 DEF BInv, Alone, Texts
<1>14. Cursors'
  <2>1. SUFFICES ASSUME struck' \cap {"status", "show", "start"} = {} PROVE Cursors'
    BY DEF Cursors
  <2>2. Where \notin Copying \cup Naming /\ struck \cap {"status", "show", "start"} = {}
    BY <1>12, <2>1
  <2> QED
    BY <1>1, <1>2, <1>4, <2>2 DEF BInv, Cursors, CursorOf, PageToShow, Naming, Copying
<1> QED
  BY <1>7, <1>8, <1>9, <1>10, <1>11, <1>13, <1>14 DEF BInv

LEMMA KeyBInv == ASSUME BInv, NEW page \in Page \ {0}, page_key(page) PROVE BInv'
<1> DEFINE stored == [text EXCEPT ![cur_video_page] = screen]
           cursors == [cursor EXCEPT ![cur_video_page] = scr]
<1>1. /\ mode = "run" /\ cur_task # Null
      /\ text' = stored /\ screen' = stored[page]
      /\ cursor' = cursors /\ scr' = cursors[page] /\ store' = cursors[page]
      /\ cur_video_page' = page
      /\ struck' = struck \cup Struck("start", Printing)
                   \cup Struck("show", Saving \cup Copying \cup Naming)
                   \cup Struck("page", Naming \cup {"aside", "find", "create"})
      /\ UNCHANGED <<vars, mode, tables, reg, dest, printed, video_page>>
  BY DEF page_key, Accepts, Printing, Saving, Copying, Naming, held
<1>2. /\ UNCHANGED <<pid_counter, cur_task, estatus, cpu, launched>> /\ Where' = Where
      /\ At(Main) = Where /\ Created' = Created /\ \A t \in Task : At(t)' = At(t)
  BY <1>1 DEF vars, Where, At, Created
<1>3. Control' /\ Gates' /\ Stops'
  BY <1>1, <1>2 DEF BInv, Control, Gates, Stops, tables
<1>4. /\ Where \in Saving \cup Copying \cup Naming => "show" \in struck'
      /\ Where \in Printing => "start" \in struck'
      /\ Where \in Naming \cup {"aside", "find", "create"} => "page" \in struck'
      /\ struck \subseteq struck'
  BY <1>1, <1>2 DEF Struck
<1>5. Pages'
  BY <1>1, <1>2, <1>4 DEF BInv, Pages
<1>6. CursorTypes' /\ TextTypes'
  BY <1>1 DEF BInv, CursorTypes, TextTypes, Pages
<1>7. Alone'
  BY <1>2, <1>4 DEF BInv, Alone
<1>8. Texts'
  BY <1>1, <1>2, <1>4 DEF BInv, Texts, TextTypes, Pages
<1>9. Cursors'
  <2>1. SUFFICES ASSUME struck' \cap {"status", "show", "start"} = {}
                 PROVE  /\ Where' \notin Busy
                        /\ \A p \in Page : CursorOf(p)' = printed'[p]
    BY <1>1 DEF Cursors, Busy, Printing, Copying, Naming, Moving
  <2>2. Where \notin Busy
    BY <1>4, <2>1 DEF Busy
  <2>4. \A p \in Page : CursorOf(p) = printed[p]
    BY <1>1, <1>4, <2>1, <2>2 DEF BInv, Cursors, Busy, Printing, Copying, Naming, Moving
  <2>3. \A p \in Page : cursors[p] = CursorOf(p)
    BY DEF BInv, CursorTypes, CursorOf
  <2> QED
    BY <1>1, <1>2, <2>2, <2>3, <2>4 DEF CursorOf
<1> QED
  BY <1>3, <1>5, <1>6, <1>7, <1>8, <1>9 DEF BInv

(* A shell prints: on its own page, whichever is shown. *)
LEMMA PutchBInv == ASSUME BInv, putch_for_syscall PROVE BInv'
<1> DEFINE saved == [cursor EXCEPT ![cur_video_page] = scr]
<1>1. PICK page : page = video_page[cur_task]
  OBVIOUS
<1>2. /\ mode = "run" /\ cur_task \in Task \ {Main}
      /\ cursor' = [saved EXCEPT ![page] = IF @ = Status THEN Status ELSE @ + 1]
      /\ scr' = cursor'[cur_video_page]
      /\ printed' = [printed EXCEPT ![page] = @ + 1]
      /\ UNCHANGED <<vars, mode, tables, reg, dest, store, screen, text, cur_video_page,
                     video_page, struck>>
  BY <1>1 DEF putch_for_syscall, held
<1>3. /\ UNCHANGED <<pid_counter, cur_task, estatus, cpu, launched>> /\ Where' = Where
      /\ Created' = Created /\ PageToShow' = PageToShow /\ \A t \in Task : At(t)' = At(t)
  BY <1>2 DEF vars, Where, At, Created, PageToShow
<1>4. /\ page \in Page /\ cur_video_page \in Page /\ scr \in Column
      /\ cursor \in [Page -> Column] /\ printed \in [Page -> Nat]
  BY <1>1, <1>2 DEF BInv, Pages, CursorTypes
<1>5. Control' /\ Gates' /\ Stops'
  BY <1>2, <1>3 DEF BInv, Control, Gates, Stops, tables
<1>6. Pages' /\ TextTypes' /\ Texts' /\ Alone'
  BY <1>2, <1>3 DEF BInv, Pages, TextTypes, Texts, Alone
<1>7. saved \in [Page -> Column]
  BY <1>4
<1>8. /\ cursor' \in [Page -> Column]
      /\ \A p \in Page \ {page} : cursor'[p] = saved[p]
      /\ cursor'[page] = IF saved[page] = Status THEN Status ELSE saved[page] + 1
  <2>1. (IF saved[page] = Status THEN Status ELSE saved[page] + 1) \in Column
    BY <1>4, <1>7 DEF Column, Status
  <2> QED
    BY <1>2, <1>4, <1>7, <2>1
<1>9. CursorTypes'
  BY <1>2, <1>4, <1>8 DEF BInv, CursorTypes
<1>10. Cursors'
  <2>1. SUFFICES ASSUME struck \cap {"status", "show", "start"} = {}
                 PROVE  /\ Where \notin Printing \cup Copying \cup Naming
                        /\ \A p \in Page : CursorOf(p)' = printed'[p]
    BY <1>2, <1>3 DEF Cursors, Printing, Copying, Naming, Moving
  <2>5. Where \notin Starting
    BY <1>2 DEF BInv, Control, Created, Starting, Task, Main, Null
  <2>6. Where \notin Printing \cup Copying \cup Naming
    BY <1>2, <2>1, <2>5 DEF BInv, Alone, Printing, Starting
  <2>2. Where \notin Printing \cup Copying \cup Naming
        /\ \A p \in Page : CursorOf(p) = printed[p]
    BY <1>2, <2>1, <2>6 DEF BInv, Cursors, Printing, Naming, Copying, Moving
  <2>3. \A p \in Page : saved[p] = printed[p]
    BY <1>4, <2>2 DEF CursorOf
  <2>4. \A p \in Page : cursor'[p] = printed'[p]
    BY <1>2, <1>4, <1>8, <2>3 DEF Status
  <2> QED
    BY <1>2, <1>4, <2>2, <2>4 DEF CursorOf
<1> QED
  BY <1>5, <1>6, <1>9, <1>10 DEF BInv

LEMMA StutterBInv == BInv /\ UNCHANGED bvars => BInv'
<1> SUFFICES ASSUME BInv, UNCHANGED bvars PROVE BInv'
  OBVIOUS
<1>1. UNCHANGED <<pid_counter, cur_task, estatus, cpu, launched, mode, tables, shown, video_page,
                  struck>>
  BY DEF bvars, vars
<1>2. Control' /\ Gates' /\ Stops' /\ Pages'
  BY <1>1 DEF BInv, Control, Gates, Stops, Pages, Where, At, Created, PageToShow, tables, shown
<1>3. CursorTypes' /\ Alone' /\ Cursors' /\ TextTypes' /\ Texts'
  BY <1>1 DEF BInv, CursorTypes, Alone, Cursors, TextTypes, Texts, Where, CursorOf, PageToShow,
             shown, held
<1> QED
  BY <1>2, <1>3 DEF BInv

LEMMA NextBInv == BInv /\ [BNext]_bvars => BInv'
<1> SUFFICES ASSUME BInv, [BNext]_bvars PROVE BInv'
  OBVIOUS
<1>1. CASE main_step
  BY <1>1, SetupBInv, PrintBInv, StartBInv, ShowBInv, MultitaskBInv, CreateBInv, ContextBInv DEF main_step
<1>2. CASE null_task
  BY <1>2, NullBInv
<1>3. CASE timer_slice
  BY <1>3, SliceBInv
<1>4. CASE putch_for_syscall
  BY <1>4, PutchBInv
<1>5. ASSUME NEW page \in Page \ {0}, page_key(page) PROVE BInv'
  BY <1>5, KeyBInv
<1>6. CASE UNCHANGED bvars
  BY <1>6, StutterBInv
<1> QED
  BY <1>1, <1>2, <1>3, <1>4, <1>5, <1>6 DEF BNext

LEMMA BootInvariance == BSpec => []BInv
BY InitBInv, NextBInv, PTL DEF BSpec

-----------------------------------------------------------------------------
(* Main stays in its order, shells that are launched have a context, and
   cursors, texts and pages stay in their types. *)
THEOREM BootTypeCorrect == BSpec => []BTypeOK
<1>1. BInv => BTypeOK
  <2> SUFFICES ASSUME BInv PROVE BTypeOK
    OBVIOUS
  <2>1. At(Main) \in MainPlace \cup {"none"}
    BY DEF BInv, Control, At, Where
  <2>2. /\ \A t \in Task \ {Main} : At(t) \in {"none", "run"}
        /\ \A t \in 1 .. launched : At(t) = "run"
    BY DEF BInv, Control, Task, Main
  <2> QED
    BY <2>1, <2>2 DEF BInv, BTypeOK, Control, CursorTypes, TextTypes, Pages, Column
<1> QED
  BY <1>1, BootInvariance, PTL

(* From sti on, every request comes to a gate that is there, and to none of
   those the processor uses for exceptions. *)
THEOREM GatesTheorem == BSpec => []RequestsHaveGates
<1>1. BInv => RequestsHaveGates
  BY DEF BInv, Gates, RequestsHaveGates, VectorOf, Off
<1> QED
  BY <1>1, BootInvariance, PTL

(* However many interrupts fall into main, only two windows stop the machine. *)
THEOREM StopsTheorem == BSpec => []StopsOnlyInWindows
<1>1. BInv => StopsOnlyInWindows
  BY DEF BInv, Stops, StopsOnlyInWindows
<1> QED
  BY <1>1, BootInvariance, PTL

(* Every terminal goes on where it was left unless an interrupt fell into
   switch_video_page, or a page key into the line main prints. *)
THEOREM CursorsTheorem == BSpec => []CursorsStay
<1>1. BInv => CursorsStay
  <2> SUFFICES ASSUME BInv PROVE CursorsStay
    OBVIOUS
  <2>1. At(Main) \notin Moving /\ cur_task # Null => Where \notin Moving
    BY DEF At, Where
  <2>2. cur_task = Null => Where \notin Moving
    BY DEF BInv, Control, Early, Off, Copying, Moving
  <2> QED
    BY <2>1, <2>2 DEF BInv, Cursors, CursorsStay, Copying, Moving
<1> QED
  BY <1>1, BootInvariance, PTL

(* No terminal's text comes to another page unless an interrupt fell into
   switch_video_page. *)
THEOREM TextsTheorem == BSpec => []TextsStay
<1>1. BInv => TextsStay
  <2> SUFFICES ASSUME BInv PROVE TextsStay
    OBVIOUS
  <2>1. At(Main) \notin Copying /\ cur_task # Null => Where \notin Copying
    BY DEF At, Where
  <2>2. cur_task = Null => Where \notin Copying
    BY DEF BInv, Control, Early, Off, Copying
  <2> QED
    BY <2>1, <2>2 DEF BInv, Texts, TextsStay, Copying
<1> QED
  BY <1>1, BootInvariance, PTL

(* The shells have the pages in their order unless a page key fell between
   main's choice of a page and its exec. *)
THEOREM PagesTheorem == BSpec => []ShellPages
<1>1. BInv => ShellPages
  BY DEF BInv, Pages, ShellPages
<1> QED
  BY <1>1, BootInvariance, PTL
=============================================================================
