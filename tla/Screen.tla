------------------------------- MODULE Screen -------------------------------
(***************************************************************************)
(* The screen driver, kernel/screen.c.  Video memory is one array: page 0  *)
(* of it is what the monitor shows, pages 1, 2, ... hold the terminals,    *)
(* and the terminal being shown has its text in both places.  scr_x, scr_y *)
(* is the cursor of the terminal shown, curx, cury keep those of the       *)
(* others.  Rows 0 .. SCR_BOTTOM are text, the rows below are for status.  *)
(*                                                                         *)
(* Everything here runs with interrupts off (in system calls or interrupt  *)
(* handlers) once main has started the shells.                             *)
(***************************************************************************)
EXTENDS Integers

CONSTANTS Pages,         \* the terminals, 1 .. 3 in init/main.c
          WIDTH,         \* 80
          SCR_BOTTOM,    \* 22
          HEIGHT,        \* 25, the rows of a page
          TAB,           \* 8
          Glyph,         \* the characters that show
          Blank, Status  \* an empty cell, a cell of the status line

ASSUME ScreenAssumption ==
    /\ Pages \subseteq Nat \ {0} /\ 1 \in Pages
    /\ WIDTH \in Nat \ {0} /\ TAB \in Nat \ {0}
    /\ SCR_BOTTOM \in Nat /\ HEIGHT \in Nat /\ HEIGHT > SCR_BOTTOM + 1
    /\ Glyph \cap {"\n", "\r", "\t", "BS"} = {}

Char == Glyph \cup {"\n", "\r", "\t", "BS"}
PageSize == WIDTH * HEIGHT
TextCell == 0 .. (SCR_BOTTOM + 1) * WIDTH - 1
Address == {PageSize * p + c : p \in Pages \cup {0}, c \in 0 .. PageSize - 1}

VARIABLES
    video,               \* video memory
    scr_x, scr_y,        \* row and column of the cursor
    curx, cury,
    position,            \* where the hardware shows the cursor
    cur_video_page

vars == <<video, scr_x, scr_y, curx, cury, position, cur_video_page>>

(* The state at the end of main, which has shown every page once: the status
   lines are written and nothing is printed on the terminals yet. *)
Init ==
    /\ video = [a \in Address |->
                  IF a % PageSize \in {(HEIGHT - 1) * WIDTH, PageSize - 1} THEN Status ELSE Blank]
    /\ scr_x = 0 /\ scr_y = 0
    /\ curx = [p \in Pages |-> 0] /\ cury = [p \in Pages |-> 0]
    /\ position = 0
    /\ cur_video_page = 1

-----------------------------------------------------------------------------
(* The arithmetic of one character, common to scr_putch and putch_for_syscall:
   the row and the column after c at row x, column y, and whether the text has
   then to scroll. *)
NewColumn(y, c) ==
    CASE c = "BS" -> y - 1
      [] c = "\t" -> ((y + TAB) \div TAB) * TAB
      [] c \in {"\r", "\n"} -> 0
      [] OTHER -> y + 1

NewRow(x, y, c) ==
    IF c = "\n" \/ NewColumn(y, c) >= WIDTH THEN x + 1 ELSE x

Column(y, c) == IF NewColumn(y, c) >= WIDTH THEN 0 ELSE NewColumn(y, c)

FaultyScrolls(x, y, c) == NewRow(x, y, c) = SCR_BOTTOM + 2  \* one row late

Scrolls(x, y, c) == NewRow(x, y, c) = SCR_BOTTOM + 1

Row(x, y, c) == IF Scrolls(x, y, c) THEN SCR_BOTTOM ELSE NewRow(x, y, c)

(* Memory after scroll_up of the page that starts at address start. *)
ScrollUp(mem, start) ==
    [a \in Address |->
        CASE a - start \in 0 .. SCR_BOTTOM * WIDTH - 1 -> mem[a + WIDTH]
          [] a - start \in SCR_BOTTOM * WIDTH .. (SCR_BOTTOM + 1) * WIDTH - 1 -> Blank
          [] OTHER -> mem[a]]

(* Memory after c is printed at row x, column y of the page at start. *)
PutAt(mem, start, x, y, c) ==
    LET written == IF c \in Glyph THEN [mem EXCEPT ![start + x * WIDTH + y] = c] ELSE mem
    IN  IF Scrolls(x, y, c) THEN ScrollUp(written, start) ELSE written

(* A program only erases what it has printed (user/programs/shell.c:31): it
   never moves the cursor left of the first cell. *)
Erasable(x, y, c) == c = "BS" => x * WIDTH + y > 0

-----------------------------------------------------------------------------
(* scr_putch: the kernel prints on what is shown, whoever called it. *)
scr_putch(c) ==
    /\ Erasable(scr_x, scr_y, c)
    /\ video' = PutAt(video, 0, scr_x, scr_y, c)
    /\ scr_x' = Row(scr_x, scr_y, c)
    /\ scr_y' = Column(scr_y, c)
    /\ position' = scr_x' * WIDTH + scr_y'
    /\ UNCHANGED <<curx, cury, cur_video_page>>

FaultyPutch(page, c) ==  \* takes the cursor of the terminal shown
    /\ Erasable(scr_x, scr_y, c)
    /\ video' = LET own == PutAt(video, PageSize * page, scr_x, scr_y, c)
                IN  IF page = cur_video_page THEN PutAt(own, 0, scr_x, scr_y, c) ELSE own
    /\ curx' = [curx EXCEPT ![page] = Row(scr_x, scr_y, c)]
    /\ cury' = [cury EXCEPT ![page] = Column(scr_y, c)]
    /\ scr_x' = Row(scr_x, scr_y, c)
    /\ scr_y' = Column(scr_y, c)
    /\ position' = scr_x' * WIDTH + scr_y'
    /\ UNCHANGED cur_video_page

(* putch_for_syscall, called by a program whose terminal is page. *)
putch_for_syscall(page, c) ==
    LET savedx == [curx EXCEPT ![cur_video_page] = scr_x]
        savedy == [cury EXCEPT ![cur_video_page] = scr_y]
        x == savedx[page]
        y == savedy[page]
        own == PutAt(video, PageSize * page, x, y, c)
    IN  /\ Erasable(x, y, c)
        /\ video' = IF page = cur_video_page THEN PutAt(own, 0, x, y, c) ELSE own
        /\ curx' = [savedx EXCEPT ![page] = Row(x, y, c)]
        /\ cury' = [savedy EXCEPT ![page] = Column(y, c)]
        /\ scr_x' = curx'[cur_video_page]
        /\ scr_y' = cury'[cur_video_page]
        /\ position' = scr_x' * WIDTH + scr_y'
        /\ UNCHANGED cur_video_page

(* spin and the status line of task_switch: scr_temp_move_to puts the cursor
   aside, the status is written in hide mode and scr_temp_retrieve takes the
   cursor back.  store_x, store_y live no longer than this. *)
timer_handler ==
    /\ video' = [video EXCEPT ![PageSize - 1] = Status]
    /\ UNCHANGED <<scr_x, scr_y, curx, cury, position, cur_video_page>>

FaultyShow(page) ==  \* moves the cursor in hide mode only
    /\ video' = [a \in Address |->
          CASE a = (HEIGHT - 1) * WIDTH -> Status
            [] a \in 0 .. PageSize - 1 /\ page # cur_video_page -> video[PageSize * page + a]
            [] a - PageSize * cur_video_page \in 0 .. PageSize - 1
                 -> video[a - PageSize * cur_video_page]
            [] OTHER -> video[a]]
    /\ curx' = [curx EXCEPT ![cur_video_page] = scr_x]
    /\ cury' = [cury EXCEPT ![cur_video_page] = scr_y]
    /\ scr_x' = curx'[page]
    /\ scr_y' = cury'[page]
    /\ cur_video_page' = page
    /\ UNCHANGED position

(* switch_video_page: store what is shown, load the page, then write its name
   into the status line of what is shown now. *)
switch_video_page(page) ==
    /\ video' = [a \in Address |->
          CASE a = (HEIGHT - 1) * WIDTH -> Status
            [] a \in 0 .. PageSize - 1 /\ page # cur_video_page -> video[PageSize * page + a]
            [] a - PageSize * cur_video_page \in 0 .. PageSize - 1
                 -> video[a - PageSize * cur_video_page]
            [] OTHER -> video[a]]
    /\ curx' = [curx EXCEPT ![cur_video_page] = scr_x]
    /\ cury' = [cury EXCEPT ![cur_video_page] = scr_y]
    /\ scr_x' = curx'[page]
    /\ scr_y' = cury'[page]
    /\ position' = scr_x' * WIDTH + scr_y'
    /\ cur_video_page' = page

Next ==
    \/ \E c \in Char : scr_putch(c)
    \/ \E p \in Pages, c \in Char : putch_for_syscall(p, c)
    \/ timer_handler
    \/ \E p \in Pages : switch_video_page(p)

Spec == Init /\ [][Next]_vars

-----------------------------------------------------------------------------
TextOf(p) ==
    [c \in TextCell |-> IF p = cur_video_page THEN video[c] ELSE video[PageSize * p + c]]

CursorOf(p) ==
    IF p = cur_video_page THEN [x |-> scr_x, y |-> scr_y] ELSE [x |-> curx[p], y |-> cury[p]]

Abstract == INSTANCE Terminals
    WITH Shown0 <- 1,
         text <- [p \in Pages |-> TextOf(p)],
         cursor <- [p \in Pages |-> CursorOf(p)],
         shown <- cur_video_page

(* Every cursor is in the text rows: what is printed next goes neither to the
   status lines nor to another page. *)
TypeOK ==
    /\ video \in [Address -> Glyph \cup {Blank, Status}]
    /\ cur_video_page \in Pages
    /\ \A p \in Pages : /\ CursorOf(p).x \in 0 .. SCR_BOTTOM
                        /\ CursorOf(p).y < WIDTH
                        /\ CursorOf(p).x * WIDTH + CursorOf(p).y \in TextCell

(* One video memory, two copies of the text shown and one pair of cursor
   variables act like terminals that are independent of each other. *)
TerminalsSpec == Abstract!Spec

(* The hardware cursor stands where the next character of the terminal shown
   goes, also when a hidden terminal was printed on or a status was written. *)
CursorIsShown == position = scr_x * WIDTH + scr_y
=============================================================================
