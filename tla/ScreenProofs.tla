---------------------------- MODULE ScreenProofs ----------------------------
(***************************************************************************)
(* Proofs, for screens of every size and any number of terminals, that no  *)
(* cursor leaves the text of its page and that one video memory with its   *)
(* copies implements the independent terminals of module Terminals.        *)
(***************************************************************************)
EXTENDS Screen, TLAPS

USE ScreenAssumption

(* A cursor may stand left of its row after backspaces, but not before the
   first cell of the page. *)
InText(x, y) == x \in 0 .. SCR_BOTTOM /\ y \in Int /\ y < WIDTH /\ x * WIDTH + y \in TextCell

Content == Glyph \cup {Blank, Status}

(* The saved cursors are in the text as well, those of the shown page included
   (they are those of the last time something else was shown). *)
SInv ==
    /\ video \in [Address -> Content]
    /\ cur_video_page \in Pages
    /\ InText(scr_x, scr_y)
    /\ curx \in [Pages -> Int] /\ cury \in [Pages -> Int]
    /\ \A p \in Pages : InText(curx[p], cury[p])

-----------------------------------------------------------------------------
(* Rows and pages as products. *)
LEMMA MulMono ==
    ASSUME NEW a \in Int, NEW b \in Int, NEW w \in Nat, a <= b PROVE a * w <= b * w
OBVIOUS

LEMMA MulNat == ASSUME NEW a \in Nat, NEW w \in Nat PROVE a * w \in Nat
OBVIOUS

LEMMA MulSucc == ASSUME NEW a \in Int, NEW w \in Nat PROVE (a + 1) * w = a * w + w
OBVIOUS

(* A page is longer than its text and one row more. *)
LEMMA PageIsLong ==
    /\ PageSize \in Nat \ {0}
    /\ (SCR_BOTTOM + 1) * WIDTH + WIDTH <= PageSize
    /\ (SCR_BOTTOM + 1) * WIDTH = SCR_BOTTOM * WIDTH + WIDTH
    /\ SCR_BOTTOM * WIDTH \in Nat
<1>1. (SCR_BOTTOM + 2) * WIDTH <= HEIGHT * WIDTH
  BY MulMono, SCR_BOTTOM + 2 <= HEIGHT
<1>2. (SCR_BOTTOM + 1) * WIDTH + WIDTH = (SCR_BOTTOM + 2) * WIDTH
  BY MulSucc, (SCR_BOTTOM + 1) + 1 = SCR_BOTTOM + 2
<1>3. HEIGHT * WIDTH = WIDTH * HEIGHT
  OBVIOUS
<1> QED
  BY <1>1, <1>2, <1>3, MulSucc, MulNat DEF PageSize

LEMMA TextInPage == \A c \in TextCell : c \in 0 .. PageSize - 1 - WIDTH
BY PageIsLong DEF TextCell

(* Cells of different pages have different addresses. *)
LEMMA PagesApart ==
    ASSUME NEW p \in Nat, NEW q \in Nat, p # q,
           NEW c \in 0 .. PageSize - 1, NEW d \in 0 .. PageSize - 1
    PROVE  PageSize * p + c # PageSize * q + d
<1> PageSize \in Nat \ {0}
  BY PageIsLong
<1> HIDE DEF PageSize
<1>1. ASSUME NEW a \in Nat, NEW b \in Nat, a < b PROVE PageSize * a + PageSize <= PageSize * b
  <2>1. (a + 1) * PageSize <= b * PageSize
    BY <1>1, MulMono, a + 1 <= b
  <2> QED
    BY <2>1, MulSucc
<1>2. PageSize * p \in Nat /\ PageSize * q \in Nat
  OBVIOUS
<1> QED
  BY <1>1, <1>2

(* The addresses of page p are its first one and those behind it. *)
LEMMA AddressOf ==
    ASSUME NEW p \in Pages \cup {0}, NEW c \in 0 .. PageSize - 1
    PROVE  PageSize * p + c \in Address
BY DEF Address

LEMMA FirstPage == \A c \in 0 .. PageSize - 1 : PageSize * 0 + c = c /\ c \in Address
<1>1. PageSize * 0 = 0
  BY PageIsLong
<1> QED
  BY <1>1, AddressOf

-----------------------------------------------------------------------------
(* The cursor after a character. *)
LEMMA TabForward ==
    ASSUME NEW y \in Int PROVE NewColumn(y, "\t") \in Int /\ NewColumn(y, "\t") > y
<1>1. /\ ((y + TAB) \div TAB) \in Int
      /\ y + TAB < ((y + TAB) \div TAB) * TAB + TAB
  OBVIOUS
<1> QED
  BY <1>1 DEF NewColumn

LEMMA NewPlace ==
    ASSUME NEW x, NEW y, NEW c \in Char, InText(x, y), Erasable(x, y, c)
    PROVE  /\ NewColumn(y, c) \in Int
           /\ NewRow(x, y, c) \in x .. x + 1
           /\ Scrolls(x, y, c) <=> NewRow(x, y, c) > SCR_BOTTOM
           /\ InText(Row(x, y, c), Column(y, c))
<1> x \in Int /\ y \in Int /\ x \in 0 .. SCR_BOTTOM /\ y < WIDTH
  BY DEF InText
<1>1. NewColumn(y, c) \in Int
  BY TabForward DEF NewColumn
<1>2. NewRow(x, y, c) \in x .. x + 1
  BY DEF NewRow
<1>3. Scrolls(x, y, c) <=> NewRow(x, y, c) > SCR_BOTTOM
  BY <1>2 DEF Scrolls
<1>4. Row(x, y, c) \in 0 .. SCR_BOTTOM
  BY <1>2, <1>3 DEF Row
<1>5. Column(y, c) \in Int /\ Column(y, c) < WIDTH
  BY <1>1 DEF Column
<1>6. \A r \in 0 .. SCR_BOTTOM : /\ r * WIDTH \in Nat
                                 /\ r * WIDTH <= SCR_BOTTOM * WIDTH
  BY MulMono, MulNat
<1>7. Row(x, y, c) * WIDTH + Column(y, c) >= 0
  <2>1. CASE Column(y, c) = 0
    BY <2>1, <1>4, <1>6
  <2>2. CASE Column(y, c) = y - 1 /\ c = "BS"
    <3>1. Row(x, y, c) = x
      BY <2>2 DEF Row, Scrolls, NewRow, NewColumn
    <3>2. x * WIDTH + y > 0 /\ x * WIDTH \in Nat
      BY <2>2, <1>6 DEF Erasable
    <3> QED
      BY <2>2, <3>1, <3>2
  <2>3. CASE Column(y, c) > y /\ NewColumn(y, c) < WIDTH /\ c # "\n"
    <3>1. Row(x, y, c) = x
      BY <2>3, <1>1 DEF Row, Scrolls, NewRow
    <3>2. x * WIDTH + y >= 0 /\ x * WIDTH \in Nat
      BY <1>6 DEF InText, TextCell
    <3> QED
      BY <2>3, <3>1, <3>2, <1>5
  <2> QED
    BY <2>1, <2>2, <2>3, <1>1, TabForward DEF Column, NewColumn
<1>8. Row(x, y, c) * WIDTH + Column(y, c) < (SCR_BOTTOM + 1) * WIDTH
  BY <1>4, <1>5, <1>6, PageIsLong
<1>9. Row(x, y, c) * WIDTH + Column(y, c) \in TextCell
  <2>1. Row(x, y, c) * WIDTH \in Nat /\ (SCR_BOTTOM + 1) * WIDTH \in Nat
    BY <1>4, <1>6, MulNat
  <2> QED
    BY <2>1, <1>5, <1>7, <1>8 DEF TextCell
<1> QED
  BY <1>1, <1>2, <1>3, <1>4, <1>5, <1>9 DEF InText

-----------------------------------------------------------------------------
(* What a character does to the memory. *)

(* The text in the page at address PageSize * p. *)
View(mem, p) == [k \in TextCell |-> mem[PageSize * p + k]]

WriteAt(mem, a, c) == [mem EXCEPT ![a] = c]

(* The text t after c at row x, column y. *)
Written(t, x, y, c) == IF c \in Glyph THEN [t EXCEPT ![x * WIDTH + y] = c] ELSE t
TextAfter(t, x, y, c) ==
    IF Scrolls(x, y, c)
    THEN [k \in TextCell |->
            IF k + WIDTH \in TextCell THEN Written(t, x, y, c)[k + WIDTH] ELSE Blank]
    ELSE Written(t, x, y, c)

LEMMA TextAddress ==
    ASSUME NEW p \in Pages \cup {0}, NEW k \in TextCell
    PROVE  /\ PageSize * p + k \in Address
           /\ k \in 0 .. PageSize - 1 - WIDTH
           /\ PageSize * p \in Nat
<1>1. k \in 0 .. PageSize - 1 - WIDTH /\ PageSize \in Nat \ {0}
  BY TextInPage, PageIsLong
<1>2. PageSize * p \in Nat
  BY <1>1
<1> QED
  BY <1>1, <1>2, AddressOf

LEMMA WriteViews ==
    ASSUME NEW mem \in [Address -> Content], NEW p \in Pages \cup {0}, NEW cell \in TextCell,
           NEW c \in Content,
           NEW new, new = WriteAt(mem, PageSize * p + cell, c)
    PROVE  /\ new \in [Address -> Content]
           /\ View(new, p) = WriteAt(View(mem, p), cell, c)
           /\ \A q \in Pages \cup {0} : q # p => View(new, q) = View(mem, q)
<1>0. new = [mem EXCEPT ![PageSize * p + cell] = c]
  BY DEF WriteAt
<1>1. new \in [Address -> Content]
  BY <1>0
<1>2. \A k \in TextCell : View(new, p)[k] = IF k = cell THEN c ELSE View(mem, p)[k]
  <2> SUFFICES ASSUME NEW k \in TextCell
               PROVE  View(new, p)[k] = IF k = cell THEN c ELSE View(mem, p)[k]
    OBVIOUS
  <2>1. /\ PageSize * p + k \in Address /\ PageSize * p \in Nat /\ k \in Int /\ cell \in Int
        /\ View(new, p)[k] = new[PageSize * p + k] /\ View(mem, p)[k] = mem[PageSize * p + k]
    BY TextAddress DEF View, TextCell
  <2>2. PageSize * p + k = PageSize * p + cell <=> k = cell
    BY <2>1
  <2> QED
    BY <1>0, <2>1, <2>2
<1>3. View(new, p) = WriteAt(View(mem, p), cell, c)
  BY <1>2 DEF View, WriteAt
<1>4. ASSUME NEW q \in Pages \cup {0}, q # p PROVE View(new, q) = View(mem, q)
  <2>1. ASSUME NEW k \in TextCell PROVE new[PageSize * q + k] = mem[PageSize * q + k]
    <3>1. PageSize * q + k \in Address
      BY TextAddress
    <3>2. k \in 0 .. PageSize - 1 /\ cell \in 0 .. PageSize - 1 /\ p \in Nat /\ q \in Nat
      BY TextInPage, PageIsLong
    <3>3. PageSize * q + k # PageSize * p + cell
      BY <1>4, <3>2, PagesApart
    <3> QED
      BY <1>0, <3>1, <3>3
  <2> QED
    BY <2>1 DEF View
<1> QED
  BY <1>1, <1>3, <1>4

LEMMA ScrollViews ==
    ASSUME NEW mem \in [Address -> Content], NEW p \in Pages \cup {0},
           NEW new, new = ScrollUp(mem, PageSize * p)
    PROVE  /\ new \in [Address -> Content]
           /\ View(new, p) = [k \in TextCell |->
                  IF k + WIDTH \in TextCell THEN View(mem, p)[k + WIDTH] ELSE Blank]
           /\ \A q \in Pages \cup {0} : q # p => View(new, q) = View(mem, q)
<1>0. /\ PageSize * p \in Nat /\ PageSize \in Nat
      /\ SCR_BOTTOM * WIDTH \in Nat /\ (SCR_BOTTOM + 1) * WIDTH = SCR_BOTTOM * WIDTH + WIDTH
      /\ SCR_BOTTOM * WIDTH + WIDTH <= PageSize
  BY PageIsLong
<1>1. new \in [Address -> Content]
  <2>1. ASSUME NEW a \in Address, a - PageSize * p \in 0 .. SCR_BOTTOM * WIDTH - 1
        PROVE  a + WIDTH \in Address
    <3>1. a \in Int
      BY <1>0 DEF Address
    <3> DEFINE c == a - PageSize * p + WIDTH
    <3>2. c \in 0 .. PageSize - 1 /\ a + WIDTH = PageSize * p + c
      BY <1>0, <2>1, <3>1
    <3> HIDE DEF c
    <3> QED
      BY <3>2, AddressOf
  <2> QED
    BY <2>1 DEF ScrollUp, Content
<1>2. ASSUME NEW k \in TextCell
      PROVE  new[PageSize * p + k] =
                 IF k + WIDTH \in TextCell THEN View(mem, p)[k + WIDTH] ELSE Blank
  <2>1. PageSize * p + k \in Address /\ k \in Nat /\ (PageSize * p + k) - PageSize * p = k
    BY <1>0, TextAddress DEF TextCell
  <2>2. CASE k \in 0 .. SCR_BOTTOM * WIDTH - 1
    <3>1. k + WIDTH \in TextCell
      BY <1>0, <2>2 DEF TextCell
    <3>2. new[PageSize * p + k] = mem[(PageSize * p + k) + WIDTH]
      BY <2>1, <2>2 DEF ScrollUp
    <3>3. (PageSize * p + k) + WIDTH = PageSize * p + (k + WIDTH)
      BY <1>0, <2>1
    <3> QED
      BY <3>1, <3>2, <3>3 DEF View
  <2>3. CASE k \in SCR_BOTTOM * WIDTH .. (SCR_BOTTOM + 1) * WIDTH - 1
    <3>1. k + WIDTH \notin TextCell /\ k \notin 0 .. SCR_BOTTOM * WIDTH - 1
      BY <1>0, <2>3 DEF TextCell
    <3> QED
      BY <2>1, <2>3, <3>1 DEF ScrollUp
  <2> QED
    BY <1>0, <2>1, <2>2, <2>3 DEF TextCell
<1>3. View(new, p) = [k \in TextCell |->
          IF k + WIDTH \in TextCell THEN View(mem, p)[k + WIDTH] ELSE Blank]
  BY <1>2 DEF View
<1>4. ASSUME NEW q \in Pages \cup {0}, q # p PROVE View(new, q) = View(mem, q)
  <2>1. ASSUME NEW k \in TextCell PROVE new[PageSize * q + k] = mem[PageSize * q + k]
    <3>1. PageSize * q + k \in Address /\ PageSize * q \in Nat
      BY TextAddress
    <3>2. k \in 0 .. PageSize - 1 /\ p \in Nat /\ q \in Nat
      BY TextInPage, PageIsLong
    <3> DEFINE a == PageSize * q + k
               c == a - PageSize * p
    <3>3. c \notin 0 .. PageSize - 1
      <4> SUFFICES ASSUME c \in 0 .. PageSize - 1 PROVE FALSE
        OBVIOUS
      <4>1. PageSize * p + c = PageSize * q + k
        BY <1>0, <3>1, <3>2
      <4> HIDE DEF c
      <4> QED
        BY <1>4, <3>2, <4>1, PagesApart
    <3>4. /\ c \notin 0 .. SCR_BOTTOM * WIDTH - 1
          /\ c \notin SCR_BOTTOM * WIDTH .. (SCR_BOTTOM + 1) * WIDTH - 1
      BY <1>0, <3>1, <3>2, <3>3
    <3> QED
      BY <3>1, <3>4 DEF ScrollUp
  <2> QED
    BY <2>1 DEF View
<1> QED
  BY <1>1, <1>3, <1>4

(* A character on one page changes the text of that page, as a terminal would,
   and of no other. *)
LEMMA PutViews ==
    ASSUME NEW mem \in [Address -> Content], NEW p \in Pages \cup {0},
           NEW x, NEW y, InText(x, y), NEW c \in Char,
           NEW new, new = PutAt(mem, PageSize * p, x, y, c)
    PROVE  /\ new \in [Address -> Content]
           /\ View(new, p) = TextAfter(View(mem, p), x, y, c)
           /\ \A q \in Pages \cup {0} : q # p => View(new, q) = View(mem, q)
<1> DEFINE cell == x * WIDTH + y
           one == IF c \in Glyph THEN [mem EXCEPT ![PageSize * p + x * WIDTH + y] = c] ELSE mem
<1>1. PageSize * p + x * WIDTH + y = PageSize * p + cell
  BY PageIsLong, MulNat DEF InText
<1>2. cell \in TextCell
  BY DEF InText
<1>3. /\ one \in [Address -> Content]
      /\ View(one, p) = Written(View(mem, p), x, y, c)
      /\ \A q \in Pages \cup {0} : q # p => View(one, q) = View(mem, q)
  <2>1. CASE c \in Glyph
    <3>1. one = WriteAt(mem, PageSize * p + cell, c) /\ c \in Content
      BY <2>1, <1>1 DEF Content, WriteAt
    <3>2. Written(View(mem, p), x, y, c) = WriteAt(View(mem, p), cell, c)
      BY <2>1 DEF Written, WriteAt
    <3> HIDE DEF one, cell
    <3>3. /\ one \in [Address -> Content]
          /\ View(one, p) = WriteAt(View(mem, p), cell, c)
          /\ \A q \in Pages \cup {0} : q # p => View(one, q) = View(mem, q)
      BY <3>1, <1>2, WriteViews
    <3> QED
      BY <3>2, <3>3
  <2>2. CASE c \notin Glyph
    BY <2>2 DEF Written
  <2> QED
    BY <2>1, <2>2
<1>4. new = IF Scrolls(x, y, c) THEN ScrollUp(one, PageSize * p) ELSE one
  BY DEF PutAt
<1> HIDE DEF one
<1>5. CASE Scrolls(x, y, c)
  BY <1>3, <1>4, <1>5, ScrollViews DEF TextAfter
<1>6. CASE ~ Scrolls(x, y, c)
  BY <1>3, <1>4, <1>6 DEF TextAfter
<1> QED
  BY <1>5, <1>6

-----------------------------------------------------------------------------
(* The invariant. *)
LEMMA OriginInText == InText(0, 0)
BY PageIsLong DEF InText, TextCell

LEMMA InitSInv == Init => SInv /\ CursorIsShown
<1> SUFFICES ASSUME Init PROVE SInv /\ CursorIsShown
  OBVIOUS
<1>1. video \in [Address -> Content]
  BY DEF Init, Content
<1>2. curx \in [Pages -> Int] /\ cury \in [Pages -> Int]
      /\ \A p \in Pages : InText(curx[p], cury[p])
  BY OriginInText DEF Init
<1>3. InText(scr_x, scr_y) /\ cur_video_page \in Pages /\ CursorIsShown
  BY OriginInText DEF Init, CursorIsShown
<1> QED
  BY <1>1, <1>2, <1>3 DEF SInv

(* What is shown is printed on by the kernel. *)
LEMMA ScrPutchStep ==
    ASSUME SInv, NEW c \in Char, scr_putch(c)
    PROVE  /\ SInv'
           /\ View(video', 0) = TextAfter(View(video, 0), scr_x, scr_y, c)
           /\ \A q \in Pages : View(video', q) = View(video, q)
<1>1. InText(scr_x', scr_y') /\ UNCHANGED <<curx, cury, cur_video_page>>
  BY NewPlace DEF SInv, scr_putch
<1>2. 0 = PageSize * 0 /\ 0 \notin Pages
  BY PageIsLong
<1>3. /\ video' \in [Address -> Content]
      /\ View(video', 0) = TextAfter(View(video, 0), scr_x, scr_y, c)
      /\ \A q \in Pages \cup {0} : q # 0 => View(video', q) = View(video, q)
  <2>1. video' = PutAt(video, PageSize * 0, scr_x, scr_y, c)
    BY <1>2 DEF scr_putch
  <2> QED
    BY <2>1, PutViews DEF SInv
<1> QED
  BY <1>1, <1>2, <1>3 DEF SInv

(* A program prints on its page, and on what is shown if that is its page. *)
LEMMA PutchStep ==
    ASSUME SInv, NEW p \in Pages, NEW c \in Char, putch_for_syscall(p, c)
    PROVE  LET x == [curx EXCEPT ![cur_video_page] = scr_x][p]
               y == [cury EXCEPT ![cur_video_page] = scr_y][p]
           IN  /\ SInv'
               /\ x = IF p = cur_video_page THEN scr_x ELSE curx[p]
               /\ y = IF p = cur_video_page THEN scr_y ELSE cury[p]
               /\ InText(x, y) /\ Erasable(x, y, c)
               /\ curx' = [curx EXCEPT ![cur_video_page] = scr_x, ![p] = Row(x, y, c)]
               /\ cury' = [cury EXCEPT ![cur_video_page] = scr_y, ![p] = Column(y, c)]
               /\ scr_x' = curx'[cur_video_page] /\ scr_y' = cury'[cur_video_page]
               /\ View(video', p) = TextAfter(View(video, p), x, y, c)
               /\ View(video', 0) = IF p = cur_video_page
                                    THEN TextAfter(View(video, 0), x, y, c) ELSE View(video, 0)
               /\ \A q \in Pages : q # p => View(video', q) = View(video, q)
<1> DEFINE x == [curx EXCEPT ![cur_video_page] = scr_x][p]
           y == [cury EXCEPT ![cur_video_page] = scr_y][p]
           own == PutAt(video, PageSize * p, x, y, c)
<1>1. /\ x = IF p = cur_video_page THEN scr_x ELSE curx[p]
      /\ y = IF p = cur_video_page THEN scr_y ELSE cury[p]
  BY DEF SInv
<1>2. InText(x, y)
  BY <1>1 DEF SInv
<1> HIDE DEF x, y
<1>3. /\ Erasable(x, y, c)
      /\ video' = IF p = cur_video_page THEN PutAt(own, 0, x, y, c) ELSE own
      /\ curx' = [curx EXCEPT ![cur_video_page] = scr_x, ![p] = Row(x, y, c)]
      /\ cury' = [cury EXCEPT ![cur_video_page] = scr_y, ![p] = Column(y, c)]
      /\ scr_x' = curx'[cur_video_page] /\ scr_y' = cury'[cur_video_page]
      /\ cur_video_page' = cur_video_page
  BY DEF putch_for_syscall, x, y
<1>4. InText(Row(x, y, c), Column(y, c)) /\ Row(x, y, c) \in Int /\ Column(y, c) \in Int
  BY <1>2, <1>3, NewPlace DEF InText
<1>5. curx' \in [Pages -> Int] /\ cury' \in [Pages -> Int] /\ scr_x \in Int /\ scr_y \in Int
  BY <1>3, <1>4 DEF SInv, InText
<1>6. \A q \in Pages : InText(curx'[q], cury'[q])
  <2> SUFFICES ASSUME NEW q \in Pages PROVE InText(curx'[q], cury'[q])
    OBVIOUS
  <2>1. /\ curx'[q] = IF q = p THEN Row(x, y, c) ELSE IF q = cur_video_page THEN scr_x ELSE curx[q]
        /\ cury'[q] = IF q = p THEN Column(y, c) ELSE IF q = cur_video_page THEN scr_y ELSE cury[q]
    BY <1>3 DEF SInv
  <2> QED
    BY <2>1, <1>4 DEF SInv
<1>7. /\ own \in [Address -> Content]
      /\ View(own, p) = TextAfter(View(video, p), x, y, c)
      /\ \A q \in Pages \cup {0} : q # p => View(own, q) = View(video, q)
  BY <1>2, PutViews DEF SInv
<1> HIDE DEF own
<1>8. /\ video' \in [Address -> Content]
      /\ View(video', p) = TextAfter(View(video, p), x, y, c)
      /\ View(video', 0) = IF p = cur_video_page
                           THEN TextAfter(View(video, 0), x, y, c) ELSE View(video, 0)
      /\ \A q \in Pages : q # p => View(video', q) = View(video, q)
  <2>0. 0 = PageSize * 0 /\ 0 \notin Pages
    BY PageIsLong
  <2>1. CASE p = cur_video_page
    <3>1. video' = PutAt(own, PageSize * 0, x, y, c)
      BY <1>3, <2>0, <2>1
    <3>2. /\ video' \in [Address -> Content]
          /\ View(video', 0) = TextAfter(View(own, 0), x, y, c)
          /\ \A q \in Pages \cup {0} : q # 0 => View(video', q) = View(own, q)
      BY <1>2, <1>7, <3>1, PutViews
    <3> QED
      BY <1>7, <2>0, <2>1, <3>2
  <2>2. CASE p # cur_video_page
    BY <1>3, <1>7, <2>0, <2>2
  <2> QED
    BY <2>1, <2>2
<1>9. SInv'
  BY <1>3, <1>5, <1>6, <1>8 DEF SInv
<1> QED
  BY <1>1, <1>2, <1>3, <1>8, <1>9 DEF x, y

(* The spinner writes behind the text. *)
LEMMA TimerStep ==
    ASSUME SInv, timer_handler
    PROVE  SInv' /\ \A q \in Pages \cup {0} : View(video', q) = View(video, q)
<1>1. video' \in [Address -> Content]
  BY DEF timer_handler, SInv, Content
<1>2. ASSUME NEW q \in Pages \cup {0}, NEW k \in TextCell
      PROVE  video'[PageSize * q + k] = video[PageSize * q + k]
  <2>1. PageSize * q + k \in Address /\ k \in 0 .. PageSize - 1 - WIDTH
    BY TextAddress
  <2>2. PageSize * q + k # PageSize - 1
    <3>1. CASE q = 0
      BY <2>1, <3>1, PageIsLong
    <3>2. CASE q # 0
      <4>1. PageSize * 0 + (PageSize - 1) = PageSize - 1
            /\ k \in 0 .. PageSize - 1 /\ PageSize - 1 \in 0 .. PageSize - 1 /\ q \in Nat
        BY <2>1, PageIsLong
      <4> QED
        BY <3>2, <4>1, PagesApart
    <3> QED
      BY <3>1, <3>2
  <2> QED
    BY <2>1, <2>2 DEF timer_handler, SInv
<1> QED
  BY <1>1, <1>2 DEF timer_handler, SInv, View

(* switch_video_page exchanges whole pages and puts the name of the terminal
   behind the text. *)
LEMMA SwitchStep ==
    ASSUME SInv, NEW page \in Pages, switch_video_page(page)
    PROVE  /\ SInv'
           /\ View(video', 0) = IF page = cur_video_page THEN View(video, 0) ELSE View(video, page)
           /\ View(video', cur_video_page) = View(video, 0)
           /\ \A q \in Pages \ {cur_video_page} : View(video', q) = View(video, q)
<1> DEFINE cur == cur_video_page
           name == (HEIGHT - 1) * WIDTH
           new(a) == CASE a = name -> Status
                       [] a \in 0 .. PageSize - 1 /\ page # cur -> video[PageSize * page + a]
                       [] a - PageSize * cur \in 0 .. PageSize - 1 -> video[a - PageSize * cur]
                       [] OTHER -> video[a]
<1>0. /\ video' = [a \in Address |-> new(a)]
      /\ cur \in Pages /\ cur \in Nat /\ cur # 0 /\ page \in Nat /\ page # 0
      /\ PageSize \in Nat \ {0} /\ PageSize * cur \in Nat
  BY PageIsLong DEF switch_video_page, SInv
<1>1. video' \in [Address -> Content]
  <2>1. ASSUME NEW a \in Address PROVE new(a) \in Content
    <3>1. Status \in Content /\ video[a] \in Content
      BY DEF Content, SInv
    <3>2. a \in 0 .. PageSize - 1 => video[PageSize * page + a] \in Content
      BY AddressOf DEF SInv
    <3>3. a - PageSize * cur \in 0 .. PageSize - 1 => video[a - PageSize * cur] \in Content
      BY FirstPage DEF SInv
    <3> QED
      BY <3>1, <3>2, <3>3
  <2> HIDE DEF new
  <2> QED
    BY <1>0, <2>1
<1>2. name \in 0 .. PageSize - 1 /\ \A k \in TextCell : k # name
  <2>1. SCR_BOTTOM + 1 <= HEIGHT - 1 /\ HEIGHT - 1 \in Nat /\ (HEIGHT - 1) + 1 = HEIGHT
    OBVIOUS
  <2>2. (SCR_BOTTOM + 1) * WIDTH <= name /\ name \in Nat
    BY <2>1, MulMono, MulNat
  <2>3. HEIGHT * WIDTH = name + WIDTH /\ HEIGHT * WIDTH = PageSize
    BY <2>1, MulSucc DEF PageSize
  <2> HIDE DEF name
  <2> QED
    BY <2>2, <2>3, PageIsLong DEF TextCell
<1> HIDE DEF name
<1>3. ASSUME NEW k \in TextCell
      PROVE  video'[PageSize * 0 + k] =
                 IF page = cur THEN video[PageSize * 0 + k] ELSE video[PageSize * page + k]
  <2>1. PageSize * 0 + k = k /\ k \in Address /\ k \in 0 .. PageSize - 1 /\ k # name
    BY <1>2, FirstPage, TextInPage, PageIsLong
  <2>2. k - PageSize * cur \notin 0 .. PageSize - 1
    <3>1. PageSize <= PageSize * cur
      BY <1>0, MulMono, 1 <= cur
    <3> QED
      BY <1>0, <2>1, <3>1
  <2>3. video'[k] = new(k)
    BY <1>0, <2>1
  <2>4. new(k) = IF page = cur THEN video[k] ELSE video[PageSize * page + k]
    BY <2>1, <2>2
  <2> HIDE DEF new
  <2> QED
    BY <2>1, <2>3, <2>4
<1>4. ASSUME NEW q \in Pages, NEW k \in TextCell
      PROVE  video'[PageSize * q + k] =
                 IF q = cur THEN video[PageSize * 0 + k] ELSE video[PageSize * q + k]
  <2> DEFINE a == PageSize * q + k
  <2>1. /\ PageSize * 0 + k = k /\ k \in 0 .. PageSize - 1 /\ a \in Address
        /\ PageSize * q \in Nat /\ q \in Nat /\ q # 0
    BY FirstPage, TextAddress, TextInPage, PageIsLong
  <2>2. a # name /\ a \notin 0 .. PageSize - 1
    <3>1. \A d \in 0 .. PageSize - 1 : a # PageSize * 0 + d
      BY <2>1, PagesApart
    <3> QED
      BY <1>2, <3>1, FirstPage
  <2>3. CASE q = cur
    <3>1. a - PageSize * cur = k
      BY <2>1, <2>3
    <3>2. video'[a] = new(a)
      BY <1>0, <2>1
    <3>3. new(a) = video[k]
      <4> HIDE DEF a
      <4> QED
        BY <2>1, <2>2, <3>1
    <3> HIDE DEF new
    <3> QED
      BY <2>1, <2>3, <3>2, <3>3
  <2>4. CASE q # cur
    <3>1. a - PageSize * cur \notin 0 .. PageSize - 1
      <4> DEFINE c == a - PageSize * cur
      <4> SUFFICES ASSUME c \in 0 .. PageSize - 1 PROVE FALSE
        OBVIOUS
      <4>1. PageSize * cur + c = PageSize * q + k
        BY <1>0, <2>1
      <4> HIDE DEF c
      <4> QED
        BY <1>0, <2>1, <2>4, <4>1, PagesApart
    <3>2. video'[a] = new(a)
      BY <1>0, <2>1
    <3>3. new(a) = video[a]
      <4> HIDE DEF a
      <4> QED
        BY <2>2, <3>1
    <3> HIDE DEF new
    <3> QED
      BY <2>4, <3>2, <3>3
  <2> QED
    BY <2>3, <2>4
<1> HIDE DEF new
<1>5. /\ View(video', 0) = IF page = cur THEN View(video, 0) ELSE View(video, page)
      /\ View(video', cur) = View(video, 0)
      /\ \A q \in Pages \ {cur} : View(video', q) = View(video, q)
  <2>1. View(video', 0) = IF page = cur THEN View(video, 0) ELSE View(video, page)
    BY <1>3 DEF View
  <2>2. View(video', cur) = View(video, 0)
    <3>1. \A k \in TextCell : video'[PageSize * cur + k] = video[PageSize * 0 + k]
      BY <1>0, <1>4
    <3> QED
      BY <3>1 DEF View
  <2>3. ASSUME NEW q \in Pages \ {cur} PROVE View(video', q) = View(video, q)
    <3>1. \A k \in TextCell : video'[PageSize * q + k] = video[PageSize * q + k]
      BY <1>4
    <3> QED
      BY <3>1 DEF View
  <2> QED
    BY <2>1, <2>2, <2>3
<1>6. /\ curx' = [curx EXCEPT ![cur] = scr_x] /\ cury' = [cury EXCEPT ![cur] = scr_y]
      /\ scr_x' = curx'[page] /\ scr_y' = cury'[page] /\ cur_video_page' = page
  BY DEF switch_video_page
<1>7. /\ curx' \in [Pages -> Int] /\ cury' \in [Pages -> Int]
      /\ \A q \in Pages : InText(curx'[q], cury'[q])
  <2>1. scr_x \in Int /\ scr_y \in Int
    BY DEF SInv, InText
  <2> QED
    BY <1>6, <2>1 DEF SInv
<1>8. SInv'
  BY <1>1, <1>6, <1>7 DEF SInv
<1> QED
  BY <1>5, <1>8

LEMMA NextSInv == SInv /\ CursorIsShown /\ [Next]_vars => SInv' /\ CursorIsShown'
<1> SUFFICES ASSUME SInv, CursorIsShown, [Next]_vars PROVE SInv' /\ CursorIsShown'
  OBVIOUS
<1>1. ASSUME NEW c \in Char, scr_putch(c) PROVE SInv' /\ CursorIsShown'
  BY <1>1, ScrPutchStep DEF scr_putch, CursorIsShown
<1>2. ASSUME NEW p \in Pages, NEW c \in Char, putch_for_syscall(p, c)
      PROVE  SInv' /\ CursorIsShown'
  <2>1. CursorIsShown'
    BY <1>2 DEF putch_for_syscall, CursorIsShown
  <2> QED
    BY <1>2, <2>1, PutchStep
<1>3. CASE timer_handler
  BY <1>3, TimerStep DEF timer_handler, CursorIsShown
<1>4. ASSUME NEW p \in Pages, switch_video_page(p) PROVE SInv' /\ CursorIsShown'
  <2>1. CursorIsShown'
    BY <1>4 DEF switch_video_page, CursorIsShown
  <2> QED
    BY <1>4, <2>1, SwitchStep
<1>5. CASE UNCHANGED vars
  BY <1>5 DEF vars, SInv, CursorIsShown
<1> QED
  BY <1>1, <1>2, <1>3, <1>4, <1>5 DEF Next

LEMMA ScreenInvariance == Spec => [](SInv /\ CursorIsShown)
BY InitSInv, NextSInv, PTL DEF Spec

(* No terminal's cursor ever leaves the text of its page. *)
THEOREM ScreenTypeCorrect == Spec => []TypeOK
<1>1. SInv => TypeOK
  BY DEF SInv, TypeOK, CursorOf, InText, Content
<1> QED
  BY <1>1, ScreenInvariance, PTL

(* The hardware cursor always stands where the terminal shown prints next. *)
THEOREM CursorTheorem == Spec => []CursorIsShown
BY ScreenInvariance, PTL

-----------------------------------------------------------------------------
(* The refinement. *)
LEMMA OffsetOf ==
    ASSUME NEW size \in Nat \ {0}, NEW p \in Nat, NEW c \in 0 .. size - 1
    PROVE  (size * p + c) % size = c
OBVIOUS

LEMMA BehindText ==
    ASSUME NEW c \in TextCell PROVE c # (HEIGHT - 1) * WIDTH /\ c # PageSize - 1
<1>1. (SCR_BOTTOM + 1) * WIDTH <= (HEIGHT - 1) * WIDTH
  BY MulMono, SCR_BOTTOM + 1 <= HEIGHT - 1
<1> QED
  BY <1>1, TextInPage, PageIsLong, MulNat DEF TextCell

LEMMA TextIsView ==
    ASSUME NEW p \in Pages
    PROVE  /\ TextOf(p) = View(video, IF p = cur_video_page THEN 0 ELSE p)
           /\ TextOf(p)' = View(video', IF p = cur_video_page' THEN 0 ELSE p)
BY FirstPage, TextInPage, PageIsLong DEF TextOf, View

(* A step that prints c on p and leaves the others alone is a step of the
   terminals. *)
LEMMA AbstractPut ==
    ASSUME NEW p \in Pages, NEW c \in Char, NEW x, NEW y,
           InText(x, y), Erasable(x, y, c),
           CursorOf(p) = [x |-> x, y |-> y],
           TextOf(p)' = TextAfter(TextOf(p), x, y, c),
           CursorOf(p)' = [x |-> Row(x, y, c), y |-> Column(y, c)],
           \A q \in Pages : q # p => TextOf(q)' = TextOf(q) /\ CursorOf(q)' = CursorOf(q),
           cur_video_page' = cur_video_page
    PROVE  Abstract!Putch(p, c)
<1> DEFINE text == [q \in Pages |-> TextOf(q)]
           cursor == [q \in Pages |-> CursorOf(q)]
           at == cursor[p]
           written == IF c \in Glyph THEN [text[p] EXCEPT ![at.x * WIDTH + at.y] = c] ELSE text[p]
           moved == Abstract!Moved(at, c)
           next == Abstract!Wrapped(moved)
<1>1. at.x = x /\ at.y = y /\ text[p] = TextOf(p)
  OBVIOUS
<1>2. /\ NewColumn(y, c) \in Int /\ x \in Int
      /\ Scrolls(x, y, c) <=> NewRow(x, y, c) > SCR_BOTTOM
  BY NewPlace DEF InText
<1> HIDE DEF at
<1>3. moved = [x |-> IF c = "\n" THEN x + 1 ELSE x, y |-> NewColumn(y, c)]
  BY <1>1 DEF Abstract!Moved, NewColumn
<1>4. next = [x |-> NewRow(x, y, c), y |-> Column(y, c)]
  <2>1. NewColumn(y, "\n") < WIDTH
    BY DEF NewColumn
  <2> HIDE DEF moved
  <2> QED
    BY <1>2, <1>3, <2>1 DEF Abstract!Wrapped, NewRow, Column
<1> HIDE DEF next
<1>5. written = Written(TextOf(p), x, y, c)
  BY <1>1 DEF Written
<1> HIDE DEF written
<1>6. TextAfter(TextOf(p), x, y, c) =
         IF next.x > SCR_BOTTOM THEN Abstract!ScrolledText(written) ELSE written
  BY <1>2, <1>4, <1>5 DEF TextAfter, Abstract!ScrolledText, Abstract!Cell, TextCell
<1>7. [next EXCEPT !.x = IF next.x > SCR_BOTTOM THEN SCR_BOTTOM ELSE @] =
         [x |-> Row(x, y, c), y |-> Column(y, c)]
  BY <1>2, <1>4 DEF Row
<1>8. text' = [text EXCEPT ![p] =
          IF next.x > SCR_BOTTOM THEN Abstract!ScrolledText(written) ELSE written]
  BY <1>6
<1>9. cursor' = [cursor EXCEPT ![p] = [next EXCEPT !.x = IF next.x > SCR_BOTTOM THEN SCR_BOTTOM ELSE @]]
  BY <1>7
<1> QED
  BY <1>8, <1>9 DEF Abstract!Putch, written, next, at

(* One video memory with its copies implements independent terminals: a
   character of a program or of the kernel is a character on one terminal, a
   change of the page shows another one, and the spinner changes nothing. *)
THEOREM ScreenRefinesTerminals == Spec => TerminalsSpec
<1>1. Init => Abstract!Init
  <2> SUFFICES ASSUME Init PROVE Abstract!Init
    OBVIOUS
  <2>1. ASSUME NEW p \in Pages PROVE TextOf(p) = [c \in TextCell |-> Blank]
    <3>1. ASSUME NEW q \in Pages \cup {0}, NEW c \in TextCell PROVE video[PageSize * q + c] = Blank
      <4>1. /\ PageSize * q + c \in Address /\ PageSize \in Nat \ {0} /\ q \in Nat
            /\ c \in 0 .. PageSize - 1 - WIDTH /\ c \in Nat
        BY TextAddress, PageIsLong DEF TextCell
      <4>2. (PageSize * q + c) % PageSize = c
        <5> HIDE DEF PageSize
        <5> QED
          BY <4>1, OffsetOf
      <4>3. c # (HEIGHT - 1) * WIDTH /\ c # PageSize - 1
        BY <4>1, BehindText
      <4> QED
        BY <4>1, <4>2, <4>3 DEF Init
    <3>2. View(video, 0) = [c \in TextCell |-> Blank] /\ View(video, p) = [c \in TextCell |-> Blank]
      BY <3>1 DEF View
    <3> QED
      BY <3>2, TextIsView
  <2>2. ASSUME NEW p \in Pages PROVE CursorOf(p) = [x |-> 0, y |-> 0]
    BY DEF Init, CursorOf
  <2>3. [p \in Pages |-> TextOf(p)] = [p \in Pages |-> [c \in TextCell |-> Blank]]
    BY <2>1
  <2>4. [p \in Pages |-> CursorOf(p)] = [p \in Pages |-> [x |-> 0, y |-> 0]]
    BY <2>2
  <2>5. cur_video_page = 1
    BY DEF Init
  <2> QED
    BY <2>3, <2>4, <2>5 DEF Abstract!Init, Abstract!Cell, TextCell
<1>2. SInv /\ [Next]_vars =>
        [Abstract!Next]_<<[p \in Pages |-> TextOf(p)], [p \in Pages |-> CursorOf(p)], cur_video_page>>
  <2> DEFINE text == [p \in Pages |-> TextOf(p)]
             cursor == [p \in Pages |-> CursorOf(p)]
  <2> SUFFICES ASSUME SInv, [Next]_vars
               PROVE  [Abstract!Next]_<<text, cursor, cur_video_page>>
    OBVIOUS
  <2>0. cur_video_page \in Pages /\ 0 \notin Pages
    BY DEF SInv
  <2>1. ASSUME NEW c \in Char, scr_putch(c) PROVE Abstract!Next
    <3> DEFINE cur == cur_video_page
    <3>1. /\ cur' = cur /\ curx' = curx /\ cury' = cury /\ Erasable(scr_x, scr_y, c)
          /\ scr_x' = Row(scr_x, scr_y, c) /\ scr_y' = Column(scr_y, c)
      BY <2>1 DEF scr_putch
    <3>2. /\ View(video', 0) = TextAfter(View(video, 0), scr_x, scr_y, c)
          /\ \A q \in Pages : View(video', q) = View(video, q)
      BY <2>1, ScrPutchStep
    <3>3. TextOf(cur)' = TextAfter(TextOf(cur), scr_x, scr_y, c)
          /\ \A q \in Pages : q # cur => TextOf(q)' = TextOf(q)
      BY <2>0, <3>1, <3>2, TextIsView
    <3>4. /\ CursorOf(cur) = [x |-> scr_x, y |-> scr_y]
          /\ CursorOf(cur)' = [x |-> Row(scr_x, scr_y, c), y |-> Column(scr_y, c)]
          /\ \A q \in Pages : q # cur => CursorOf(q)' = CursorOf(q)
      BY <3>1 DEF CursorOf
    <3>5. InText(scr_x, scr_y)
      BY DEF SInv
    <3>6. Abstract!Putch(cur, c)
      BY <2>0, <3>1, <3>3, <3>4, <3>5, AbstractPut
    <3> QED
      BY <2>0, <3>6 DEF Abstract!Next, Char
  <2>2. ASSUME NEW p \in Pages, NEW c \in Char, putch_for_syscall(p, c) PROVE Abstract!Next
    <3> DEFINE cur == cur_video_page
               x == [curx EXCEPT ![cur] = scr_x][p]
               y == [cury EXCEPT ![cur] = scr_y][p]
    <3>1. /\ x = IF p = cur THEN scr_x ELSE curx[p]
          /\ y = IF p = cur THEN scr_y ELSE cury[p]
          /\ InText(x, y) /\ Erasable(x, y, c)
          /\ curx' = [curx EXCEPT ![cur] = scr_x, ![p] = Row(x, y, c)]
          /\ cury' = [cury EXCEPT ![cur] = scr_y, ![p] = Column(y, c)]
          /\ scr_x' = curx'[cur] /\ scr_y' = cury'[cur]
          /\ View(video', p) = TextAfter(View(video, p), x, y, c)
          /\ View(video', 0) = IF p = cur THEN TextAfter(View(video, 0), x, y, c) ELSE View(video, 0)
          /\ \A q \in Pages : q # p => View(video', q) = View(video, q)
      BY <2>2, PutchStep
    <3>2. cur' = cur
      BY <2>2 DEF putch_for_syscall
    <3> HIDE DEF x, y
    <3>3. /\ TextOf(p)' = TextAfter(TextOf(p), x, y, c)
          /\ \A q \in Pages : q # p => TextOf(q)' = TextOf(q)
      BY <2>0, <3>1, <3>2, TextIsView
    <3>4. CursorOf(p) = [x |-> x, y |-> y]
      BY <3>1 DEF CursorOf
    <3>5. \A q \in Pages :
             /\ curx'[q] = IF q = p THEN Row(x, y, c) ELSE IF q = cur THEN scr_x ELSE curx[q]
             /\ cury'[q] = IF q = p THEN Column(y, c) ELSE IF q = cur THEN scr_y ELSE cury[q]
      BY <3>1 DEF SInv
    <3>6. /\ CursorOf(p)' = [x |-> Row(x, y, c), y |-> Column(y, c)]
          /\ \A q \in Pages : q # p => CursorOf(q)' = CursorOf(q)
      BY <2>0, <3>1, <3>2, <3>5 DEF CursorOf
    <3>7. Abstract!Putch(p, c)
      BY <3>1, <3>2, <3>3, <3>4, <3>6, AbstractPut
    <3> QED
      BY <3>7 DEF Abstract!Next, Char
  <2>3. CASE timer_handler
    <3>1. \A q \in Pages \cup {0} : View(video', q) = View(video, q)
      BY <2>3, TimerStep
    <3>2. \A q \in Pages : TextOf(q)' = TextOf(q) /\ CursorOf(q)' = CursorOf(q)
      BY <2>3, <3>1, TextIsView DEF timer_handler, CursorOf
    <3> QED
      BY <2>3, <3>2 DEF timer_handler
  <2>4. ASSUME NEW p \in Pages, switch_video_page(p) PROVE Abstract!Next
    <3>1. /\ View(video', 0) = IF p = cur_video_page THEN View(video, 0) ELSE View(video, p)
          /\ View(video', cur_video_page) = View(video, 0)
          /\ \A q \in Pages \ {cur_video_page} : View(video', q) = View(video, q)
      BY <2>4, SwitchStep
    <3>2. /\ curx' = [curx EXCEPT ![cur_video_page] = scr_x]
          /\ cury' = [cury EXCEPT ![cur_video_page] = scr_y]
          /\ scr_x' = curx'[p] /\ scr_y' = cury'[p] /\ cur_video_page' = p
      BY <2>4 DEF switch_video_page
    <3>3. \A q \in Pages : TextOf(q)' = TextOf(q)
      BY <2>0, <3>1, <3>2, TextIsView
    <3>4. \A q \in Pages : CursorOf(q)' = CursorOf(q)
      BY <3>2 DEF CursorOf, SInv
    <3>5. Abstract!Show(p)
      BY <3>2, <3>3, <3>4 DEF Abstract!Show
    <3> QED
      BY <3>5 DEF Abstract!Next
  <2>5. CASE UNCHANGED vars
    BY <2>5 DEF vars, TextOf, CursorOf
  <2> QED
    BY <2>1, <2>2, <2>3, <2>4, <2>5 DEF Next
<1> QED
  BY <1>1, <1>2, ScreenInvariance, PTL DEF Spec, TerminalsSpec, Abstract!Spec
=============================================================================
