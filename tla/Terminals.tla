----------------------------- MODULE Terminals ------------------------------
(***************************************************************************)
(* What the screen driver promises: a set of terminals that know nothing   *)
(* of each other.  Each has a text of its own and a cursor of its own, a   *)
(* character printed on one changes that one only, whether or not it is    *)
(* the one being shown, and showing another changes no text.               *)
(***************************************************************************)
EXTENDS Integers

CONSTANTS Pages, WIDTH, SCR_BOTTOM, TAB, Glyph, Blank, Shown0

Cell == 0 .. (SCR_BOTTOM + 1) * WIDTH - 1

VARIABLES text, cursor, shown

Init ==
    /\ text = [p \in Pages |-> [c \in Cell |-> Blank]]
    /\ cursor = [p \in Pages |-> [x |-> 0, y |-> 0]]
    /\ shown = Shown0

(* The cursor after a character, before the line is wrapped. *)
Moved(at, c) ==
    [x |-> IF c = "\n" THEN at.x + 1 ELSE at.x,
     y |-> CASE c = "BS" -> at.y - 1
             [] c = "\t" -> ((at.y + TAB) \div TAB) * TAB
             [] c = "\r" -> 0
             [] c = "\n" -> 0
             [] OTHER    -> at.y + 1]

Wrapped(at) == IF at.y >= WIDTH THEN [x |-> at.x + 1, y |-> 0] ELSE at

ScrolledText(t) ==
    [c \in Cell |-> IF c + WIDTH \in Cell THEN t[c + WIDTH] ELSE Blank]

(* Put c on terminal p. *)
Putch(p, c) ==
    LET at   == cursor[p]
        new  == IF c \in Glyph THEN [text[p] EXCEPT ![at.x * WIDTH + at.y] = c] ELSE text[p]
        next == Wrapped(Moved(at, c))
        full == next.x > SCR_BOTTOM
    IN  /\ text' = [text EXCEPT ![p] = IF full THEN ScrolledText(new) ELSE new]
        /\ cursor' = [cursor EXCEPT ![p] = [next EXCEPT !.x = IF full THEN SCR_BOTTOM ELSE @]]
        /\ UNCHANGED shown

Show(p) == shown' = p /\ UNCHANGED <<text, cursor>>

Next == \E p \in Pages :
    \/ \E c \in Glyph \cup {"\n", "\r", "\t", "BS"} : Putch(p, c)
    \/ Show(p)

Spec == Init /\ [][Next]_<<text, cursor, shown>>
=============================================================================
