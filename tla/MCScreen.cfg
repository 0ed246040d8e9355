\* Two terminals of two text rows and two columns, one glyph.
CONSTANTS
    Pages = {1, 2}
    WIDTH = 2
    SCR_BOTTOM = 1
    HEIGHT = 3
    TAB = 2
    Glyph = {"a"}
    Blank = " "
    Status = "s"
SPECIFICATION Spec
INVARIANTS
    TypeOK
    CursorIsShown
PROPERTIES
    TerminalsSpec
