----------------------------- MODULE MCKeyboard -----------------------------
(* Keyboard with three readers on two pages: two of them compete on page 1. *)
EXTENDS Keyboard, TLC

MCPages == 1 .. 2
MCFunctionKey == 1 :> 59 @@ 2 :> 60          \* KEY_F1, KEY_F2
MCReader == {"shell1", "program1", "shell2"}
MCVideoPage == "shell1" :> 1 @@ "program1" :> 1 @@ "shell2" :> 2
MCScancode == {29, 56, 59, 60}               \* Ctrl, Alt, F1, F2
=============================================================================
