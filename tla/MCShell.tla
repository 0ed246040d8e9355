------------------------------ MODULE MCShell -------------------------------
(* The image on which lines are typed: a directory a with a file b in it. *)
EXTENDS Shell

Names == <<"", "a", "b", "c", "d">>
TypingImage == [kind |-> <<"dir", "dir", "file">>, in |-> <<0, 1, 2>>]
=============================================================================
