------------------------------ MODULE MCFiles -------------------------------
(* Files with two files on the image, one of them of two clusters. *)
EXTENDS Files

MCImage ==
    << [filename |-> <<"A", "B">>, cluster |-> 2, length |-> 2],
       [filename |-> <<"B", " ">>, cluster |-> 5, length |-> 1] >>
MCLetter == {"A", "B"}
MCTyped == {<<"A">>, <<"B">>, <<"A", "B">>}
=============================================================================
