---------------------------------- MODULE Nil ----------------------------------
(***************************************************************************)
(* What a pointer, a key or a column has in it when it has nothing.        *)
(***************************************************************************)
CONSTANT None
===============================================================================
