----------------------------- MODULE MC_Console -----------------------------
(* Console with a line of two characters and an int of five bits. *)
EXTENDS Console

MCTimeouts == {-1, 0, 2, 9}
=============================================================================
