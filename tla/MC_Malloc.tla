----------------------------- MODULE MC_Malloc -----------------------------
(* A heap of eight words; sizes below, at and above a whole word. *)
EXTENDS Malloc
=============================================================================
