------------------------- MODULE MCAnnounceScheduler -------------------------
(* The announcement scheduler on a small instance: its outputs and its       *)
(* reservation are model values.                                             *)
EXTENDS AnnounceScheduler, TLC
=============================================================================
