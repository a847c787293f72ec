----------------------------- MODULE MCFrameLoop -----------------------------
(***************************************************************************)
(* FrameLoop for TLC: with three slots and seven frames every slot is used *)
(* twice and one a third time.                                             *)
(***************************************************************************)
EXTENDS FrameLoop
=============================================================================
