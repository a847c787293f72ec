----------------------- MODULE MCPresentationTakeover -----------------------
(***************************************************************************)
(* PresentationTakeover for TLC.  Three generations are a first one, its   *)
(* replacement, and a third that could follow a wrong second.              *)
(***************************************************************************)
EXTENDS PresentationTakeover
=============================================================================
