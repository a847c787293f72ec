----------------------- MODULE MCPresentationRuntime -----------------------
(***************************************************************************)
(* Model values for PresentationRuntime: two frames in flight, as both     *)
(* callers of the runtime configure it, over two or three images.  The     *)
(* images are not declared symmetric, since a run checks liveness as well. *)
(***************************************************************************)
EXTENDS PresentationRuntime

CONSTANTS image1, image2, image3

TwoImages   == {image1, image2}
ThreeImages == {image1, image2, image3}
=============================================================================
