---------------------------- MODULE FramePacing ----------------------------
(***************************************************************************)
(* What a frame loop with a fixed number of frame slots promises to the    *)
(* code that drives it (ADR-0003 D3, ADR-0004 D2): frames are opened one   *)
(* at a time, an opened frame is submitted or given up, the device         *)
(* finishes submitted frames in the order of their submission, and the     *)
(* CPU never runs more than FramesInFlight frames ahead of the device.     *)
(*                                                                         *)
(* VulkanPresentationRuntime and VulkanFrameLoop both implement this; see  *)
(* the modules PresentationRuntime and FrameLoop.                          *)
(***************************************************************************)
EXTENDS Integers

CONSTANT FramesInFlight     \* number of frame slots, at least one

VARIABLES
    isFrameOpen,    \* a frame was begun and is neither submitted nor given up
    submitted,      \* number of frames submitted so far
    completed       \* number of submitted frames the device has finished

pacingVars == <<isFrameOpen, submitted, completed>>

Init ==
    /\ isFrameOpen = FALSE
    /\ submitted = 0
    /\ completed = 0

\* A frame is opened only when the frame that used its slot last, which is
\* frame number submitted - FramesInFlight, has been completed.
Open ==
    /\ ~isFrameOpen
    /\ submitted - completed < FramesInFlight
    /\ isFrameOpen' = TRUE
    /\ UNCHANGED <<submitted, completed>>

Submit ==
    /\ isFrameOpen
    /\ isFrameOpen' = FALSE
    /\ submitted' = submitted + 1
    /\ UNCHANGED completed

\* The submission failed and the implementation closed the frame.
GiveUp ==
    /\ isFrameOpen
    /\ isFrameOpen' = FALSE
    /\ UNCHANGED <<submitted, completed>>

Complete ==
    /\ completed < submitted
    /\ completed' = completed + 1
    /\ UNCHANGED <<isFrameOpen, submitted>>

Next == Open \/ Submit \/ GiveUp \/ Complete

Spec == Init /\ [][Next]_pacingVars
=============================================================================
