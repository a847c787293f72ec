-------------------------- MODULE SurfaceOwnership --------------------------
(***************************************************************************)
(* Who may own the swapchain of a Minecraft window surface (ADR-0006 D1,   *)
(* D2).  A VkSurfaceKHR takes one swapchain at a time, so ownership passes *)
(* through "none"; once Minecraft has created its own swapchain, or a      *)
(* Native swapchain has failed to go away, nobody else gets the surface.   *)
(*                                                                         *)
(* One way leads past that rule: a Native creation that throws half-way    *)
(* leaves an orphan, which its caller does not know of, and Minecraft then *)
(* contests the surface with it.                                           *)
(*                                                                         *)
(* PresentationTakeover implements this.                                   *)
(***************************************************************************)
VARIABLE owner      \* "none", "native", "vanilla", "unknown", "orphan",
                    \* "contested" or "released"

Init == owner = "none"

Pass(from, to) == owner = from /\ owner' = to

NativeCreates == Pass("none", "native")
NativeDrains  == Pass("native", "none")
NativeFails   == Pass("native", "unknown")
NativeThrows  == Pass("none", "orphan")
VanillaTakes  == Pass("none", "vanilla") \/ Pass("orphan", "contested")

SurfaceCloses ==
    /\ owner # "released"
    /\ owner' = "released"

Next == NativeCreates \/ NativeDrains \/ NativeFails \/ NativeThrows
            \/ VanillaTakes \/ SurfaceCloses

Spec == Init /\ [][Next]_owner
=============================================================================
