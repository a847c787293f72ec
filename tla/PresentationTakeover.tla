------------------------ MODULE PresentationTakeover ------------------------
(***************************************************************************)
(* The takeover of one Minecraft window surface: the generation policy of  *)
(* Mod's PresentationTakeoverCoordinator, the hooks of VulkanGpuSurfaceMixin *)
(* that drive it, and the Native runtimes it creates, one per generation.  *)
(*                                                                         *)
(* Everything runs on the render thread.  configure makes up to four       *)
(* Native calls (destroy the old runtime, create the candidate, begin and  *)
(* submit its priming frame); each is an action of its own, so that every  *)
(* state in which some swapchain exists is seen.  `step' is what configure *)
(* does next; the last step may be Minecraft's own configure.              *)
(*                                                                         *)
(* Minecraft is external: the outer GpuSurface acquires, blits and         *)
(* presents in that order, and configures again before it acquires from a  *)
(* surface whose swapchainSuboptimal is set.  The inside of a runtime is   *)
(* the module PresentationRuntime; here it is only what the coordinator    *)
(* may or may not still ask of it.                                         *)
(*                                                                         *)
(* Definitions marked `mutant' are plausible mistakes, not model.          *)
(***************************************************************************)
EXTENDS Integers, FiniteSets

CONSTANT MaxGenerations     \* bound: Native runtimes created on the surface

ASSUME TakeoverAssumption == MaxGenerations \in Nat

Generations == 1 .. MaxGenerations
None == 0                   \* a null PresentationRuntime reference

VARIABLES
    \* PresentationTakeoverCoordinator
    attached,               \* the mixin still holds its coordinator
    runtime,                \* m_runtime
    isTakenOver,
    isFrameOpen,
    requiresReconfiguration,
    isTakeoverPermanentlyDisabled,
    isGenerationFatal,
    isTerminallyIntercepting,
    \* a configure call under way
    step,
    candidate,              \* candidateRuntime
    candidateRequiresReconfiguration,
    \* Native
    swapchain,              \* of each generation's runtime
    nativeFrame,            \* whether the runtime's m_isFrameOpen is set
    retired,                \* the runtime has reported RecreateRequired
    \* the host surface
    isConfigured,
    isClosed,
    vanillaSwapchain,
    swapchainSuboptimal,
    hostFrame

coordinatorVars == <<attached, runtime, isTakenOver, isFrameOpen,
                     requiresReconfiguration, isTakeoverPermanentlyDisabled,
                     isGenerationFatal, isTerminallyIntercepting>>
configureVars == <<step, candidate, candidateRequiresReconfiguration>>
nativeVars == <<swapchain, nativeFrame, retired>>
hostVars == <<isConfigured, isClosed, vanillaSwapchain, swapchainSuboptimal,
              hostFrame>>
vars == <<coordinatorVars, configureVars, nativeVars, hostVars>>

Steps     == {"none", "create", "primeBegin", "primeSubmit", "reject",
              "vanilla"}

\* An orphaned swapchain exists, but no runtime was ever formed to own it.
Lifetimes == {"absent", "live", "destroyed", "uncertain", "orphaned"}

\* What a frame call reports: a PresentationFrameStatus or, for "FAILURE", a
\* NativePresentationRuntimeException.  The coordinator only passes positive
\* extents, for which Native never reports SURFACE_UNAVAILABLE; every handler
\* treats that status like RECREATE_REQUIRED.
Outcomes == {"SUCCESS", "SUBOPTIMAL", "RECREATE_REQUIRED", "FAILURE"}

-----------------------------------------------------------------------------
\* A surface is constructed; without an extracted Native library the mixin
\* creates no coordinator.
Init ==
    /\ attached \in BOOLEAN
    /\ runtime = None
    /\ isTakenOver = FALSE
    /\ isFrameOpen = FALSE
    /\ requiresReconfiguration = FALSE
    /\ isTakeoverPermanentlyDisabled = FALSE
    /\ isGenerationFatal = FALSE
    /\ isTerminallyIntercepting = FALSE
    /\ step = "none"
    /\ candidate = None
    /\ candidateRequiresReconfiguration = FALSE
    /\ swapchain = [g \in Generations |-> "absent"]
    /\ nativeFrame = [g \in Generations |-> FALSE]
    /\ retired = [g \in Generations |-> FALSE]
    /\ isConfigured = FALSE
    /\ isClosed = FALSE
    /\ vanillaSwapchain = FALSE
    /\ swapchainSuboptimal = FALSE
    /\ hostFrame = "idle"

-----------------------------------------------------------------------------
(***************************************************************************)
(* Native calls on the runtime of generation g.                            *)
(***************************************************************************)

\* NativePresentationRuntime.close: one destroy attempt, never repeated.
NativeDestroy(g, succeeds) ==
    swapchain' = [swapchain EXCEPT ![g] = IF succeeds THEN "destroyed"
                                                      ELSE "uncertain"]

\* After a failure of the boundary nobody knows whether a frame is open.
NativeBegin(g, outcome) ==
    /\ \E open \in BOOLEAN :
          /\ outcome # "FAILURE" => open = (outcome \in {"SUCCESS", "SUBOPTIMAL"})
          /\ nativeFrame' = [nativeFrame EXCEPT ![g] = open]
    /\ retired' = [retired EXCEPT ![g] = @ \/ outcome = "RECREATE_REQUIRED"]
    /\ UNCHANGED swapchain

NativeSubmit(g, outcome) ==
    /\ \E open \in BOOLEAN :
          /\ outcome # "FAILURE" => ~open
          /\ nativeFrame' = [nativeFrame EXCEPT ![g] = open]
    /\ retired' = [retired EXCEPT ![g] = @ \/ outcome = "RECREATE_REQUIRED"]
    /\ UNCHANGED swapchain

-----------------------------------------------------------------------------
(***************************************************************************)
(* configure.                                                              *)
(***************************************************************************)

\* The end of the hook: mirror the coordinator, then either cancel vanilla
\* configure or let its body run.
LeaveConfigure(cancelVanilla) ==
    /\ step' = IF cancelVanilla THEN "none" ELSE "vanilla"
    /\ candidate' = None
    /\ candidateRequiresReconfiguration' = FALSE
    /\ swapchainSuboptimal' = requiresReconfiguration'
    /\ isConfigured' = TRUE
    /\ UNCHANGED <<isClosed, vanillaSwapchain, hostFrame>>

\* Minecraft's own configure replaces or creates its swapchain.
VanillaConfigure ==
    /\ step = "vanilla"
    /\ step' = "none"
    /\ vanillaSwapchain' = TRUE
    /\ swapchainSuboptimal' = FALSE
    /\ UNCHANGED <<coordinatorVars, candidate, candidateRequiresReconfiguration,
                   nativeVars, isConfigured, isClosed, hostFrame>>

InterceptTerminally ==
    /\ runtime' = None
    /\ isTakeoverPermanentlyDisabled' = TRUE
    /\ isTakenOver' = TRUE
    /\ requiresReconfiguration' = FALSE
    /\ isTerminallyIntercepting' = TRUE
    /\ UNCHANGED <<attached, isGenerationFatal>>

\* The host configures initially, when the surface is suboptimal, and on
\* every resize, always between two frames.
HostMayConfigure ==
    /\ ~isClosed
    /\ step = "none"
    /\ hostFrame = "idle"

ConfigureWithoutCoordinator ==
    /\ HostMayConfigure
    /\ ~attached
    /\ step' = "vanilla"
    /\ isConfigured' = TRUE
    /\ UNCHANGED <<coordinatorVars, candidate, candidateRequiresReconfiguration,
                   nativeVars, isClosed, vanillaSwapchain, swapchainSuboptimal,
                   hostFrame>>

ConfigureWhileIntercepting ==
    /\ HostMayConfigure
    /\ attached
    /\ isTerminallyIntercepting
    /\ isFrameOpen' = FALSE
    /\ requiresReconfiguration' = FALSE
    /\ LeaveConfigure(TRUE)
    /\ UNCHANGED <<attached, runtime, isTakenOver, isTakeoverPermanentlyDisabled,
                   isGenerationFatal, isTerminallyIntercepting, nativeVars>>

OldRuntimeCloseFails ==
    /\ HostMayConfigure
    /\ attached
    /\ ~isTerminallyIntercepting
    /\ runtime # None
    /\ NativeDestroy(runtime, FALSE)
    /\ InterceptTerminally
    /\ isFrameOpen' = FALSE
    /\ LeaveConfigure(TRUE)
    /\ UNCHANGED <<nativeFrame, retired>>

\* The old generation, if there is one, is drained; vanilla is committed at
\* once unless a candidate may be created from ready inputs.
Configure(inputsReady) ==
    /\ HostMayConfigure
    /\ attached
    /\ ~isTerminallyIntercepting
    /\ IF runtime = None THEN UNCHANGED swapchain ELSE NativeDestroy(runtime, TRUE)
    /\ runtime' = None
    /\ isTakenOver' = FALSE
    /\ isFrameOpen' = FALSE
    /\ requiresReconfiguration' = FALSE
    /\ isGenerationFatal' = FALSE
    /\ isTakeoverPermanentlyDisabled' =
         (isTakeoverPermanentlyDisabled \/ ~inputsReady)
    /\ IF isTakeoverPermanentlyDisabled'
          THEN LeaveConfigure(FALSE)
          ELSE /\ step' = "create"
               /\ UNCHANGED <<candidate, candidateRequiresReconfiguration, hostVars>>
    /\ UNCHANGED <<attached, isTerminallyIntercepting, nativeFrame, retired>>

Created == {g \in Generations : swapchain[g] # "absent"}

GenerationAfterNext == Cardinality(Created) + 2                  \* mutant

NextGeneration == Cardinality(Created) + 1

RetryTakeover(cancelVanilla) ==                                  \* mutant
    /\ UNCHANGED coordinatorVars
    /\ LeaveConfigure(cancelVanilla)

\* The candidate is given up without having been published.
DisableTakeover(cancelVanilla) ==
    /\ isTakeoverPermanentlyDisabled' = TRUE
    /\ UNCHANGED <<attached, runtime, isTakenOver, isFrameOpen,
                   requiresReconfiguration, isGenerationFatal,
                   isTerminallyIntercepting>>
    /\ LeaveConfigure(cancelVanilla)

\* create reports a failure and has rolled back, or it was never reached.
CreateCandidateFails ==
    /\ step = "create"
    /\ DisableTakeover(FALSE)
    /\ UNCHANGED nativeVars

\* create throws bad_alloc after vkCreateSwapchainKHR, past its rollback; the
\* boundary reports INTERNAL_FAILURE, which is a failure like any other here.
CreateCandidateThrows ==
    /\ step = "create"
    /\ Cardinality(Created) < MaxGenerations
    /\ swapchain' = [swapchain EXCEPT ![NextGeneration] = "orphaned"]
    /\ DisableTakeover(FALSE)
    /\ UNCHANGED <<nativeFrame, retired>>

CreateCandidate ==
    /\ step = "create"
    /\ Cardinality(Created) < MaxGenerations
    /\ candidate' = NextGeneration
    /\ swapchain' = [swapchain EXCEPT ![NextGeneration] = "live"]
    /\ step' = "primeBegin"
    /\ UNCHANGED <<coordinatorVars, candidateRequiresReconfiguration,
                   nativeFrame, retired, hostVars>>

PrimeBegin(outcome) ==
    /\ step = "primeBegin"
    /\ NativeBegin(candidate, outcome)
    /\ step' = IF outcome \in {"SUCCESS", "SUBOPTIMAL"} THEN "primeSubmit"
                                                        ELSE "reject"
    /\ candidateRequiresReconfiguration' = (outcome = "SUBOPTIMAL")
    /\ UNCHANGED <<coordinatorVars, candidate, hostVars>>

PrimeSubmitRejected(outcome) ==
    /\ step = "primeSubmit"
    /\ outcome \in {"RECREATE_REQUIRED", "FAILURE"}
    /\ NativeSubmit(candidate, outcome)
    /\ step' = "reject"
    /\ UNCHANGED <<coordinatorVars, candidate, candidateRequiresReconfiguration,
                   hostVars>>

\* The priming frame is on the screen: publish the takeover.
PrimeSubmit(outcome) ==
    /\ step = "primeSubmit"
    /\ outcome \in {"SUCCESS", "SUBOPTIMAL"}
    /\ NativeSubmit(candidate, outcome)
    /\ runtime' = candidate
    /\ isTakenOver' = TRUE
    /\ requiresReconfiguration' =
         (candidateRequiresReconfiguration \/ outcome = "SUBOPTIMAL")
    /\ LeaveConfigure(TRUE)
    /\ UNCHANGED <<attached, isFrameOpen, isTakeoverPermanentlyDisabled,
                   isGenerationFatal, isTerminallyIntercepting>>

AbandonCandidate ==                                              \* mutant
    /\ step = "reject"
    /\ DisableTakeover(FALSE)
    /\ UNCHANGED nativeVars

InterceptRejected ==                                             \* mutant
    /\ step = "reject"
    /\ NativeDestroy(candidate, TRUE)
    /\ DisableTakeover(TRUE)
    /\ UNCHANGED <<nativeFrame, retired>>

RejectCandidate ==
    /\ step = "reject"
    /\ NativeDestroy(candidate, TRUE)
    /\ DisableTakeover(FALSE)
    /\ UNCHANGED <<nativeFrame, retired>>

CommitVanillaAnyway ==                                           \* mutant
    /\ step = "reject"
    /\ NativeDestroy(candidate, FALSE)
    /\ DisableTakeover(FALSE)
    /\ UNCHANGED <<nativeFrame, retired>>

RejectCandidateCloseFails ==
    /\ step = "reject"
    /\ NativeDestroy(candidate, FALSE)
    /\ InterceptTerminally
    /\ LeaveConfigure(TRUE)
    /\ UNCHANGED <<isFrameOpen, nativeFrame, retired>>

-----------------------------------------------------------------------------
(***************************************************************************)
(* Frames.  The coordinator answers every frame call and the mixin cancels *)
(* the vanilla one while isTakenOver, also when no Native call is made.    *)
(***************************************************************************)
Intercepts == attached /\ isTakenOver

\* m_isTakenOver && !m_isGenerationFatal && m_runtime != null
IsHealthy == isTakenOver /\ ~isGenerationFatal /\ runtime # None

OpensOnSuccess(outcome) == outcome = "SUCCESS"                   \* mutant

OpensFrame(outcome) == outcome \in {"SUCCESS", "SUBOPTIMAL"}

OnlySuboptimalReconfigures(outcome) == outcome = "SUBOPTIMAL"    \* mutant

\* Any outcome but SUCCESS asks the host to configure again.
Reconfigures(outcome) == outcome # "SUCCESS"

DisablesNothing(outcome) == FALSE                                     \* mutant

DisablesTakeover(outcome) == outcome = "FAILURE"

\* What a frame call does to the policy: handleFrameFailure for a failure.
RecordOutcome(outcome) ==
    /\ requiresReconfiguration' = (requiresReconfiguration \/ Reconfigures(outcome))
    /\ isTakeoverPermanentlyDisabled' =
         (isTakeoverPermanentlyDisabled \/ DisablesTakeover(outcome))
    /\ isGenerationFatal' = (isGenerationFatal \/ outcome = "FAILURE")
    /\ swapchainSuboptimal' = requiresReconfiguration'
    /\ UNCHANGED <<attached, runtime, isTakenOver, isTerminallyIntercepting>>

HostMayAcquire ==
    /\ ~isClosed
    /\ isConfigured
    /\ step = "none"
    /\ hostFrame = "idle"
    /\ ~swapchainSuboptimal

HostFrame(phase) ==
    /\ hostFrame' = phase
    /\ UNCHANGED <<configureVars, isConfigured, isClosed, vanillaSwapchain>>

AcquireNative(outcome) ==
    /\ HostMayAcquire
    /\ attached
    /\ IsHealthy
    /\ NativeBegin(runtime, outcome)
    /\ isFrameOpen' = OpensFrame(outcome)
    /\ RecordOutcome(outcome)
    /\ HostFrame("acquired")

\* A fatal generation keeps its last image, terminal interception has none.
AcquireNothing ==
    /\ HostMayAcquire
    /\ Intercepts
    /\ ~IsHealthy
    /\ swapchainSuboptimal' = requiresReconfiguration
    /\ HostFrame("acquired")
    /\ UNCHANGED <<coordinatorVars, nativeVars>>

\* Minecraft's own acquire may find its swapchain suboptimal.
AcquireVanilla ==
    /\ HostMayAcquire
    /\ ~Intercepts
    /\ swapchainSuboptimal' \in BOOLEAN
    /\ HostFrame("acquired")
    /\ UNCHANGED <<coordinatorVars, nativeVars>>

Blit ==
    /\ ~isClosed
    /\ hostFrame = "acquired"
    /\ HostFrame("blitted")
    /\ UNCHANGED <<coordinatorVars, nativeVars, swapchainSuboptimal>>

PresentNative(outcome) ==
    /\ ~isClosed
    /\ hostFrame = "blitted"
    /\ attached
    /\ IsHealthy
    /\ isFrameOpen
    /\ NativeSubmit(runtime, outcome)
    /\ isFrameOpen' = FALSE
    /\ RecordOutcome(outcome)
    /\ HostFrame("idle")

PresentNothing ==
    /\ ~isClosed
    /\ hostFrame = "blitted"
    /\ Intercepts
    /\ ~IsHealthy \/ ~isFrameOpen
    /\ swapchainSuboptimal' = requiresReconfiguration
    /\ HostFrame("idle")
    /\ UNCHANGED <<coordinatorVars, nativeVars>>

PresentVanilla ==
    /\ ~isClosed
    /\ hostFrame = "blitted"
    /\ ~Intercepts
    /\ swapchainSuboptimal' \in {swapchainSuboptimal, TRUE}
    /\ HostFrame("idle")
    /\ UNCHANGED <<coordinatorVars, nativeVars>>

-----------------------------------------------------------------------------
\* The surface is closed, also in the middle of a frame: the mixin lets go of
\* its coordinator first, so there is no second attempt, and Minecraft tears
\* down its swapchain and the surface even when Native was not destroyed.
Close(succeeds) ==
    /\ ~isClosed
    /\ step = "none"
    /\ attached' = FALSE
    /\ IF runtime = None THEN UNCHANGED swapchain ELSE NativeDestroy(runtime, succeeds)
    /\ runtime' = None
    /\ isTakenOver' = FALSE
    /\ isFrameOpen' = FALSE
    /\ requiresReconfiguration' = FALSE
    /\ isGenerationFatal' = FALSE
    /\ isTerminallyIntercepting' = FALSE
    /\ isClosed' = TRUE
    /\ vanillaSwapchain' = FALSE
    /\ UNCHANGED <<isTakeoverPermanentlyDisabled, configureVars, nativeFrame,
                   retired, isConfigured, swapchainSuboptimal, hostFrame>>

Closed ==
    /\ isClosed
    /\ UNCHANGED vars

-----------------------------------------------------------------------------
\* Bound: configure is entered only when a generation is left to create.
MayStartConfigure ==
    isTakeoverPermanentlyDisabled \/ Cardinality(Created) < MaxGenerations

BeginConfigure ==
    \/ ConfigureWithoutCoordinator
    \/ ConfigureWhileIntercepting
    \/ OldRuntimeCloseFails
    \/ \E inputsReady \in BOOLEAN : MayStartConfigure /\ Configure(inputsReady)

ContinueConfigure ==
    \/ CreateCandidateFails
    \/ CreateCandidateThrows
    \/ CreateCandidate
    \/ \E outcome \in Outcomes : PrimeBegin(outcome)
    \/ \E outcome \in Outcomes : PrimeSubmitRejected(outcome)
    \/ \E outcome \in Outcomes : PrimeSubmit(outcome)
    \/ RejectCandidate
    \/ RejectCandidateCloseFails
    \/ VanillaConfigure

FrameCall ==
    \/ \E outcome \in Outcomes : AcquireNative(outcome)
    \/ AcquireNothing
    \/ AcquireVanilla
    \/ Blit
    \/ \E outcome \in Outcomes : PresentNative(outcome)
    \/ PresentNothing
    \/ PresentVanilla

Next ==
    \/ BeginConfigure
    \/ ContinueConfigure
    \/ FrameCall
    \/ \E succeeds \in BOOLEAN : Close(succeeds)
    \/ Closed

Spec == Init /\ [][Next]_vars

\* Minecraft's loop keeps running: it finishes frames and configure calls, and
\* answers a suboptimal surface by configuring it.  Nothing forces it to
\* start frames, to resize or to close.
Fairness ==
    /\ WF_vars(ContinueConfigure)
    /\ WF_vars(hostFrame # "idle" /\ FrameCall)
    /\ WF_vars(swapchainSuboptimal /\ BeginConfigure)

FairSpec == Spec /\ Fairness

-----------------------------------------------------------------------------
(***************************************************************************)
(* Properties                                                              *)
(***************************************************************************)

\* The type invariant.
TypeOK ==
    /\ attached \in BOOLEAN
    /\ runtime \in Generations \cup {None}
    /\ isTakenOver \in BOOLEAN
    /\ isFrameOpen \in BOOLEAN
    /\ requiresReconfiguration \in BOOLEAN
    /\ isTakeoverPermanentlyDisabled \in BOOLEAN
    /\ isGenerationFatal \in BOOLEAN
    /\ isTerminallyIntercepting \in BOOLEAN
    /\ step \in Steps
    /\ candidate \in Generations \cup {None}
    /\ candidateRequiresReconfiguration \in BOOLEAN
    /\ swapchain \in [Generations -> Lifetimes]
    /\ nativeFrame \in [Generations -> BOOLEAN]
    /\ retired \in [Generations -> BOOLEAN]
    /\ isConfigured \in BOOLEAN
    /\ isClosed \in BOOLEAN
    /\ vanillaSwapchain \in BOOLEAN
    /\ swapchainSuboptimal \in BOOLEAN
    /\ hostFrame \in {"idle", "acquired", "blitted"}

MayExist(g) == swapchain[g] \in {"live", "uncertain", "orphaned"}

\* A surface carries at most one swapchain, also between the Native calls of
\* one configure: never two Native ones, and Minecraft's next to a Native one
\* only where that is the orphan of a create that threw, not where a runtime
\* lives or its destruction has failed.
SwapchainExclusive ==
    \A g \in Generations : MayExist(g) =>
        /\ vanillaSwapchain => swapchain[g] = "orphaned"
        /\ \A h \in Generations : MayExist(h) => h = g

\* The comment on configure (lines 55-56) and ADR-0006 D2 (lines 109-112):
\* Minecraft's configure is not let through while a Native swapchain may
\* remain, since that would put a second one on the surface.
VanillaOnlyWithoutNative ==
    step = "vanilla" => \A g \in Generations : ~MayExist(g)

\* Exactly the runtimes the coordinator refers to are alive: none is leaked by
\* a rejected candidate or a replaced generation, none is used after destroy.
OwnsWhatLives ==
    {g \in Generations : swapchain[g] = "live"} = {runtime, candidate} \ {None}

\* Whenever the host may acquire, the healthy runtime may be asked to begin a
\* frame: its last frame was submitted and it has not asked to be recreated
\* (CallerMayBegin of PresentationRuntime, where a violation blocks forever).
RuntimeMayBegin ==
    HostMayAcquire /\ IsHealthy => ~nativeFrame[runtime] /\ ~retired[runtime]

\* In a healthy generation the coordinator's m_isFrameOpen is the runtime's:
\* a submit is never refused and an opened frame never forgotten.
FrameFlagsAgree ==
    IsHealthy => isFrameOpen = nativeFrame[runtime]

\* The host never draws into nothing: between configure calls either the frame
\* calls are intercepted or Minecraft's own swapchain exists.
HostHasSwapchain ==
    isConfigured /\ step = "none" /\ ~isClosed => Intercepts # vanillaSwapchain

\* Who owns the surface's swapchain, in the terms of SurfaceOwnership.
SurfaceOwner ==
    IF isClosed THEN "released"
    ELSE IF \E g \in Generations : swapchain[g] = "uncertain" THEN "unknown"
    ELSE IF \E g \in Generations : swapchain[g] = "live" THEN "native"
    ELSE IF \E g \in Generations : swapchain[g] = "orphaned"
            THEN IF vanillaSwapchain THEN "contested" ELSE "orphan"
    ELSE IF vanillaSwapchain THEN "vanilla"
    ELSE "none"

Ownership == INSTANCE SurfaceOwnership WITH owner <- SurfaceOwner

\* Once Minecraft has created its swapchain, or Native failed to destroy one,
\* the surface never changes hands again; an orphan is followed by Minecraft
\* alone, and no Native runtime is tried beside it.
OwnsInTurn == Ownership!Spec

\* Delayed fallback (ADR-0006 D10.3): after a frame failure the surface goes
\* back to Minecraft, unless Native cannot let go of it.
FailureFallsBack ==
    isGenerationFatal ~> (vanillaSwapchain \/ isTerminallyIntercepting \/ isClosed)

\* ADR-0006 D5.4 and D10.3: a taken-over surface always has a runtime that can
\* give it output.
TakenOverHasRuntime == isTakenOver => runtime # None
=============================================================================
