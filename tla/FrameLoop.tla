------------------------------ MODULE FrameLoop ------------------------------
(***************************************************************************)
(* Native's VulkanFrameLoop (Native/src/Vulkan/VulkanFrameLoop.cpp): frame *)
(* slots with one fence each, cycled round-robin by one render thread.     *)
(*                                                                         *)
(* The loop relies on nothing its caller does: beginFrame and submitFrame  *)
(* may come in any order, and a refused call (FrameAlreadyOpen,            *)
(* FrameNotOpen) changes nothing, so it has no action here.                *)
(*                                                                         *)
(* The device is external.  The caller writes the parameters of a frame    *)
(* into memory of the slot that beginFrame returned, and the submitted     *)
(* commands read that memory whenever the device executes them.            *)
(*                                                                         *)
(* Definitions marked `mutant' are plausible mistakes, not model.          *)
(***************************************************************************)
EXTENDS Integers, FiniteSets

CONSTANTS
    FramesInFlight,         \* framesInFlightCount
    MaxFrames               \* bound: frames submitted

ASSUME FrameLoopAssumption ==
    /\ FramesInFlight \in Nat \ {0}
    /\ MaxFrames \in Nat

Slots    == 0 .. FramesInFlight - 1
NoValue  == -1              \* parameter memory nobody has written

\* A submission: its number, slot, and the parameters meant for it.
Jobs == [seq : Nat, slot : Slots, reads : Nat \cup {NoValue}]

VARIABLES
    call,                   \* where the render thread is inside the loop
    fences,                 \* the slots whose fence exists
    signalled,              \* per slot, whether its fence is
    currentFrameSlot,       \* m_currentFrameSlot
    isFrameOpen,            \* m_isFrameOpen
    submitted,              \* number of frames submitted
    parameters,             \* per slot, the frame its memory is written for
    jobs,                   \* submissions the device has not finished
    deviceLost

vars == <<call, fences, signalled, currentFrameSlot, isFrameOpen, submitted,
          parameters, jobs, deviceLost>>

Calls == {"create", "none", "fenceWait", "drain", "destroyed"}

Init ==
    /\ call = "create"
    /\ fences = {}
    /\ signalled = [s \in Slots |-> TRUE]
    /\ currentFrameSlot = 0
    /\ isFrameOpen = FALSE
    /\ submitted = 0
    /\ parameters = [s \in Slots |-> NoValue]
    /\ jobs = {}
    /\ deviceLost = FALSE

-----------------------------------------------------------------------------
\* create(): fences are made signalled, one by one; a failure takes the ones
\* made before it down again.
CreateFence ==
    /\ call = "create"
    /\ fences' = fences \cup {Cardinality(fences)}
    /\ call' = IF fences' = Slots THEN "none" ELSE "create"
    /\ UNCHANGED <<signalled, currentFrameSlot, isFrameOpen, submitted,
                   parameters, jobs, deviceLost>>

CreateFenceFails ==
    /\ call = "create"
    /\ fences' = {}
    /\ call' = "destroyed"
    /\ UNCHANGED <<signalled, currentFrameSlot, isFrameOpen, submitted,
                   parameters, jobs, deviceLost>>

BeginFrameUnchecked ==                                           \* mutant
    /\ call = "none"
    /\ call' = "fenceWait"
    /\ UNCHANGED <<fences, signalled, currentFrameSlot, isFrameOpen, submitted,
                   parameters, jobs, deviceLost>>

BeginFrame ==
    /\ call = "none"
    /\ ~isFrameOpen
    /\ call' = "fenceWait"
    /\ UNCHANGED <<fences, signalled, currentFrameSlot, isFrameOpen, submitted,
                   parameters, jobs, deviceLost>>

\* FenceWaitFailed for a lost device, or FenceResetFailed with the fence left
\* as it is: no frame is opened.
FenceWaitFails ==
    /\ call = "fenceWait"
    /\ deviceLost \/ signalled[currentFrameSlot]
    /\ call' = "none"
    /\ UNCHANGED <<fences, signalled, currentFrameSlot, isFrameOpen, submitted,
                   parameters, jobs, deviceLost>>

FenceNotReset == signalled                                       \* mutant

ResetFence == [signalled EXCEPT ![currentFrameSlot] = FALSE]

OpenFrame ==
    /\ call = "fenceWait"
    /\ signalled[currentFrameSlot]
    /\ signalled' = ResetFence
    /\ isFrameOpen' = TRUE
    /\ call' = "none"
    /\ UNCHANGED <<fences, currentFrameSlot, submitted, parameters, jobs,
                   deviceLost>>

\* The caller uses the slot that beginFrame returned.
WriteParameters ==
    /\ call = "none"
    /\ isFrameOpen
    /\ parameters' = [parameters EXCEPT ![currentFrameSlot] = submitted]
    /\ UNCHANGED <<call, fences, signalled, currentFrameSlot, isFrameOpen,
                   submitted, jobs, deviceLost>>

SlotAfter(s) == s + 1                                            \* mutant

NextSlot(s) == (s + 1) % FramesInFlight

\* SubmissionFailed changes nothing: the frame stays open, and the caller may
\* submit it again.
SubmitFrame ==
    /\ call = "none"
    /\ isFrameOpen
    /\ ~deviceLost
    /\ submitted < MaxFrames
    /\ jobs' = jobs \cup {[seq   |-> submitted,
                           slot  |-> currentFrameSlot,
                           reads |-> parameters[currentFrameSlot]]}
    /\ submitted' = submitted + 1
    /\ isFrameOpen' = FALSE
    /\ currentFrameSlot' = NextSlot(currentFrameSlot)
    /\ UNCHANGED <<call, fences, signalled, parameters, deviceLost>>

\* The destructor, also with a frame open.
Destroy ==
    /\ call = "none"
    /\ call' = "drain"
    /\ UNCHANGED <<fences, signalled, currentFrameSlot, isFrameOpen, submitted,
                   parameters, jobs, deviceLost>>

NextSlotSignalled == deviceLost \/ signalled[currentFrameSlot]   \* mutant

QueueIdle == deviceLost \/ jobs = {}

DestroyFences ==
    /\ call = "drain"
    /\ QueueIdle
    /\ fences' = {}
    /\ call' = "destroyed"
    /\ UNCHANGED <<signalled, currentFrameSlot, isFrameOpen, submitted,
                   parameters, jobs, deviceLost>>

Destroyed ==
    /\ call = "destroyed"
    /\ UNCHANGED vars

-----------------------------------------------------------------------------
\* The queue finishes submissions in order and signals the slot's fence.
ExecuteJob(j) ==
    /\ ~deviceLost
    /\ \A k \in jobs : j.seq <= k.seq
    /\ jobs' = jobs \ {j}
    /\ signalled' = [signalled EXCEPT ![j.slot] = TRUE]
    /\ UNCHANGED <<call, fences, currentFrameSlot, isFrameOpen, submitted,
                   parameters, deviceLost>>

LoseDevice ==
    /\ ~deviceLost
    /\ deviceLost' = TRUE
    /\ UNCHANGED <<call, fences, signalled, currentFrameSlot, isFrameOpen,
                   submitted, parameters, jobs>>

-----------------------------------------------------------------------------
\* Steps the render thread takes once it is inside a call.
RenderThread ==
    \/ CreateFence
    \/ CreateFenceFails
    \/ FenceWaitFails
    \/ OpenFrame
    \/ DestroyFences

Caller == BeginFrame \/ WriteParameters \/ SubmitFrame \/ Destroy

Execute == \E j \in jobs : ExecuteJob(j)

Next == RenderThread \/ Caller \/ Execute \/ LoseDevice \/ Destroyed

Spec == Init /\ [][Next]_vars

\* The render thread returns from a wait whose condition holds, and a device
\* that is not lost works off its queue.  Nothing forces the caller.
Fairness == WF_vars(RenderThread) /\ WF_vars(Execute)

FairSpec == Spec /\ Fairness

-----------------------------------------------------------------------------
(***************************************************************************)
(* Properties                                                              *)
(***************************************************************************)

\* The type invariant.
TypeOK ==
    /\ call \in Calls
    /\ fences \in SUBSET Slots
    /\ signalled \in [Slots -> BOOLEAN]
    /\ currentFrameSlot \in Slots
    /\ isFrameOpen \in BOOLEAN
    /\ submitted \in Nat
    /\ parameters \in [Slots -> Nat \cup {NoValue}]
    /\ jobs \in SUBSET Jobs
    /\ deviceLost \in BOOLEAN

\* The contract that makes per-frame writes into mapped memory safe
\* (ADR-0001): every unfinished submission still finds the parameters it was
\* submitted with, whatever the caller has written for later frames.
ParametersKept ==
    \A j \in jobs : parameters[j.slot] = j.reads

\* No submission outlives the fence it signals, neither when creation fails
\* half-way nor when the loop is destroyed behind submitted frames, and no
\* fence is left behind.
FencesOutliveJobs ==
    IF call = "destroyed"
       THEN fences = {} /\ (deviceLost \/ jobs = {})
       ELSE \A j \in jobs : j.slot \in fences

\* The loop stays at most FramesInFlight frames ahead of the device.
Pacing == INSTANCE FramePacing
            WITH completed <- submitted - Cardinality(jobs)

PacesFrames == Pacing!Spec

\* beginFrame comes back whatever the caller did before: unlike the
\* presentation runtime, the loop never waits for a fence it has reset itself.
BeginFrameReturns == (call = "fenceWait") ~> (call = "none")
=============================================================================
