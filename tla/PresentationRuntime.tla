------------------------ MODULE PresentationRuntime ------------------------
(***************************************************************************)
(* One swapchain generation of Native's VulkanPresentationRuntime          *)
(* (Native/src/Vulkan/VulkanPresentationRuntime.cpp): the frame slots with *)
(* their fence and two binary semaphores, the in-flight fence remembered   *)
(* for each swapchain image, and the render thread that opens, submits,    *)
(* presents and finally drains frames.                                     *)
(*                                                                         *)
(* beginFrame blocks three times (slot fence, acquire, image fence), so it *)
(* is four actions of the render thread between which the device and the   *)
(* presentation engine move; `call' is where the render thread stands.     *)
(* submitAndPresentFrame never blocks and is one action.                   *)
(*                                                                         *)
(* The device side is external, modelled from what the code asks of it:    *)
(* jobs are the vkQueueSubmit batches not finished yet, presents the       *)
(* vkQueuePresentKHR requests whose semaphore wait has not executed yet.   *)
(* vkAcquireNextImageKHR may name an image the engine still has to give up *)
(* and signals the slot's imageAvailable semaphore later.                  *)
(*                                                                         *)
(* A definition marked `mutant' is not part of the model: it is the next   *)
(* definition with a plausible mistake, kept to show that the properties   *)
(* would notice it.                                                        *)
(***************************************************************************)
EXTENDS Integers, FiniteSets

CONSTANTS
    FramesInFlight,         \* m_frameSlots.size()
    Images,                 \* the swapchain images
    MaxFrames               \* bound: frames begun in this generation

ASSUME RuntimeAssumption ==
    /\ FramesInFlight \in Nat \ {0}
    /\ Images # {}
    /\ MaxFrames \in Nat

Slots   == 0 .. FramesInFlight - 1
NoSlot  == -1               \* VK_NULL_HANDLE in m_imageInFlightFences
NoFrame == -1               \* hasCompletedMetrics = false

\* A submitted frame: its m_frameSequence, slot and swapchain image.
Frames == [seq : Nat, slot : Slots, image : Images]

VARIABLES
    \* the runtime
    call,                   \* where the render thread is inside the runtime
    status,                 \* the FrameStatus the last call reports
    currentFrameSlot,       \* m_currentFrameSlot
    isFrameOpen,            \* m_isFrameOpen
    acquiredImage,          \* m_acquiredImageIndex
    frameSequence,          \* m_frameSequence
    imageFence,             \* m_imageInFlightFences: the slot whose fence it is
    completedMetrics,       \* frameSequence in FrameSlot.completedMetrics
    priorMetrics,           \* frameSequence of BeginFrameResult.priorMetrics
    unwaited,               \* history: frames opened although their image's
                            \* fence was not signalled (finished ones go)
    \* the device and the presentation engine
    inFlightFence,          \* FrameSlot.inFlightFence is signalled
    imageAvailable,         \* state of FrameSlot.imageAvailableSemaphore
    renderFinished,         \* FrameSlot.renderFinishedSemaphore is signalled
    slotImage,              \* image of the slot's last acquire
    heldImages,             \* images acquired and not handed back by a present
    jobs,
    presents,
    surface,
    deviceLost

runtimeVars == <<call, status, currentFrameSlot, isFrameOpen, acquiredImage,
                 frameSequence, imageFence, completedMetrics, priorMetrics,
                 unwaited>>
deviceVars  == <<inFlightFence, imageAvailable, renderFinished, slotImage,
                 heldImages, jobs, presents, surface, deviceLost>>
vars == <<runtimeVars, deviceVars>>

Beginning == {"slotFence", "acquire", "imageFence"}
Calls     == Beginning \cup {"none", "drain", "destroyed"}
Statuses  == {"Success", "SurfaceUnavailable", "RecreateRequired", "Suboptimal"}
Surfaces  == {"optimal", "suboptimal", "outOfDate"}

-----------------------------------------------------------------------------
\* create(): every fence is created signalled, no image has been used.
Init ==
    /\ call = "none"
    /\ status = "Success"
    /\ currentFrameSlot = 0
    /\ isFrameOpen = FALSE
    /\ acquiredImage \in Images
    /\ frameSequence = 0
    /\ imageFence = [i \in Images |-> NoSlot]
    /\ completedMetrics = [s \in Slots |-> NoFrame]
    /\ priorMetrics = NoFrame
    /\ unwaited = {}
    /\ inFlightFence = [s \in Slots |-> TRUE]
    /\ imageAvailable = [s \in Slots |-> "unsignalled"]
    /\ renderFinished = [s \in Slots |-> FALSE]
    /\ slotImage = [s \in Slots |-> acquiredImage]
    /\ heldImages = {}
    /\ jobs = {}
    /\ presents = {}
    /\ surface = "optimal"
    /\ deviceLost = FALSE

-----------------------------------------------------------------------------
(***************************************************************************)
(* The callers.  VisibleClearDemo pairs every begin with its submit and    *)
(* closes the runtime on RecreateRequired; the Minecraft takeover does the *)
(* same through requiresReconfiguration (module PresentationTakeover).     *)
(* The runtime itself checks neither.                                      *)
(***************************************************************************)
CallerMayBeginAfterAnyStatus == call = "none" /\ ~isFrameOpen   \* mutant

CallerMayBegin ==
    /\ call = "none"
    /\ ~isFrameOpen
    /\ status # "RecreateRequired"

Return(s) ==
    /\ call' = "none"
    /\ status' = s

BeginFrameUnavailable ==
    /\ CallerMayBegin
    /\ Return("SurfaceUnavailable")
    /\ priorMetrics' = NoFrame
    /\ UNCHANGED <<currentFrameSlot, isFrameOpen, acquiredImage, frameSequence,
                   imageFence, completedMetrics, unwaited, deviceVars>>

OtherSlotMetrics ==                                              \* mutant
    completedMetrics[FramesInFlight - 1 - currentFrameSlot]

SlotMetrics == completedMetrics[currentFrameSlot]

BeginFrame ==
    /\ CallerMayBegin
    /\ frameSequence < MaxFrames
    /\ call' = "slotFence"
    /\ priorMetrics' = SlotMetrics
    /\ UNCHANGED <<status, currentFrameSlot, isFrameOpen, acquiredImage,
                   frameSequence, imageFence, completedMetrics, unwaited,
                   deviceVars>>

SlotFenceNotWaited ==                                            \* mutant
    /\ call = "slotFence"
    /\ call' = "acquire"
    /\ UNCHANGED <<status, currentFrameSlot, isFrameOpen, acquiredImage,
                   frameSequence, imageFence, completedMetrics, priorMetrics,
                   unwaited, deviceVars>>

SlotFenceWaited ==
    /\ call = "slotFence"
    /\ inFlightFence[currentFrameSlot]
    /\ call' = "acquire"
    /\ UNCHANGED <<status, currentFrameSlot, isFrameOpen, acquiredImage,
                   frameSequence, imageFence, completedMetrics, priorMetrics,
                   unwaited, deviceVars>>

\* The device is lost or memory is short.
SlotFenceWaitFails ==
    /\ call = "slotFence"
    /\ Return("RecreateRequired")
    /\ UNCHANGED <<currentFrameSlot, isFrameOpen, acquiredImage, frameSequence,
                   imageFence, completedMetrics, priorMetrics, unwaited,
                   deviceVars>>

\* The slot's semaphore is handed to the engine together with the image.
AcquireNextImage(i) ==
    /\ call = "acquire"
    /\ ~deviceLost
    /\ surface # "outOfDate"
    /\ i \notin heldImages
    /\ call' = "imageFence"
    /\ status' = IF surface = "suboptimal" THEN "Suboptimal" ELSE "Success"
    /\ slotImage' = [slotImage EXCEPT ![currentFrameSlot] = i]
    /\ imageAvailable' = [imageAvailable EXCEPT ![currentFrameSlot] = "pending"]
    /\ heldImages' = heldImages \cup {i}
    /\ UNCHANGED <<currentFrameSlot, isFrameOpen, acquiredImage, frameSequence,
                   imageFence, completedMetrics, priorMetrics, unwaited,
                   inFlightFence, renderFinished, jobs, presents, surface, deviceLost>>

\* The surface is out of date or lost, or the device is, or memory is short:
\* nothing was acquired and the slot's fence stays signalled.
AcquireFails ==
    /\ call = "acquire"
    /\ Return("RecreateRequired")
    /\ UNCHANGED <<currentFrameSlot, isFrameOpen, acquiredImage, frameSequence,
                   imageFence, completedMetrics, priorMetrics, unwaited,
                   deviceVars>>

\* The last frame that used this image, if there was one, has finished.
ImageTaken(i) == i \in heldImages                                \* mutant

ImageIdle(i) == imageFence[i] # NoSlot => inFlightFence[imageFence[i]]

FenceStaysSignalled == inFlightFence                             \* mutant

ResetSlotFence == [inFlightFence EXCEPT ![currentFrameSlot] = FALSE]

\* The wait for that frame may fail, on a lost device or for lack of memory.
\* Its result is ignored, so the frame opens although its image is not idle.
OpenFrame ==
    LET image == slotImage[currentFrameSlot]
    IN  /\ call = "imageFence"
        /\ call' = "none"
        /\ unwaited' = (unwaited \cap {j.seq : j \in jobs}) \cup
                          {f \in {frameSequence} : ~ImageIdle(image)}
        /\ imageFence' = [imageFence EXCEPT ![image] = currentFrameSlot]
        /\ inFlightFence' = ResetSlotFence
        /\ acquiredImage' = image
        /\ isFrameOpen' = TRUE
        /\ UNCHANGED <<status, currentFrameSlot, frameSequence, completedMetrics,
                       priorMetrics, imageAvailable, renderFinished, slotImage,
                       heldImages, jobs, presents, surface, deviceLost>>

-----------------------------------------------------------------------------
(***************************************************************************)
(* submitAndPresentFrame, with the command buffer of the current slot that *)
(* submitAndPresentClearFrame has just recorded.                           *)
(***************************************************************************)

\* vkQueueSubmit fails: the frame is closed but its slot is not advanced and
\* the slot's fence stays unsignalled.
SubmitFails ==
    /\ call = "none"
    /\ isFrameOpen
    /\ isFrameOpen' = FALSE
    /\ status' = "RecreateRequired"
    /\ UNCHANGED <<call, currentFrameSlot, acquiredImage, frameSequence,
                   imageFence, completedMetrics, priorMetrics, unwaited,
                   deviceVars>>

SlotAfter(s) == s + 1                                            \* mutant

NextSlot(s) == (s + 1) % FramesInFlight

OnlyOutOfDateRecreates(result) ==                                \* mutant
    CASE result = "suboptimal" -> "Suboptimal"
      [] result = "outOfDate"  -> "RecreateRequired"
      [] OTHER                 -> "Success"

PresentStatus(result) ==
    CASE result = "optimal"    -> "Success"
      [] result = "suboptimal" -> "Suboptimal"
      [] OTHER                 -> "RecreateRequired"

\* result is the state of the surface, with which the present is queued, or
\* "error": the present is refused and nobody waits for renderFinished.
SubmitAndPresentFrame(result) ==
    LET frame == [seq   |-> frameSequence,
                  slot  |-> currentFrameSlot,
                  image |-> acquiredImage]
    IN  /\ call = "none"
        /\ isFrameOpen
        /\ ~deviceLost
        /\ result \in {surface, "error"}
        /\ jobs' = jobs \cup {frame}
        /\ presents' = IF result = "error" THEN presents
                                           ELSE presents \cup {frame}
        /\ heldImages' = IF result = "error" THEN heldImages
                                             ELSE heldImages \ {acquiredImage}
        /\ completedMetrics' =
             [completedMetrics EXCEPT ![currentFrameSlot] = frameSequence]
        /\ isFrameOpen' = FALSE
        /\ currentFrameSlot' = NextSlot(currentFrameSlot)
        /\ frameSequence' = frameSequence + 1
        /\ status' = PresentStatus(result)
        /\ UNCHANGED <<call, acquiredImage, imageFence, priorMetrics, unwaited,
                       inFlightFence, imageAvailable, renderFinished, slotImage,
                       surface, deviceLost>>

-----------------------------------------------------------------------------
\* ~VulkanPresentationRuntime: wait for the queues to be idle, then destroy.
Destroy ==
    /\ call = "none"
    /\ call' = "drain"
    /\ UNCHANGED <<status, currentFrameSlot, isFrameOpen, acquiredImage,
                   frameSequence, imageFence, completedMetrics, priorMetrics,
                   unwaited, deviceVars>>

SlotFencesSignalled ==                                           \* mutant
    deviceLost \/ \A s \in Slots : inFlightFence[s]

QueuesIdle == deviceLost \/ (jobs = {} /\ presents = {})

DestroyOwnedObjects ==
    /\ call = "drain"
    /\ QueuesIdle
    /\ call' = "destroyed"
    /\ UNCHANGED <<status, currentFrameSlot, isFrameOpen, acquiredImage,
                   frameSequence, imageFence, completedMetrics, priorMetrics,
                   unwaited, deviceVars>>

Destroyed ==
    /\ call = "destroyed"
    /\ UNCHANGED vars

-----------------------------------------------------------------------------
(***************************************************************************)
(* The graphics queue.  A batch starts when the slot's image is available, *)
(* and fences signal in submission order.                                  *)
(***************************************************************************)
CanExecute(j) ==
    /\ j \in jobs
    /\ ~deviceLost
    /\ imageAvailable[j.slot] = "signalled"
    /\ \A k \in jobs : j.seq <= k.seq

ExecuteJob(j) ==
    /\ CanExecute(j)
    /\ jobs' = jobs \ {j}
    /\ imageAvailable' = [imageAvailable EXCEPT ![j.slot] = "unsignalled"]
    /\ renderFinished' = [renderFinished EXCEPT ![j.slot] = TRUE]
    /\ inFlightFence' = [inFlightFence EXCEPT ![j.slot] = TRUE]
    /\ UNCHANGED <<runtimeVars, slotImage, heldImages, presents, surface,
                   deviceLost>>

ExecutePresent(p) ==
    /\ p \in presents
    /\ ~deviceLost
    /\ p \notin jobs
    /\ renderFinished[p.slot]
    /\ \A q \in presents : p.seq <= q.seq
    /\ presents' = presents \ {p}
    /\ renderFinished' = [renderFinished EXCEPT ![p.slot] = FALSE]
    /\ UNCHANGED <<runtimeVars, inFlightFence, imageAvailable, slotImage,
                   heldImages, jobs, surface, deviceLost>>

\* The engine has finished with the image the slot acquired: every earlier
\* present of that image has executed.  (The present of the acquiring frame
\* may be requested already, and later ones; its job waits for this signal.)
SignalImageAvailable(s) ==
    /\ imageAvailable[s] = "pending"
    /\ ~deviceLost
    /\ \A p \in presents :
          p.image = slotImage[s] => \E j \in jobs : j.slot = s /\ j.seq <= p.seq
    /\ imageAvailable' = [imageAvailable EXCEPT ![s] = "signalled"]
    /\ UNCHANGED <<runtimeVars, inFlightFence, renderFinished, slotImage,
                   heldImages, jobs, presents, surface, deviceLost>>

SurfaceChanges(s) ==
    /\ surface # "outOfDate"
    /\ s # surface /\ s # "optimal"
    /\ surface' = s
    /\ UNCHANGED <<runtimeVars, inFlightFence, imageAvailable, renderFinished,
                   slotImage, heldImages, jobs, presents, deviceLost>>

LoseDevice ==
    /\ ~deviceLost
    /\ deviceLost' = TRUE
    /\ UNCHANGED <<runtimeVars, inFlightFence, imageAvailable, renderFinished,
                   slotImage, heldImages, jobs, presents, surface>>

-----------------------------------------------------------------------------
\* Steps the render thread takes once it is inside a call.
RenderThread ==
    \/ SlotFenceWaited
    \/ SlotFenceWaitFails
    \/ \E i \in Images : AcquireNextImage(i)
    \/ AcquireFails
    \/ OpenFrame
    \/ DestroyOwnedObjects

Device ==
    \/ \E j \in jobs : ExecuteJob(j)
    \/ \E p \in presents : ExecutePresent(p)
    \/ \E s \in Slots : SignalImageAvailable(s)

Caller ==
    \/ BeginFrameUnavailable
    \/ BeginFrame
    \/ SubmitFails
    \/ \E result \in Surfaces \cup {"error"} : SubmitAndPresentFrame(result)
    \/ Destroy

Environment ==
    \/ \E s \in Surfaces : SurfaceChanges(s)
    \/ LoseDevice

Next == Caller \/ RenderThread \/ Device \/ Environment \/ Destroyed

Spec == Init /\ [][Next]_vars

\* The steps of the render thread that Vulkan promises: a wait ends when what
\* it waits for has happened, and fails once the device is lost or the surface
\* out of date.  That it fails for another reason is possible, not promised.
WaitEnds ==
    \/ SlotFenceWaited
    \/ deviceLost /\ SlotFenceWaitFails
    \/ \E i \in Images : AcquireNextImage(i)
    \/ (deviceLost \/ surface = "outOfDate") /\ AcquireFails
    \/ (deviceLost \/ ImageIdle(slotImage[currentFrameSlot])) /\ OpenFrame
    \/ DestroyOwnedObjects

\* The render thread returns from every wait that ends, and a device that is
\* not lost works off its queue.  Callers, surface changes, failures and
\* device loss are never forced.
Fairness ==
    /\ WF_vars(WaitEnds)
    /\ WF_vars(\E j \in jobs : ExecuteJob(j))
    /\ WF_vars(\E p \in presents : ExecutePresent(p))
    /\ \A s \in Slots : WF_vars(SignalImageAvailable(s))

FairSpec == Spec /\ Fairness

-----------------------------------------------------------------------------
(***************************************************************************)
(* Properties                                                              *)
(***************************************************************************)

\* The type invariant.
TypeOK ==
    /\ call \in Calls
    /\ status \in Statuses
    /\ currentFrameSlot \in Slots
    /\ isFrameOpen \in BOOLEAN
    /\ acquiredImage \in Images
    /\ frameSequence \in Nat
    /\ imageFence \in [Images -> Slots \cup {NoSlot}]
    /\ completedMetrics \in [Slots -> Nat \cup {NoFrame}]
    /\ priorMetrics \in Nat \cup {NoFrame}
    /\ unwaited \in SUBSET Nat
    /\ inFlightFence \in [Slots -> BOOLEAN]
    /\ imageAvailable \in [Slots -> {"unsignalled", "pending", "signalled"}]
    /\ renderFinished \in [Slots -> BOOLEAN]
    /\ slotImage \in [Slots -> Images]
    /\ heldImages \in SUBSET Images
    /\ jobs \in SUBSET Frames
    /\ presents \in SUBSET Frames
    /\ surface \in Surfaces
    /\ deviceLost \in BOOLEAN

\* While a frame is open the device has no unfinished batch of its slot, so
\* submitAndPresentClearFrame never re-records m_frameCommandBuffers[slot]
\* while the device reads it.
CommandBufferNotInUse ==
    isFrameOpen => \A j \in jobs : j.slot # currentFrameSlot

\* Two unfinished batches write the same swapchain image only where the wait
\* for the earlier one failed and beginFrame ignored it, although the engine
\* may name an image before the last frame drawn into it has finished: this
\* is what m_imageInFlightFences is for.
ImageHasOneWriter ==
    \A j, k \in jobs : j.image = k.image =>
        j = k \/ (IF j.seq < k.seq THEN k.seq ELSE j.seq) \in unwaited

\* The semaphore given to vkAcquireNextImageKHR is unsignalled and nothing is
\* going to signal it, whatever happened to the slot's earlier frames.
AcquireSemaphoreUnused ==
    call = "acquire" => imageAvailable[currentFrameSlot] = "unsignalled"

\* When a batch will signal a renderFinished semaphore that is still
\* signalled, the present of the slot's previous frame is queued and is to
\* consume that signal: a refused present never leaves one behind, because
\* callers stop at the first RecreateRequired.  (That the queued present may
\* be too slow is SignalLost.)
RenderFinishedAwaited ==
    \A j \in jobs : renderFinished[j.slot] =>
        \E p \in presents \ jobs :
            p.slot = j.slot /\ p.seq = j.seq - FramesInFlight

\* The metrics reported with an opened frame are those of the frame that used
\* the slot FramesInFlight submissions before, and that frame has finished.
PriorMetricsOfSlot ==
    isFrameOpen =>
        /\ priorMetrics = IF frameSequence < FramesInFlight
                             THEN NoFrame
                             ELSE frameSequence - FramesInFlight
        /\ \A j \in jobs : priorMetrics < j.seq

\* ADR-0004 D6: beginFrame returns the metrics of the slot's last COMPLETED
\* frame.  beginFrame copies them before it waits for the slot's fence, and
\* reports them also when that wait fails.
PriorMetricsOfCompletedFrame ==
    call = "none" => \A j \in jobs : j.seq # priorMetrics \/ isFrameOpen

\* The runtime is a frame loop that stays at most FramesInFlight frames ahead
\* of the device.
Pacing == INSTANCE FramePacing
            WITH submitted <- frameSequence,
                 completed <- frameSequence - Cardinality(jobs)

PacesFrames == Pacing!Spec

\* A queued present waits for a signal that its batch gave while the one
\* before it had not been consumed.  Presents may go to a queue of their own
\* (cpp 103), and the semaphore is the slot's, whose fence says nothing about
\* presents: with a third image the device can be that far ahead of them.
SignalLost == \E p \in presents \ jobs : ~renderFinished[p.slot]

\* A thread that entered beginFrame comes back: no wait in it is for a signal
\* that nobody is going to give, unless a present has lost one.
BeginFrameReturns == (call \in Beginning) ~> (call = "none" \/ SignalLost)

\* A runtime that is being destroyed gets its queues idle, also with an open
\* frame whose acquired image is never submitted, unless a present has lost
\* its signal.
DestroyReturns == (call = "drain") ~> (call = "destroyed" \/ SignalLost)
=============================================================================
