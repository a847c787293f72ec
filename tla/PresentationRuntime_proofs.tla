--------------------- MODULE PresentationRuntime_proofs ---------------------
(***************************************************************************)
(* Proofs, for every number of frame slots and every set of images, that   *)
(* the fences and semaphores of PresentationRuntime are used as they must. *)
(*                                                                         *)
(* None of the safety properties is inductive.  They follow from what the  *)
(* slot fence means: while it is signalled no unfinished batch belongs to  *)
(* the slot (FenceInv), and beginFrame opens a frame only between seeing   *)
(* it signalled and resetting it (OpenInv).  The rest hangs on that.       *)
(***************************************************************************)
EXTENDS PresentationRuntime, FiniteSetTheorems, TLAPS

\* An unfinished batch holds its slot's fence unsignalled, and no other
\* unfinished batch shares the slot.
FenceInv ==
    /\ \A j \in jobs : ~inFlightFence[j.slot]
    /\ \A j, k \in jobs : j.slot = k.slot => j = k

\* Where the render thread stands with respect to the current slot's fence.
OpenInv ==
    /\ call \in Beginning => ~isFrameOpen /\ status # "RecreateRequired"
    /\ call \in {"acquire", "imageFence"} => inFlightFence[currentFrameSlot]
    /\ isFrameOpen =>
          /\ status # "RecreateRequired"
          /\ ~inFlightFence[currentFrameSlot]
          /\ \A j \in jobs : j.slot # currentFrameSlot

\* Unfinished batches have sequence numbers of their own.
SequenceInv ==
    /\ \A j \in jobs : j.seq < frameSequence
    /\ \A j, k \in jobs : j.seq = k.seq => j = k

Retired == status = "RecreateRequired"

\* m_imageInFlightFences names the slot of the last unfinished batch that
\* writes the image, or of the open frame; the open frame's image has no
\* unfinished batch, unless the wait for it has failed.
ImageInv ==
    /\ \A j \in jobs :
          \/ \E k \in jobs : /\ k.image = j.image
                              /\ j.seq <= k.seq
                              /\ imageFence[j.image] = k.slot
          \/ isFrameOpen /\ acquiredImage = j.image
          \/ Retired
    /\ isFrameOpen => imageFence[acquiredImage] = currentFrameSlot
    /\ isFrameOpen /\ frameSequence \notin unwaited =>
          \A j \in jobs : j.image # acquiredImage

\* A semaphore that was handed to an acquire and is not consumed yet belongs
\* to an unfinished batch or to the frame being opened, unless the runtime
\* has told its caller to recreate it.
SemaphoreInv ==
    \A s \in Slots : imageAvailable[s] # "unsignalled" =>
        \/ \E j \in jobs : j.slot = s
        \/ /\ s = currentFrameSlot
           /\ isFrameOpen \/ call = "imageFence" \/ status = "RecreateRequired"

\* Every batch has its present queued; the exception is a present that was
\* refused, after which no frame is opened any more.
PresentInv ==
    /\ \A p \in presents : p.seq < frameSequence
    /\ \A j \in jobs : j \in presents \/ Retired

IInv ==
    /\ TypeOK
    /\ FenceInv
    /\ OpenInv
    /\ SequenceInv
    /\ ImageInv
    /\ ImageHasOneWriter
    /\ SemaphoreInv
    /\ PresentInv

-----------------------------------------------------------------------------
\* The ring of slots never leaves the ring.
LEMMA NextSlotInRing ==
    ASSUME NEW s \in Slots
    PROVE  NextSlot(s) \in Slots
BY RuntimeAssumption DEF NextSlot, Slots

LEMMA TypeStep == TypeOK /\ [Next]_vars => TypeOK'
<1> SUFFICES ASSUME TypeOK, [Next]_vars PROVE TypeOK'
  OBVIOUS
<1> USE RuntimeAssumption
    DEF TypeOK, runtimeVars, deviceVars, Calls, Beginning, Statuses, Surfaces,
        CallerMayBegin, Return
<1>1. CASE BeginFrameUnavailable
  BY <1>1 DEF BeginFrameUnavailable
<1>2. CASE BeginFrame
  BY <1>2 DEF BeginFrame, SlotMetrics
<1>3. CASE SubmitFails
  BY <1>3 DEF SubmitFails
<1>4. ASSUME NEW result \in Surfaces \cup {"error"},
             SubmitAndPresentFrame(result)
      PROVE  TypeOK'
  <2> DEFINE frame == [seq   |-> frameSequence,
                       slot  |-> currentFrameSlot,
                       image |-> acquiredImage]
  <2>1. frame \in Frames /\ frameSequence + 1 \in Nat
    BY DEF Frames
  <2>2. jobs' \in SUBSET Frames /\ presents' \in SUBSET Frames
    BY <1>4, <2>1 DEF SubmitAndPresentFrame
  <2>3. completedMetrics' \in [Slots -> Nat \cup {NoFrame}]
    BY <1>4 DEF SubmitAndPresentFrame
  <2>4. status' \in Statuses
    BY <1>4 DEF SubmitAndPresentFrame, PresentStatus
  <2>5. currentFrameSlot' \in Slots
    BY <1>4, NextSlotInRing DEF SubmitAndPresentFrame
  <2>6. heldImages' \in SUBSET Images
    BY <1>4 DEF SubmitAndPresentFrame
  <2> QED
    BY <1>4, <2>1, <2>2, <2>3, <2>4, <2>5, <2>6 DEF SubmitAndPresentFrame
<1>5. CASE Destroy
  BY <1>5 DEF Destroy
<1>6. CASE SlotFenceWaited
  BY <1>6 DEF SlotFenceWaited
<1>7. CASE SlotFenceWaitFails
  BY <1>7 DEF SlotFenceWaitFails
<1>8. ASSUME NEW i \in Images, AcquireNextImage(i) PROVE TypeOK'
  BY <1>8 DEF AcquireNextImage
<1>9. CASE AcquireFails
  BY <1>9 DEF AcquireFails
<1>10. CASE OpenFrame
  <2>1. unwaited' \in SUBSET Nat
    BY <1>10 DEF OpenFrame
  <2> QED
    BY <1>10, <2>1 DEF OpenFrame, ResetSlotFence
<1>11. CASE DestroyOwnedObjects
  BY <1>11 DEF DestroyOwnedObjects
<1>12. ASSUME NEW j \in jobs, ExecuteJob(j) PROVE TypeOK'
  BY <1>12 DEF ExecuteJob
<1>13. ASSUME NEW p \in presents, ExecutePresent(p) PROVE TypeOK'
  BY <1>13 DEF ExecutePresent
<1>14. ASSUME NEW s \in Slots, SignalImageAvailable(s) PROVE TypeOK'
  BY <1>14 DEF SignalImageAvailable
<1>15. ASSUME NEW s \in Surfaces, SurfaceChanges(s) PROVE TypeOK'
  BY <1>15 DEF SurfaceChanges
<1>16. CASE LoseDevice
  BY <1>16 DEF LoseDevice
<1>17. CASE Destroyed \/ UNCHANGED vars
  <2>1. UNCHANGED <<call, status, currentFrameSlot, isFrameOpen, acquiredImage,
                    frameSequence, imageFence, completedMetrics, priorMetrics,
                    unwaited, inFlightFence, imageAvailable, renderFinished,
                    slotImage, heldImages, jobs, presents, surface, deviceLost>>
    BY <1>17 DEF Destroyed, vars
  <2> QED
    BY <2>1
<1> HIDE DEF TypeOK, runtimeVars, deviceVars, Calls, Beginning, Statuses,
             Surfaces, CallerMayBegin, Return
<1>18. CASE Caller
  BY <1>1, <1>2, <1>3, <1>4, <1>5, <1>18 DEF Caller
<1>19. CASE RenderThread
  BY <1>6, <1>7, <1>8, <1>9, <1>10, <1>11, <1>19 DEF RenderThread
<1>20. CASE Device
  BY <1>12, <1>13, <1>14, <1>20 DEF Device
<1>21. CASE Environment
  BY <1>15, <1>16, <1>21 DEF Environment
<1> QED
  BY <1>17, <1>18, <1>19, <1>20, <1>21 DEF Next

-----------------------------------------------------------------------------
(***************************************************************************)
(* The inductive invariant.                                                *)
(***************************************************************************)
LEMMA InitIInv == Init => IInv
<1> SUFFICES ASSUME Init PROVE IInv
  OBVIOUS
<1>1. TypeOK
  <2>1. 0 \in Slots /\ 0 \in Nat
    BY RuntimeAssumption DEF Slots
  <2>2. NoFrame \in Nat \cup {NoFrame} /\ NoSlot \in Slots \cup {NoSlot}
    OBVIOUS
  <2> QED
    BY <2>1, <2>2 DEF Init, TypeOK, Calls, Statuses, Surfaces
<1>2. FenceInv /\ OpenInv /\ SequenceInv /\ ImageInv /\ ImageHasOneWriter
  BY DEF Init, FenceInv, OpenInv, SequenceInv, ImageInv, ImageHasOneWriter,
     Beginning
<1>3. SemaphoreInv /\ PresentInv
  BY DEF Init, SemaphoreInv, PresentInv
<1> QED
  BY <1>1, <1>2, <1>3 DEF IInv

\* Steps that only move the render thread along, where it does not touch the
\* device: begin a frame, see the fence, give up, drain.
LEMMA CallerStep ==
    ASSUME IInv, TypeOK',
           BeginFrameUnavailable \/ BeginFrame \/ SlotFenceWaited
             \/ SlotFenceWaitFails \/ AcquireFails \/ SubmitFails
             \/ Destroy \/ DestroyOwnedObjects
    PROVE  IInv'
<1> USE DEF BeginFrameUnavailable, BeginFrame, SlotFenceWaited,
            SlotFenceWaitFails, AcquireFails, SubmitFails, Destroy,
            DestroyOwnedObjects, CallerMayBegin, Return, deviceVars, IInv,
            TypeOK, Beginning
<1>1. FenceInv'
  BY DEF FenceInv
<1>2. OpenInv'
  BY DEF OpenInv
<1>3. SequenceInv' /\ ImageInv' /\ ImageHasOneWriter'
  BY DEF SequenceInv, ImageInv, ImageHasOneWriter, OpenInv, Retired
<1>4. SemaphoreInv'
  BY DEF SemaphoreInv
<1>5. PresentInv'
  BY DEF PresentInv, Retired, OpenInv
<1> QED
  BY <1>1, <1>2, <1>3, <1>4, <1>5

LEMMA AcquireStep ==
    ASSUME IInv, TypeOK', NEW i \in Images, AcquireNextImage(i)
    PROVE  IInv'
<1> USE DEF AcquireNextImage, IInv, TypeOK, Beginning
<1>1. FenceInv'
  BY DEF FenceInv
<1>2. OpenInv'
  BY DEF OpenInv
<1>3. SequenceInv' /\ ImageInv' /\ ImageHasOneWriter'
  BY DEF SequenceInv, ImageInv, ImageHasOneWriter, OpenInv, Retired
<1>4. SemaphoreInv'
  BY DEF SemaphoreInv, OpenInv
<1>5. PresentInv'
  BY DEF PresentInv, Retired, OpenInv
<1> QED
  BY <1>1, <1>2, <1>3, <1>4, <1>5

\* The signalled fence of the slot shows that the slot has no unfinished
\* batch, the signalled fence of the image that the image has none.
LEMMA OpenStep ==
    ASSUME IInv, TypeOK', OpenFrame
    PROVE  IInv'
<1> DEFINE image == slotImage[currentFrameSlot]
<1> USE DEF OpenFrame, ResetSlotFence, IInv, TypeOK, Beginning
<1>1. \A j \in jobs : j.slot # currentFrameSlot
  BY DEF FenceInv, OpenInv
<1>2. ~isFrameOpen /\ ~Retired
  BY DEF OpenInv, Retired
<1>3. frameSequence \notin unwaited' => \A j \in jobs : j.image # image
  <2> SUFFICES ASSUME ImageIdle(image), NEW j \in jobs, j.image = image
               PROVE  FALSE
    OBVIOUS
  <2>1. PICK k \in jobs : imageFence[image] = k.slot
    BY <1>2 DEF ImageInv
  <2>2. inFlightFence[k.slot]
    BY <2>1 DEF ImageIdle, Frames, Slots, NoSlot
  <2> QED
    BY <2>2 DEF FenceInv
<1>4. \A j \in jobs : j.seq \in unwaited => j.seq \in unwaited'
  OBVIOUS
<1>5. FenceInv' /\ SequenceInv'
  BY <1>1 DEF FenceInv, SequenceInv, Frames
<1>6. OpenInv'
  BY <1>1 DEF OpenInv
<1>7. ImageInv'
  BY <1>2, <1>3 DEF ImageInv, Frames
<1>8. ImageHasOneWriter'
  BY <1>4 DEF ImageHasOneWriter
<1>9. SemaphoreInv'
  BY DEF SemaphoreInv
<1>10. PresentInv'
  BY DEF PresentInv, Retired
<1> QED
  BY <1>5, <1>6, <1>7, <1>8, <1>9, <1>10

\* The submitted batch joins the batches of other slots and of other images.
LEMMA SubmitStep ==
    ASSUME IInv, TypeOK', NEW result \in Surfaces \cup {"error"},
           SubmitAndPresentFrame(result)
    PROVE  IInv'
<1> DEFINE frame == [seq   |-> frameSequence,
                     slot  |-> currentFrameSlot,
                     image |-> acquiredImage]
<1> USE DEF IInv
<1>1. /\ jobs' = jobs \cup {frame}
      /\ \A j \in jobs : j.slot # frame.slot
      /\ \A j \in jobs : j.seq < frame.seq
      /\ \A j \in jobs : j.seq \in Nat
      /\ frame.seq \in Nat
      /\ ~Retired
  BY DEF SubmitAndPresentFrame, OpenInv, SequenceInv, Retired, TypeOK, Frames
<1>2. FenceInv' /\ SequenceInv'
  BY <1>1 DEF SubmitAndPresentFrame, FenceInv, OpenInv, SequenceInv
<1>3. OpenInv'
  BY DEF SubmitAndPresentFrame, OpenInv, Beginning
<1>4. ImageInv' /\ ImageHasOneWriter'
  <2>1. /\ isFrameOpen /\ ~isFrameOpen'
        /\ imageFence' = imageFence /\ unwaited' = unwaited
        /\ imageFence[frame.image] = frame.slot
    BY DEF SubmitAndPresentFrame, ImageInv
  <2>2. ASSUME NEW j \in jobs'
        PROVE  \E k \in jobs' : /\ k.image = j.image
                                /\ j.seq <= k.seq
                                /\ imageFence[j.image] = k.slot
    <3>1. CASE j.image = frame.image
      <4>1. frame \in jobs' /\ j.seq <= frame.seq
        BY <1>1
      <4> QED
        BY <2>1, <3>1, <4>1
    <3>2. CASE j.image # frame.image
      BY <1>1, <3>2 DEF ImageInv
    <3> QED
      BY <3>1, <3>2
  <2>3. ImageInv'
    BY <2>1, <2>2 DEF ImageInv
  <2>4. ASSUME NEW j \in jobs, j.image = frame.image
        PROVE  frame.seq \in unwaited
    BY <2>1, <2>4 DEF ImageInv
  <2>5. ImageHasOneWriter'
    BY <1>1, <2>1, <2>4 DEF ImageHasOneWriter
  <2> QED
    BY <2>3, <2>5
<1>5. SemaphoreInv'
  <2> SUFFICES ASSUME NEW s \in Slots, imageAvailable[s] # "unsignalled"
               PROVE  \E j \in jobs' : j.slot = s
    BY DEF SubmitAndPresentFrame, SemaphoreInv
  <2>1. CASE \E j \in jobs : j.slot = s
    BY <1>1, <2>1
  <2>2. CASE s = currentFrameSlot
    <3>1. frame \in jobs' /\ frame.slot = s
      BY <1>1, <2>2
    <3> QED
      BY <3>1
  <2> QED
    BY <2>1, <2>2 DEF SemaphoreInv
<1>6. PresentInv'
  <2>1. \A p \in presents' : p.seq < frameSequence'
    BY DEF SubmitAndPresentFrame, PresentInv, TypeOK, Frames
  <2>2. ~Retired
    BY DEF SubmitAndPresentFrame, OpenInv, Retired
  <2>3. frame \in presents' \/ Retired'
    BY DEF SubmitAndPresentFrame, PresentStatus, Retired
  <2>4. presents \subseteq presents'
    BY DEF SubmitAndPresentFrame
  <2>5. \A j \in jobs' : j \in presents' \/ Retired'
    BY <1>1, <2>2, <2>3, <2>4 DEF PresentInv
  <2> QED
    BY <2>1, <2>5 DEF PresentInv
<1> QED
  BY <1>2, <1>3, <1>4, <1>5, <1>6

\* A finished batch releases its slot; no other batch shares it.
LEMMA ExecuteJobStep ==
    ASSUME IInv, TypeOK', NEW j \in jobs, ExecuteJob(j)
    PROVE  IInv'
<1> USE DEF IInv
<1>1. /\ jobs' = jobs \ {j}
      /\ j.slot \in Slots
      /\ \A k \in jobs' : k.slot # j.slot
      /\ \A k \in jobs' : k.seq > j.seq
  <2>1. jobs' = jobs \ {j} /\ \A k \in jobs : j.seq <= k.seq
    BY DEF ExecuteJob, CanExecute
  <2>2. \A k \in jobs : k.seq \in Nat /\ k.slot \in Slots
    BY DEF TypeOK, Frames
  <2> QED
    BY <2>1, <2>2 DEF FenceInv, SequenceInv
<1>2. FenceInv' /\ SequenceInv'
  BY <1>1 DEF ExecuteJob, FenceInv, SequenceInv, TypeOK, Frames, runtimeVars
<1>3. OpenInv'
  BY <1>1 DEF ExecuteJob, OpenInv, runtimeVars, TypeOK
<1>4. ImageInv' /\ ImageHasOneWriter'
  <2>1. /\ UNCHANGED runtimeVars
        /\ \A k \in jobs : k.seq \in Nat
    BY DEF ExecuteJob, TypeOK, Frames
  <2>2. ASSUME NEW i \in jobs', NEW k \in jobs, i.seq <= k.seq
        PROVE  k \in jobs'
    BY <1>1, <2>1, <2>2
  <2> QED
    BY <1>1, <2>1, <2>2 DEF ImageInv, ImageHasOneWriter, Retired, runtimeVars
<1>5. SemaphoreInv'
  <2> SUFFICES ASSUME NEW s \in Slots, imageAvailable'[s] # "unsignalled"
               PROVE  \/ \E k \in jobs' : k.slot = s
                      \/ /\ s = currentFrameSlot
                         /\ \/ isFrameOpen \/ call = "imageFence"
                            \/ status = "RecreateRequired"
    BY DEF ExecuteJob, runtimeVars, SemaphoreInv
  <2>1. s # j.slot /\ imageAvailable[s] # "unsignalled"
    BY <1>1 DEF ExecuteJob, TypeOK
  <2> QED
    BY <1>1, <2>1 DEF SemaphoreInv
<1>6. PresentInv'
  <2>1. /\ presents' = presents /\ frameSequence' = frameSequence
        /\ Retired' = Retired
    BY DEF ExecuteJob, runtimeVars, Retired
  <2>2. \A k \in jobs' : k \in presents' \/ Retired'
    BY <1>1, <2>1 DEF PresentInv
  <2> QED
    BY <2>1, <2>2 DEF PresentInv
<1> QED
  BY <1>2, <1>3, <1>4, <1>5, <1>6

LEMMA ExecutePresentStep ==
    ASSUME IInv, TypeOK', NEW p \in presents, ExecutePresent(p)
    PROVE  IInv'
<1> USE DEF ExecutePresent, runtimeVars, IInv
<1>1. FenceInv' /\ OpenInv'
  BY DEF FenceInv, OpenInv
<1>2. SequenceInv' /\ ImageInv' /\ ImageHasOneWriter' /\ SemaphoreInv'
  BY DEF SequenceInv, ImageInv, ImageHasOneWriter, SemaphoreInv, Retired
<1>3. PresentInv'
  BY DEF PresentInv, Retired
<1> QED
  BY <1>1, <1>2, <1>3

\* The engine signals a semaphore that was pending already; the surface and
\* the loss of the device touch neither fences nor semaphores.
LEMMA EnvironmentStep ==
    ASSUME IInv, TypeOK',
           \/ \E s \in Slots : SignalImageAvailable(s)
           \/ \E s \in Surfaces : SurfaceChanges(s)
           \/ LoseDevice \/ Destroyed \/ UNCHANGED vars
    PROVE  IInv'
<1> USE DEF SurfaceChanges, LoseDevice, Destroyed, vars,
            runtimeVars, deviceVars, IInv
<1>1. FenceInv' /\ OpenInv'
  BY DEF SignalImageAvailable, FenceInv, OpenInv
<1>2. SequenceInv' /\ ImageInv' /\ ImageHasOneWriter'
  BY DEF SignalImageAvailable, SequenceInv, ImageInv, ImageHasOneWriter, Retired
<1>3. SemaphoreInv'
  BY DEF SignalImageAvailable, SemaphoreInv, TypeOK
<1>4. PresentInv'
  BY DEF SignalImageAvailable, PresentInv, Retired
<1> QED
  BY <1>1, <1>2, <1>3, <1>4

LEMMA IInvStep == IInv /\ [Next]_vars => IInv'
<1> SUFFICES ASSUME IInv, [Next]_vars PROVE IInv'
  OBVIOUS
<1>1. TypeOK'
  BY TypeStep DEF IInv
<1> QED
  BY <1>1, CallerStep, AcquireStep, OpenStep, SubmitStep, ExecuteJobStep,
     ExecutePresentStep, EnvironmentStep
     DEF Next, Caller, RenderThread, Device, Environment

-----------------------------------------------------------------------------
\* Every reachable state satisfies the inductive invariant.
THEOREM Invariance == Spec => []IInv
BY InitIInv, IInvStep, PTL DEF Spec

\* The variables keep their types, whatever the device and the surface do.
THEOREM TypeCorrect == Spec => []TypeOK
<1>1. IInv => TypeOK
  BY DEF IInv
<1> QED
  BY <1>1, Invariance, PTL

\* The command buffer that submitAndPresentClearFrame records is never one
\* the device still executes.
THEOREM CommandBufferSafe == Spec => []CommandBufferNotInUse
<1>1. IInv => CommandBufferNotInUse
  BY DEF IInv, OpenInv, CommandBufferNotInUse
<1> QED
  BY <1>1, Invariance, PTL

\* m_imageInFlightFences keeps two unfinished batches off one image, unless
\* the wait on it failed and was ignored.
THEOREM ImageSafe == Spec => []ImageHasOneWriter
<1>1. IInv => ImageHasOneWriter
  BY DEF IInv
<1> QED
  BY <1>1, Invariance, PTL

\* vkAcquireNextImageKHR never gets a semaphore with a signal on its way.
THEOREM AcquireSafe == Spec => []AcquireSemaphoreUnused
<1>1. IInv => AcquireSemaphoreUnused
  <2> SUFFICES ASSUME IInv, call = "acquire"
               PROVE  imageAvailable[currentFrameSlot] = "unsignalled"
    BY DEF AcquireSemaphoreUnused
  <2>1. currentFrameSlot \in Slots
    BY DEF IInv, TypeOK
  <2>2. \A j \in jobs : j.slot # currentFrameSlot
    BY DEF IInv, OpenInv, FenceInv
  <2>3. ~isFrameOpen /\ status # "RecreateRequired"
    BY DEF IInv, OpenInv, Beginning
  <2> QED
    BY <2>1, <2>2, <2>3 DEF IInv, SemaphoreInv
<1> QED
  BY <1>1, Invariance, PTL

-----------------------------------------------------------------------------
(***************************************************************************)
(* The ring of slots.  Slots before the current one were used last in this *)
(* lap of the ring, the others in the lap before it.                       *)
(***************************************************************************)
LastUse(s) ==
    LET lapStart == frameSequence - currentFrameSlot
    IN  IF s < currentFrameSlot THEN lapStart + s
                                ELSE lapStart + s - FramesInFlight

RingInv ==
    /\ currentFrameSlot <= frameSequence
    /\ \A s \in Slots : completedMetrics[s] =
          IF LastUse(s) >= 0 THEN LastUse(s) ELSE NoFrame
    /\ \A j \in jobs : j.seq = completedMetrics[j.slot]
    /\ call \in Beginning \/ isFrameOpen =>
          priorMetrics = completedMetrics[currentFrameSlot]

LEMMA NextSlotIs ==
    ASSUME NEW s \in Slots
    PROVE  NextSlot(s) = IF s = FramesInFlight - 1 THEN 0 ELSE s + 1
BY RuntimeAssumption DEF NextSlot, Slots

LEMMA RingStep == IInv /\ RingInv /\ [Next]_vars => RingInv'
<1> SUFFICES ASSUME IInv, RingInv, [Next]_vars PROVE RingInv'
  OBVIOUS
<1>1. CASE BeginFrameUnavailable \/ BeginFrame \/ SlotFenceWaited
           \/ SlotFenceWaitFails \/ AcquireFails \/ SubmitFails
           \/ Destroy \/ DestroyOwnedObjects
  BY <1>1 DEF RingInv, LastUse, BeginFrameUnavailable, BeginFrame, SlotMetrics,
     SlotFenceWaited, SlotFenceWaitFails, AcquireFails, SubmitFails, Destroy,
     DestroyOwnedObjects, CallerMayBegin, Return, deviceVars, Beginning
<1>2. CASE OpenFrame \/ \E i \in Images : AcquireNextImage(i)
  BY <1>2 DEF RingInv, LastUse, OpenFrame, AcquireNextImage, Beginning
<1>3. ASSUME NEW result \in Surfaces \cup {"error"},
             SubmitAndPresentFrame(result)
      PROVE  RingInv'
  <2> DEFINE cur == currentFrameSlot
             frame == [seq |-> frameSequence, slot |-> cur, image |-> acquiredImage]
  <2>1. /\ cur \in Slots /\ frameSequence \in Nat
        /\ FramesInFlight \in Nat \ {0}
        /\ completedMetrics \in [Slots -> Nat \cup {NoFrame}]
    BY RuntimeAssumption DEF IInv, TypeOK
  <2>2. /\ currentFrameSlot' = IF cur = FramesInFlight - 1 THEN 0 ELSE cur + 1
        /\ frameSequence' = frameSequence + 1
        /\ completedMetrics' = [completedMetrics EXCEPT ![cur] = frameSequence]
        /\ jobs' = jobs \cup {frame}
        /\ call' = "none" /\ isFrameOpen' = FALSE
    BY <1>3, <2>1, NextSlotIs DEF SubmitAndPresentFrame
  <2>3. \A j \in jobs : j.slot # cur /\ j.slot \in Slots
    BY <1>3 DEF SubmitAndPresentFrame, IInv, OpenInv, TypeOK, Frames
  <2>4. (currentFrameSlot <= frameSequence)'
    BY <2>1, <2>2 DEF RingInv, Slots
  <2>5. ASSUME NEW s \in Slots
        PROVE  completedMetrics'[s] =
                 IF LastUse(s)' >= 0 THEN LastUse(s)' ELSE NoFrame
    <3>1. CASE s = cur
      BY <2>1, <2>2, <3>1 DEF LastUse, Slots
    <3>2. CASE s # cur
      <4>1. completedMetrics'[s] = completedMetrics[s]
        BY <2>1, <2>2, <3>2
      <4>2. LastUse(s)' = LastUse(s)
        BY <2>1, <2>2, <3>2 DEF LastUse, Slots
      <4> QED
        BY <4>1, <4>2 DEF RingInv
    <3> QED
      BY <3>1, <3>2
  <2>6. \A j \in jobs' : j.seq = completedMetrics'[j.slot]
    BY <2>1, <2>2, <2>3 DEF RingInv
  <2> QED
    BY <2>2, <2>4, <2>5, <2>6 DEF RingInv, Beginning
<1>4. CASE Device \/ Environment \/ Destroyed \/ UNCHANGED vars
  BY <1>4 DEF RingInv, LastUse, Device, Environment, Destroyed, ExecuteJob,
     ExecutePresent, SignalImageAvailable, SurfaceChanges, LoseDevice,
     runtimeVars, deviceVars, vars
<1> QED
  BY <1>1, <1>2, <1>3, <1>4 DEF Next, Caller, RenderThread

THEOREM RingInvariance == Spec => [](IInv /\ RingInv)
<1>1. Init => RingInv
  <2> SUFFICES ASSUME Init PROVE RingInv
    OBVIOUS
  <2>1. ASSUME NEW s \in Slots PROVE LastUse(s) < 0
    BY RuntimeAssumption DEF Init, LastUse, Slots
  <2> QED
    BY <2>1, RuntimeAssumption DEF Init, RingInv, Slots, Beginning, LastUse
<1> QED
  BY <1>1, InitIInv, IInvStep, RingStep, PTL DEF Spec

\* The metrics reported with an opened frame are those of the frame submitted
\* FramesInFlight frames earlier, and that frame has finished.
THEOREM MetricsOfSlot == Spec => []PriorMetricsOfSlot
<1>1. IInv /\ RingInv => PriorMetricsOfSlot
  <2> SUFFICES ASSUME IInv, RingInv, isFrameOpen
               PROVE  /\ priorMetrics = IF frameSequence < FramesInFlight
                                           THEN NoFrame
                                           ELSE frameSequence - FramesInFlight
                      /\ \A j \in jobs : priorMetrics < j.seq
    BY DEF PriorMetricsOfSlot
  <2>1. /\ currentFrameSlot \in Slots /\ frameSequence \in Nat
        /\ FramesInFlight \in Nat \ {0}
        /\ priorMetrics = completedMetrics[currentFrameSlot]
    BY RuntimeAssumption DEF IInv, TypeOK, RingInv
  <2>2. LastUse(currentFrameSlot) = frameSequence - FramesInFlight
    BY <2>1 DEF LastUse, Slots
  <2>3. priorMetrics = IF frameSequence < FramesInFlight
                          THEN NoFrame ELSE frameSequence - FramesInFlight
    BY <2>1, <2>2 DEF RingInv
  <2>4. ASSUME NEW j \in jobs PROVE priorMetrics < j.seq
    <3>1. /\ j.slot \in Slots /\ j.slot # currentFrameSlot /\ j.seq \in Nat
          /\ j.seq = completedMetrics[j.slot]
      BY DEF IInv, TypeOK, Frames, OpenInv, RingInv
    <3>2. j.seq = LastUse(j.slot)
      BY <3>1, <2>1 DEF RingInv, NoFrame, LastUse, Slots
    <3>3. LastUse(j.slot) > frameSequence - FramesInFlight
      BY <3>1, <2>1 DEF LastUse, Slots
    <3> QED
      BY <2>1, <2>3, <3>1, <3>2, <3>3 DEF NoFrame
  <2> QED
    BY <2>3, <2>4
<1> QED
  BY <1>1, RingInvariance, PTL

-----------------------------------------------------------------------------
(***************************************************************************)
(* Who consumes a signalled renderFinished semaphore: the queued present   *)
(* of the last frame of the slot that has finished.                        *)
(***************************************************************************)
SlotBusy(s) == \E j \in jobs : j.slot = s

LastFinished(s) ==
    IF SlotBusy(s) THEN completedMetrics[s] - FramesInFlight
                   ELSE completedMetrics[s]

AwaitInv ==
    \A s \in Slots : renderFinished[s] =>
        \/ \E p \in presents \ jobs : p.slot = s /\ p.seq = LastFinished(s)
        \/ Retired /\ ~SlotBusy(s)

LEMMA AwaitStep == IInv /\ RingInv /\ AwaitInv /\ [Next]_vars => AwaitInv'
<1> SUFFICES ASSUME IInv, RingInv, AwaitInv, [Next]_vars PROVE AwaitInv'
  OBVIOUS
<1> USE DEF SlotBusy, LastFinished
<1>1. CASE BeginFrameUnavailable \/ BeginFrame \/ SlotFenceWaited
           \/ SlotFenceWaitFails \/ AcquireFails \/ SubmitFails
           \/ Destroy \/ DestroyOwnedObjects \/ OpenFrame
           \/ \E i \in Images : AcquireNextImage(i)
  <2>1. UNCHANGED <<renderFinished, presents, jobs, completedMetrics>>
    BY <1>1 DEF BeginFrameUnavailable, BeginFrame, SlotFenceWaited,
       SlotFenceWaitFails, AcquireFails, SubmitFails, Destroy,
       DestroyOwnedObjects, OpenFrame, AcquireNextImage, deviceVars
  <2>2. Retired => Retired'
    BY <1>1 DEF Retired, BeginFrameUnavailable, BeginFrame, SlotFenceWaited,
       SlotFenceWaitFails, AcquireFails, SubmitFails, Destroy,
       DestroyOwnedObjects, OpenFrame, AcquireNextImage, CallerMayBegin, Return,
       IInv, OpenInv, Beginning
  <2> QED
    BY <2>1, <2>2 DEF AwaitInv
<1>2. ASSUME NEW result \in Surfaces \cup {"error"},
             SubmitAndPresentFrame(result)
      PROVE  AwaitInv'
  <2> DEFINE cur == currentFrameSlot
             frame == [seq |-> frameSequence, slot |-> cur, image |-> acquiredImage]
  <2>1. /\ cur \in Slots /\ frameSequence \in Nat
        /\ FramesInFlight \in Nat \ {0}
        /\ completedMetrics \in [Slots -> Nat \cup {NoFrame}]
        /\ \A p \in presents : p.seq \in Nat /\ p.seq < frameSequence
    BY RuntimeAssumption DEF IInv, TypeOK, PresentInv, Frames
  <2>2. /\ jobs' = jobs \cup {frame} /\ presents \subseteq presents'
        /\ completedMetrics' = [completedMetrics EXCEPT ![cur] = frameSequence]
        /\ renderFinished' = renderFinished
    BY <1>2 DEF SubmitAndPresentFrame
  <2>3. ~Retired /\ ~SlotBusy(cur)
    BY <1>2 DEF SubmitAndPresentFrame, IInv, OpenInv, Retired
  <2>4. ASSUME NEW s \in Slots, renderFinished[s]
        PROVE  \E p \in presents' \ jobs' : p.slot = s /\ p.seq = LastFinished(s)'
    <3>1. PICK p \in presents \ jobs : p.slot = s /\ p.seq = LastFinished(s)
      BY <2>3, <2>4 DEF AwaitInv
    <3>2. p \in presents' \ jobs'
      BY <2>1, <2>2, <3>1
    <3>3. CASE s = cur
      <4>1. p.seq = completedMetrics[cur] /\ p.seq \in Nat
        BY <2>1, <2>3, <3>1, <3>3
      <4>2. completedMetrics[cur] = frameSequence - FramesInFlight
        BY <2>1, <4>1 DEF RingInv, LastUse, Slots, NoFrame
      <4>3. SlotBusy(s)'
        <5>1. frame \in jobs' /\ frame.slot = s
          BY <2>2, <3>3
        <5> QED
          BY <5>1
      <4>4. completedMetrics'[s] = frameSequence
        BY <2>1, <2>2, <3>3
      <4> QED
        BY <3>1, <3>2, <4>1, <4>2, <4>3, <4>4
    <3>4. CASE s # cur
      <4>1. SlotBusy(s)' <=> SlotBusy(s)
        BY <2>2, <3>4
      <4>2. completedMetrics'[s] = completedMetrics[s]
        BY <2>1, <2>2, <3>4
      <4> QED
        BY <3>1, <3>2, <4>1, <4>2
    <3> QED
      BY <3>3, <3>4
  <2> QED
    BY <2>2, <2>4 DEF AwaitInv
<1>3. ASSUME NEW j \in jobs, ExecuteJob(j)
      PROVE  AwaitInv'
  <2>1. /\ jobs' = jobs \ {j} /\ j.slot \in Slots
        /\ renderFinished \in [Slots -> BOOLEAN]
        /\ renderFinished' = [renderFinished EXCEPT ![j.slot] = TRUE]
        /\ UNCHANGED <<presents, completedMetrics>> /\ Retired' = Retired
    BY <1>3 DEF ExecuteJob, runtimeVars, Retired, IInv, TypeOK, Frames
  <2>2. ~SlotBusy(j.slot)'
    BY <2>1 DEF IInv, FenceInv
  <2>3. ASSUME NEW s \in Slots, renderFinished'[s]
        PROVE  \/ \E p \in presents' \ jobs' :
                      p.slot = s /\ p.seq = LastFinished(s)'
               \/ Retired' /\ ~SlotBusy(s)'
    <3>1. CASE s = j.slot
      <4>1. j \notin jobs' /\ j.seq = completedMetrics[s]
        BY <2>1, <3>1 DEF RingInv
      <4>2. j \in presents \/ Retired
        BY DEF IInv, PresentInv
      <4> QED
        BY <2>1, <2>2, <3>1, <4>1, <4>2
    <3>2. CASE s # j.slot
      <4>1. renderFinished[s] /\ (SlotBusy(s)' <=> SlotBusy(s))
        BY <2>1, <2>3, <3>2
      <4> QED
        BY <2>1, <4>1 DEF AwaitInv
    <3> QED
      BY <3>1, <3>2
  <2> QED
    BY <2>3 DEF AwaitInv
<1>4. ASSUME NEW q \in presents, ExecutePresent(q)
      PROVE  AwaitInv'
  <2>1. /\ presents' = presents \ {q} /\ q.slot \in Slots
        /\ renderFinished \in [Slots -> BOOLEAN]
        /\ renderFinished' = [renderFinished EXCEPT ![q.slot] = FALSE]
        /\ UNCHANGED <<jobs, completedMetrics>> /\ Retired' = Retired
    BY <1>4 DEF ExecutePresent, runtimeVars, Retired, IInv, TypeOK, Frames
  <2>2. ASSUME NEW s \in Slots, renderFinished'[s]
        PROVE  s # q.slot /\ renderFinished[s]
    BY <2>1, <2>2
  <2>3. \A s \in Slots : \A p \in presents : p.slot = s /\ s # q.slot => p \in presents'
    BY <2>1
  <2> QED
    BY <2>1, <2>2, <2>3 DEF AwaitInv
<1>5. CASE \/ \E s \in Slots : SignalImageAvailable(s)
           \/ Environment \/ Destroyed \/ UNCHANGED vars
  BY <1>5 DEF AwaitInv, Retired, SignalImageAvailable, Environment, Destroyed,
     SurfaceChanges, LoseDevice, runtimeVars, deviceVars, vars
<1> QED
  BY <1>1, <1>2, <1>3, <1>4, <1>5 DEF Next, Caller, RenderThread, Device

\* Only a present of the slot's previous frame that is still queued can leave
\* the semaphore signalled when the next batch signals it, never a refused
\* one: for any number of slots and images, and presents as slow as they like.
THEOREM RenderFinishedSafe == Spec => []RenderFinishedAwaited
<1>1. Init => AwaitInv
  BY DEF Init, AwaitInv
<1>2. IInv /\ RingInv /\ AwaitInv => RenderFinishedAwaited
  <2> SUFFICES ASSUME IInv, RingInv, AwaitInv,
                      NEW j \in jobs, renderFinished[j.slot]
               PROVE  \E p \in presents \ jobs :
                        p.slot = j.slot /\ p.seq = j.seq - FramesInFlight
    BY DEF RenderFinishedAwaited
  <2>1. j.slot \in Slots /\ SlotBusy(j.slot)
    BY DEF IInv, TypeOK, Frames, SlotBusy
  <2>2. LastFinished(j.slot) = j.seq - FramesInFlight
    BY <2>1 DEF RingInv, LastFinished
  <2> QED
    BY <2>1, <2>2 DEF AwaitInv
<1> QED
  BY <1>1, <1>2, RingInvariance, AwaitStep, PTL DEF Spec

-----------------------------------------------------------------------------
(***************************************************************************)
(* Refinement: the runtime is a FramePacing loop.  The unfinished batches  *)
(* occupy distinct slots, so there are at most FramesInFlight of them, and *)
(* fewer when the current slot is free.                                    *)
(***************************************************************************)
LEMMA SlotsFinite ==
    IsFiniteSet(Slots) /\ Cardinality(Slots) = FramesInFlight
BY FS_Interval, RuntimeAssumption DEF Slots

LEMMA JobsFinite ==
    ASSUME IInv
    PROVE  IsFiniteSet(jobs) /\ Cardinality(jobs) \in Nat
<1> DEFINE slotOf == [j \in jobs |-> j.slot]
<1>1. slotOf \in Injection(jobs, Slots)
  BY DEF IInv, TypeOK, Frames, FenceInv, Injection, IsInjective
<1>2. IsFiniteSet(jobs)
  BY <1>1, SlotsFinite, FS_Injection
<1> QED
  BY <1>2, FS_CardinalityType

LEMMA FreeSlotBound ==
    ASSUME IInv, \A j \in jobs : j.slot # currentFrameSlot
    PROVE  Cardinality(jobs) < FramesInFlight
<1> DEFINE others == Slots \ {currentFrameSlot}
           slotOf == [j \in jobs |-> j.slot]
<1>1. IsFiniteSet(others) /\ Cardinality(others) = FramesInFlight - 1
  BY SlotsFinite, FS_RemoveElement DEF IInv, TypeOK
<1>2. slotOf \in Injection(jobs, others)
  BY DEF IInv, TypeOK, Frames, FenceInv, Injection, IsInjective
<1>3. Cardinality(jobs) <= Cardinality(others)
  BY <1>1, <1>2, FS_Injection
<1> QED
  BY <1>1, <1>3, JobsFinite, RuntimeAssumption

LEMMA PacingStep ==
    ASSUME IInv, [Next]_vars
    PROVE  [Pacing!Next]_(Pacing!pacingVars)
<1> DEFINE finished == frameSequence - Cardinality(jobs)
<1> USE JobsFinite, RuntimeAssumption DEF Pacing!pacingVars
<1>1. frameSequence \in Nat
  BY DEF IInv, TypeOK
<1>2. CASE OpenFrame
  <2>1. \A j \in jobs : j.slot # currentFrameSlot
    BY <1>2 DEF OpenFrame, IInv, FenceInv, OpenInv
  <2>2. frameSequence - finished < FramesInFlight
    BY <1>1, <2>1, FreeSlotBound
  <2>3. ~isFrameOpen
    BY <1>2 DEF OpenFrame, IInv, OpenInv, Beginning
  <2>4. Pacing!Open
    BY <1>2, <2>2, <2>3 DEF OpenFrame, Pacing!Open
  <2> QED
    BY <2>4 DEF Pacing!Next
<1>3. ASSUME NEW result \in Surfaces \cup {"error"},
             SubmitAndPresentFrame(result)
      PROVE  Pacing!Next
  <2> DEFINE frame == [seq   |-> frameSequence,
                       slot  |-> currentFrameSlot,
                       image |-> acquiredImage]
  <2>1. /\ isFrameOpen /\ ~isFrameOpen'
        /\ isFrameOpen' = FALSE
        /\ frameSequence' = frameSequence + 1
        /\ jobs' = jobs \cup {frame}
    BY <1>3 DEF SubmitAndPresentFrame
  <2>2. frame \notin jobs
    BY <2>1 DEF IInv, OpenInv
  <2>3. Cardinality(jobs') = Cardinality(jobs) + 1
    BY <2>1, <2>2, FS_AddElement
  <2>4. finished' = finished
    BY <1>1, <2>1, <2>3
  <2>5. Pacing!Submit
    BY <2>1, <2>4 DEF Pacing!Submit
  <2> QED
    BY <2>5 DEF Pacing!Next
<1>4. CASE SubmitFails
  BY <1>4 DEF SubmitFails, deviceVars, Pacing!GiveUp, Pacing!Next
<1>5. ASSUME NEW j \in jobs, ExecuteJob(j)
      PROVE  Pacing!Next
  <2>1. /\ jobs' = jobs \ {j}
        /\ UNCHANGED <<isFrameOpen, frameSequence>>
    BY <1>5 DEF ExecuteJob, runtimeVars
  <2>2. Cardinality(jobs') = Cardinality(jobs) - 1
    BY <2>1, FS_RemoveElement
  <2>3. Cardinality(jobs) # 0
    BY FS_EmptySet
  <2>4. finished < frameSequence /\ finished' = finished + 1
    BY <1>1, <2>1, <2>2, <2>3
  <2>5. Pacing!Complete
    BY <2>1, <2>4 DEF Pacing!Complete
  <2> QED
    BY <2>5 DEF Pacing!Next
<1>6. CASE BeginFrameUnavailable \/ BeginFrame \/ SlotFenceWaited
           \/ SlotFenceWaitFails \/ AcquireFails \/ Destroy
           \/ DestroyOwnedObjects \/ \E i \in Images : AcquireNextImage(i)
  BY <1>6 DEF BeginFrameUnavailable, BeginFrame, SlotFenceWaited,
     SlotFenceWaitFails, AcquireFails, Destroy, DestroyOwnedObjects,
     AcquireNextImage, deviceVars
<1>7. CASE \/ \E p \in presents : ExecutePresent(p)
           \/ \E s \in Slots : SignalImageAvailable(s)
           \/ Environment \/ Destroyed \/ UNCHANGED vars
  BY <1>7 DEF ExecutePresent, SignalImageAvailable, Environment, Destroyed,
     SurfaceChanges, LoseDevice, runtimeVars, deviceVars, vars
<1> QED
  BY <1>2, <1>3, <1>4, <1>5, <1>6, <1>7
     DEF Next, Caller, RenderThread, Device

\* The runtime implements FramePacing: one open frame at a time, and never
\* more than FramesInFlight frames ahead of the device.
THEOREM Refinement == Spec => PacesFrames
<1>1. Init => Pacing!Init
  BY FS_EmptySet DEF Init, Pacing!Init
<1>2. IInv /\ [Next]_vars => [Pacing!Next]_(Pacing!pacingVars)
  BY PacingStep
<1> QED
  BY <1>1, <1>2, Invariance, PTL DEF Spec, PacesFrames, Pacing!Spec
=============================================================================
