--------------------------- MODULE FrameLoop_proofs ---------------------------
(***************************************************************************)
(* Proofs, for every number of frame slots, that the parameters of a       *)
(* submission are not overwritten before the device has read them, that no *)
(* submission outlives its fence, and that VulkanFrameLoop paces frames.   *)
(*                                                                         *)
(* The argument is that a signalled fence means an idle slot, and that a   *)
(* frame is open only on a slot that was seen idle.                        *)
(***************************************************************************)
EXTENDS FrameLoop, FiniteSetTheorems, TLAPS

\* An unfinished submission holds its slot's fence unsignalled, and no other
\* unfinished submission shares the slot; nor does the open frame.
SlotInv ==
    /\ \A j \in jobs : ~signalled[j.slot]
    /\ \A j, k \in jobs : j.slot = k.slot => j = k
    /\ isFrameOpen => /\ ~signalled[currentFrameSlot]
                      /\ \A j \in jobs : j.slot # currentFrameSlot
    /\ call = "fenceWait" => ~isFrameOpen

\* create makes the fences in the order of the slots, and frames only begin
\* when it has made them all.
FenceInv ==
    /\ call = "create" => \E n \in Slots : fences = 0 .. n - 1
    /\ call \in {"none", "fenceWait", "drain"} => fences = Slots
    /\ call = "create" => jobs = {} /\ ~isFrameOpen

IInv ==
    /\ TypeOK
    /\ SlotInv
    /\ FenceInv
    /\ ParametersKept
    /\ FencesOutliveJobs

-----------------------------------------------------------------------------
\* The fence create makes next is that of the next slot.
LEMMA NextFence ==
    ASSUME NEW n \in Slots, fences = 0 .. n - 1
    PROVE  /\ Cardinality(fences) = n
           /\ fences \cup {n} = 0 .. n
<1>1. n \in Nat
  BY DEF Slots
<1>2. Cardinality(0 .. n - 1) = IF 0 > n - 1 THEN 0 ELSE (n - 1) - 0 + 1
  BY <1>1, FS_Interval
<1>3. Cardinality(fences) = n
  BY <1>1, <1>2
<1> QED BY <1>1, <1>3

\* The ring of slots never leaves the ring.
LEMMA NextSlotInRing ==
    ASSUME NEW s \in Slots
    PROVE  NextSlot(s) \in Slots
BY FrameLoopAssumption DEF NextSlot, Slots

LEMMA InitIInv == Init => IInv
<1> SUFFICES ASSUME Init PROVE IInv
  OBVIOUS
<1>1. 0 \in Slots /\ 0 .. 0 - 1 = {}
  BY FrameLoopAssumption DEF Slots
<1> QED
  BY <1>1 DEF Init, IInv, TypeOK, Calls, SlotInv, FenceInv, ParametersKept,
     FencesOutliveJobs

LEMMA CreateFenceStep ==
    ASSUME IInv, CreateFence
    PROVE  IInv'
<1>1. PICK n \in Slots : fences = 0 .. n - 1
  BY DEF IInv, FenceInv, CreateFence
<1>2. fences' = 0 .. n
  BY <1>1, NextFence DEF CreateFence
<1>3. FenceInv'
  <2>1. n + 1 \in Slots \/ 0 .. n = Slots
    BY FrameLoopAssumption DEF Slots
  <2>2. n \in Int /\ (n + 1) - 1 = n
    BY DEF Slots
  <2> QED
    BY <1>2, <2>1, <2>2 DEF FenceInv, CreateFence, IInv
<1>4. fences' \in SUBSET Slots
  BY <1>2, FrameLoopAssumption DEF Slots
<1>5. TypeOK' /\ SlotInv' /\ ParametersKept'
  BY <1>4 DEF CreateFence, IInv, TypeOK, Calls, SlotInv, ParametersKept
<1>6. FencesOutliveJobs'
  BY DEF CreateFence, IInv, FenceInv, FencesOutliveJobs
<1> QED
  BY <1>3, <1>5, <1>6 DEF IInv

\* The fence was seen signalled, so the slot has no unfinished submission.
LEMMA OpenStep ==
    ASSUME IInv, OpenFrame
    PROVE  IInv'
<1> USE DEF IInv, OpenFrame, ResetFence
<1>1. \A j \in jobs : j.slot # currentFrameSlot
  BY DEF SlotInv
<1>2. TypeOK'
  BY DEF TypeOK, Calls
<1>3. SlotInv'
  BY <1>1 DEF SlotInv, TypeOK, Jobs
<1>4. FenceInv' /\ ParametersKept' /\ FencesOutliveJobs'
  BY DEF FenceInv, ParametersKept, FencesOutliveJobs
<1> QED
  BY <1>2, <1>3, <1>4

\* The caller writes only into the slot of its open frame.
LEMMA WriteStep ==
    ASSUME IInv, WriteParameters
    PROVE  IInv'
<1> USE DEF IInv, WriteParameters
<1>1. TypeOK'
  BY DEF TypeOK
<1>2. ParametersKept'
  BY DEF ParametersKept, SlotInv, TypeOK, Jobs
<1>3. SlotInv' /\ FenceInv' /\ FencesOutliveJobs'
  BY DEF SlotInv, FenceInv, FencesOutliveJobs
<1> QED
  BY <1>1, <1>2, <1>3

LEMMA SubmitStep ==
    ASSUME IInv, SubmitFrame
    PROVE  IInv'
<1> DEFINE job == [seq   |-> submitted,
                   slot  |-> currentFrameSlot,
                   reads |-> parameters[currentFrameSlot]]
<1> USE DEF IInv
<1>1. /\ jobs' = jobs \cup {job}
      /\ job \in Jobs
      /\ \A j \in jobs : j.slot # job.slot
      /\ ~signalled[job.slot]
  BY DEF SubmitFrame, SlotInv, TypeOK, Jobs
<1>2. /\ currentFrameSlot' \in Slots
      /\ call = "none" /\ ~isFrameOpen' /\ submitted' = submitted + 1
      /\ isFrameOpen' \in BOOLEAN
      /\ UNCHANGED <<call, fences, signalled, parameters, deviceLost>>
  BY NextSlotInRing DEF SubmitFrame, TypeOK
<1> HIDE DEF job
<1>3. TypeOK'
  BY <1>1, <1>2 DEF TypeOK
<1>4. SlotInv'
  BY <1>1, <1>2 DEF SlotInv
<1>5. FenceInv'
  BY <1>2 DEF FenceInv
<1>6. ParametersKept'
  <2>1. parameters[job.slot] = job.reads
    BY DEF job
  <2> QED
    BY <1>1, <1>2, <2>1 DEF ParametersKept
<1>7. FencesOutliveJobs'
  <2>1. job.slot \in fences
    BY <1>2 DEF job, FenceInv, TypeOK
  <2> QED
    BY <1>1, <1>2, <2>1 DEF FencesOutliveJobs
<1> QED
  BY <1>3, <1>4, <1>5, <1>6, <1>7

LEMMA ExecuteStep ==
    ASSUME IInv, NEW j \in jobs, ExecuteJob(j)
    PROVE  IInv'
<1> USE DEF IInv, ExecuteJob
<1>1. /\ j.slot \in Slots
      /\ \A k \in jobs' : k.slot # j.slot /\ k \in jobs /\ k.slot \in Slots
  BY DEF TypeOK, Jobs, SlotInv
<1>2. TypeOK'
  BY DEF TypeOK
<1>3. SlotInv'
  BY <1>1 DEF SlotInv, TypeOK
<1>4. FenceInv' /\ ParametersKept' /\ FencesOutliveJobs'
  BY DEF FenceInv, ParametersKept, FencesOutliveJobs
<1> QED
  BY <1>2, <1>3, <1>4

\* The other steps touch neither fences in use, submissions nor parameters.
LEMMA OtherStep ==
    ASSUME IInv,
           \/ CreateFenceFails \/ BeginFrame \/ FenceWaitFails \/ Destroy
           \/ DestroyFences \/ LoseDevice \/ Destroyed \/ UNCHANGED vars
    PROVE  IInv'
<1> USE DEF IInv, CreateFenceFails, BeginFrame, FenceWaitFails, Destroy,
            DestroyFences, LoseDevice, Destroyed, vars
<1>1. TypeOK'
  BY DEF TypeOK, Calls
<1>2. SlotInv' /\ ParametersKept'
  BY DEF SlotInv, ParametersKept
<1>3. FenceInv'
  BY DEF FenceInv
<1>4. FencesOutliveJobs'
  BY DEF FencesOutliveJobs, FenceInv, QueueIdle
<1> QED
  BY <1>1, <1>2, <1>3, <1>4

LEMMA NextIInv == IInv /\ [Next]_vars => IInv'
BY CreateFenceStep, OpenStep, WriteStep, SubmitStep, ExecuteStep, OtherStep
   DEF Next, RenderThread, Caller, Execute

-----------------------------------------------------------------------------
(***************************************************************************)
(* Refinement: the unfinished submissions occupy distinct slots, so there  *)
(* are fewer than FramesInFlight of them when the current slot is free.    *)
(***************************************************************************)
LEMMA JobsFinite ==
    ASSUME IInv
    PROVE  IsFiniteSet(jobs) /\ Cardinality(jobs) \in Nat
<1> DEFINE slotOf == [j \in jobs |-> j.slot]
<1>1. IsFiniteSet(Slots)
  BY FS_Interval, FrameLoopAssumption DEF Slots
<1>2. slotOf \in Injection(jobs, Slots)
  BY DEF IInv, TypeOK, Jobs, SlotInv, Injection, IsInjective
<1>3. IsFiniteSet(jobs)
  BY <1>1, <1>2, FS_Injection
<1> QED
  BY <1>3, FS_CardinalityType

LEMMA FreeSlotBound ==
    ASSUME IInv, \A j \in jobs : j.slot # currentFrameSlot
    PROVE  Cardinality(jobs) < FramesInFlight
<1> DEFINE others == Slots \ {currentFrameSlot}
           slotOf == [j \in jobs |-> j.slot]
<1>1. IsFiniteSet(Slots) /\ Cardinality(Slots) = FramesInFlight
  BY FS_Interval, FrameLoopAssumption DEF Slots
<1>2. IsFiniteSet(others) /\ Cardinality(others) = FramesInFlight - 1
  BY <1>1, FS_RemoveElement DEF IInv, TypeOK
<1>3. slotOf \in Injection(jobs, others)
  BY DEF IInv, TypeOK, Jobs, SlotInv, Injection, IsInjective
<1>4. Cardinality(jobs) <= Cardinality(others)
  BY <1>2, <1>3, FS_Injection
<1> QED
  BY <1>2, <1>4, JobsFinite, FrameLoopAssumption

LEMMA PacingStep ==
    ASSUME IInv, [Next]_vars
    PROVE  [Pacing!Next]_(Pacing!pacingVars)
<1> DEFINE finished == submitted - Cardinality(jobs)
<1> USE JobsFinite, FrameLoopAssumption DEF Pacing!pacingVars
<1>1. submitted \in Nat
  BY DEF IInv, TypeOK
<1>2. CASE OpenFrame
  <2>1. /\ ~isFrameOpen /\ isFrameOpen' = TRUE
        /\ \A j \in jobs : j.slot # currentFrameSlot
        /\ UNCHANGED <<submitted, jobs>>
    BY <1>2 DEF OpenFrame, IInv, SlotInv
  <2>2. submitted - finished < FramesInFlight
    BY <1>1, <2>1, FreeSlotBound
  <2> QED
    BY <2>1, <2>2 DEF Pacing!Open, Pacing!Next
<1>3. CASE SubmitFrame
  <2> DEFINE job == [seq   |-> submitted,
                     slot  |-> currentFrameSlot,
                     reads |-> parameters[currentFrameSlot]]
  <2>1. /\ isFrameOpen /\ isFrameOpen' = FALSE
        /\ submitted' = submitted + 1
        /\ jobs' = jobs \cup {job}
    BY <1>3 DEF SubmitFrame
  <2>2. job \notin jobs
    BY <2>1 DEF IInv, SlotInv
  <2>3. Cardinality(jobs') = Cardinality(jobs) + 1
    BY <2>1, <2>2, FS_AddElement
  <2>4. finished' = finished
    BY <1>1, <2>1, <2>3
  <2> QED
    BY <2>1, <2>4 DEF Pacing!Submit, Pacing!Next
<1>4. ASSUME NEW j \in jobs, ExecuteJob(j)
      PROVE  Pacing!Next
  <2>1. /\ jobs' = jobs \ {j}
        /\ UNCHANGED <<isFrameOpen, submitted>>
    BY <1>4 DEF ExecuteJob
  <2>2. Cardinality(jobs') = Cardinality(jobs) - 1
    BY <2>1, FS_RemoveElement
  <2>3. Cardinality(jobs) # 0
    BY FS_EmptySet
  <2>4. finished < submitted /\ finished' = finished + 1
    BY <1>1, <2>1, <2>2, <2>3
  <2> QED
    BY <2>1, <2>4 DEF Pacing!Complete, Pacing!Next
<1>5. CASE \/ CreateFence \/ CreateFenceFails \/ BeginFrame \/ FenceWaitFails
           \/ WriteParameters \/ Destroy \/ DestroyFences \/ LoseDevice
           \/ Destroyed \/ UNCHANGED vars
  BY <1>5 DEF CreateFence, CreateFenceFails, BeginFrame, FenceWaitFails,
     WriteParameters, Destroy, DestroyFences, LoseDevice, Destroyed, vars
<1> QED
  BY <1>2, <1>3, <1>4, <1>5 DEF Next, RenderThread, Caller, Execute

-----------------------------------------------------------------------------
\* The invariant that carries the others.
THEOREM LoopInvariance == Spec => []IInv
BY InitIInv, NextIInv, PTL DEF Spec

\* Every variable of the loop is always of its type.
THEOREM LoopTypeCorrect == Spec => []TypeOK
<1>1. IInv => TypeOK
  BY DEF IInv
<1> QED
  BY <1>1, LoopInvariance, PTL

\* The memory of a slot is stable while the device may read it.
THEOREM ParametersSafe == Spec => []ParametersKept
<1>1. IInv => ParametersKept
  BY DEF IInv
<1> QED
  BY <1>1, LoopInvariance, PTL

\* Fences live as long as the submissions that signal them, and no longer
\* than the loop.
THEOREM FencesSafe == Spec => []FencesOutliveJobs
<1>1. IInv => FencesOutliveJobs
  BY DEF IInv
<1> QED
  BY <1>1, LoopInvariance, PTL

\* The loop implements FramePacing, as the presentation runtime does.
THEOREM LoopRefinement == Spec => PacesFrames
<1>1. Init => Pacing!Init
  BY FS_EmptySet DEF Init, Pacing!Init
<1>2. IInv /\ [Next]_vars => [Pacing!Next]_(Pacing!pacingVars)
  BY PacingStep
<1> QED
  BY <1>1, <1>2, LoopInvariance, PTL DEF Spec, PacesFrames, Pacing!Spec
=============================================================================
