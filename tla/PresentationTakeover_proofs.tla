--------------------- MODULE PresentationTakeover_proofs ---------------------
(***************************************************************************)
(* Proofs, for any number of generations, that the takeover never puts a   *)
(* second swapchain beside a Native runtime, also one whose destruction    *)
(* failed (beside the orphan of a create that threw it may), owns exactly  *)
(* the runtimes that live, and keeps the contract of a runtime and of the  *)
(* host.                                                                   *)
(***************************************************************************)
EXTENDS PresentationTakeover, FiniteSetTheorems, TLAPS

\* Generations are created in order, and start closed and not retired.
GenerationInv ==
    /\ \E n \in 0 .. MaxGenerations : Created = 1 .. n
    /\ \A g \in Generations :
          swapchain[g] = "absent" => ~nativeFrame[g] /\ ~retired[g]

Candidacy == {"primeBegin", "primeSubmit", "reject"}

\* What holds inside configure.
ConfigureInv ==
    /\ candidate # None <=> step \in Candidacy
    /\ step # "none" => ~isFrameOpen /\ hostFrame = "idle" /\ ~isClosed
    /\ step \in Candidacy \cup {"create"} =>
          /\ attached
          /\ runtime = None
          /\ ~isTakenOver
          /\ ~isGenerationFatal
          /\ ~requiresReconfiguration
          /\ ~isTakeoverPermanentlyDisabled
          /\ ~isTerminallyIntercepting
          /\ ~vanillaSwapchain
    /\ step = "primeBegin" => ~nativeFrame[candidate] /\ ~retired[candidate]
    /\ step = "primeSubmit" => ~retired[candidate]

\* Who owns the surface: the three ends of the policy exclude each other.
OwnerInv ==
    /\ (\E g \in Generations : swapchain[g] = "uncertain") =>
          isTerminallyIntercepting \/ isClosed
    /\ (\E g \in Generations : swapchain[g] = "orphaned") =>
          isTakeoverPermanentlyDisabled /\ runtime = None
    /\ isTerminallyIntercepting =>
          /\ attached /\ isTakenOver /\ isTakeoverPermanentlyDisabled
          /\ runtime = None /\ step = "none" /\ ~vanillaSwapchain
    /\ vanillaSwapchain \/ step = "vanilla" =>
          /\ attached => isTakeoverPermanentlyDisabled
          /\ runtime = None /\ ~isTakenOver /\ ~isTerminallyIntercepting
    /\ ~attached => runtime = None /\ ~isTakenOver /\ candidate = None
    /\ runtime # None => isTakenOver
    /\ isFrameOpen => runtime # None
    /\ isClosed => ~attached /\ ~vanillaSwapchain /\ step = "none"

\* What the host and the runtime of the current generation may rely on.
FrameInv ==
    /\ FrameFlagsAgree
    /\ hostFrame = "idle" => ~isFrameOpen \/ ~IsHealthy
    /\ step = "none" /\ Intercepts =>
          swapchainSuboptimal = requiresReconfiguration
    /\ IsHealthy /\ retired[runtime] => requiresReconfiguration
    /\ ~IsHealthy /\ isTakenOver /\ ~isTerminallyIntercepting =>
          isGenerationFatal

IInv ==
    /\ TypeOK
    /\ GenerationInv
    /\ ConfigureInv
    /\ OwnerInv
    /\ OwnsWhatLives
    /\ SwapchainExclusive
    /\ HostHasSwapchain
    /\ FrameInv

-----------------------------------------------------------------------------
\* The next generation is a new one, within the bound while one is left.
LEMMA NextGenerationFresh ==
    ASSUME GenerationInv, Cardinality(Created) < MaxGenerations
    PROVE  /\ NextGeneration \in Generations
           /\ swapchain[NextGeneration] = "absent"
           /\ \E n \in 0 .. MaxGenerations :
                 Created \cup {NextGeneration} = 1 .. n
<1>1. PICK n \in 0 .. MaxGenerations : Created = 1 .. n
  BY DEF GenerationInv
<1>2. n \in Nat /\ Cardinality(Created) = n
  BY <1>1, FS_Interval, TakeoverAssumption
<1>3. NextGeneration = n + 1 /\ n < MaxGenerations
  BY <1>2 DEF NextGeneration
<1>4. NextGeneration \in Generations /\ NextGeneration \notin Created
  BY <1>1, <1>2, <1>3, TakeoverAssumption DEF Generations
<1>5. Created \cup {NextGeneration} = 1 .. (n + 1)
  BY <1>1, <1>2, <1>3
<1>6. n + 1 \in 0 .. MaxGenerations
  BY <1>2, <1>3, TakeoverAssumption
<1> QED
  BY <1>4, <1>5, <1>6 DEF Created

LEMMA InitIInv == Init => IInv
<1> SUFFICES ASSUME Init PROVE IInv
  OBVIOUS
<1>1. TypeOK
  BY DEF Init, TypeOK, Steps, Lifetimes
<1>2. GenerationInv
  <2>1. Created = {} /\ {} = 1 .. 0
    BY DEF Init, Created
  <2> QED
    BY <2>1, TakeoverAssumption DEF Init, GenerationInv
<1>3. ConfigureInv /\ OwnerInv /\ HostHasSwapchain
  BY DEF Init, ConfigureInv, Candidacy, OwnerInv, HostHasSwapchain
<1>4. OwnsWhatLives /\ SwapchainExclusive
  BY DEF Init, OwnsWhatLives, SwapchainExclusive, MayExist
<1>5. FrameInv
  BY DEF Init, FrameInv, FrameFlagsAgree, IsHealthy, Intercepts
<1> QED
  BY <1>1, <1>2, <1>3, <1>4, <1>5 DEF IInv

\* What a begin or submit call on one runtime leaves behind.
NativeCallEffect(g, outcome) ==
    /\ nativeFrame' \in [Generations -> BOOLEAN]
    /\ retired' \in [Generations -> BOOLEAN]
    /\ swapchain' = swapchain
    /\ retired'[g] <=> retired[g] \/ outcome = "RECREATE_REQUIRED"
    /\ \A h \in Generations : h # g =>
          (nativeFrame'[h] <=> nativeFrame[h]) /\ (retired'[h] <=> retired[h])

LEMMA BeginEffect ==
    ASSUME TypeOK, NEW g \in Generations, NEW outcome \in Outcomes,
           NativeBegin(g, outcome)
    PROVE  /\ NativeCallEffect(g, outcome)
           /\ outcome # "FAILURE" => (nativeFrame'[g] <=> OpensFrame(outcome))
<1>1. PICK open \in BOOLEAN :
        /\ outcome # "FAILURE" => open = (outcome \in {"SUCCESS", "SUBOPTIMAL"})
        /\ nativeFrame' = [nativeFrame EXCEPT ![g] = open]
  BY DEF NativeBegin
<1>2. /\ retired' = [retired EXCEPT ![g] = @ \/ outcome = "RECREATE_REQUIRED"]
      /\ swapchain' = swapchain
  BY DEF NativeBegin
<1>3. nativeFrame \in [Generations -> BOOLEAN] /\ retired \in [Generations -> BOOLEAN]
  BY DEF TypeOK
<1>4. nativeFrame'[g] = open
  BY <1>1, <1>3
<1>5. NativeCallEffect(g, outcome)
  BY <1>1, <1>2, <1>3 DEF NativeCallEffect
<1> QED
  BY <1>1, <1>4, <1>5 DEF OpensFrame

LEMMA SubmitEffect ==
    ASSUME TypeOK, NEW g \in Generations, NEW outcome \in Outcomes,
           NativeSubmit(g, outcome)
    PROVE  /\ NativeCallEffect(g, outcome)
           /\ outcome # "FAILURE" => ~nativeFrame'[g]
<1>1. PICK open \in BOOLEAN :
        /\ outcome # "FAILURE" => ~open
        /\ nativeFrame' = [nativeFrame EXCEPT ![g] = open]
  BY DEF NativeSubmit
<1>2. /\ retired' = [retired EXCEPT ![g] = @ \/ outcome = "RECREATE_REQUIRED"]
      /\ swapchain' = swapchain
  BY DEF NativeSubmit
<1>3. nativeFrame \in [Generations -> BOOLEAN] /\ retired \in [Generations -> BOOLEAN]
  BY DEF TypeOK
<1>4. nativeFrame'[g] = open
  BY <1>1, <1>3
<1>5. NativeCallEffect(g, outcome)
  BY <1>1, <1>2, <1>3 DEF NativeCallEffect
<1> QED
  BY <1>1, <1>4, <1>5

-----------------------------------------------------------------------------
\* The parts of the invariant that are about ownership hold as long as nothing
\* they mention changes.
LEMMA OwnershipStable ==
    ASSUME IInv,
           UNCHANGED <<attached, runtime, isTakenOver, isTerminallyIntercepting,
                       configureVars, swapchain, isConfigured, isClosed,
                       vanillaSwapchain>>
    PROVE  /\ OwnsWhatLives' /\ SwapchainExclusive' /\ HostHasSwapchain'
           /\ Created' = Created
  BY DEF IInv, OwnsWhatLives, SwapchainExclusive, MayExist, HostHasSwapchain,
     Intercepts, Created, configureVars

\* A Native frame call: only the frame and the failure flags change.
NativeFrameCall(outcome) ==
    AcquireNative(outcome) \/ PresentNative(outcome)

LEMMA NativeFrameStep ==
    ASSUME IInv, NEW outcome \in Outcomes, NativeFrameCall(outcome)
    PROVE  IInv'
<1> USE DEF IInv
<1>1. /\ runtime \in Generations /\ runtime # None
      /\ ~isClosed /\ attached /\ isTakenOver /\ ~isGenerationFatal
      /\ UNCHANGED <<configureVars, isConfigured, isClosed, vanillaSwapchain,
                     attached, runtime, isTakenOver, isTerminallyIntercepting>>
      /\ RecordOutcome(outcome)
  BY DEF NativeFrameCall, AcquireNative, PresentNative, IsHealthy, TypeOK,
     HostMayAcquire, HostFrame, RecordOutcome
<1>2. step = "none"
  BY DEF NativeFrameCall, AcquireNative, PresentNative, HostMayAcquire,
     ConfigureInv
<1>3. /\ NativeCallEffect(runtime, outcome)
      /\ outcome # "FAILURE" => (isFrameOpen' <=> nativeFrame'[runtime])
      /\ isFrameOpen' \in BOOLEAN
      /\ hostFrame' = "idle" => ~isFrameOpen'
      /\ hostFrame' \in {"idle", "acquired", "blitted"}
  <2>1. CASE AcquireNative(outcome)
    <3>1. /\ NativeCallEffect(runtime, outcome)
          /\ outcome # "FAILURE" => (nativeFrame'[runtime] <=> OpensFrame(outcome))
      BY <1>1, <2>1, BeginEffect DEF AcquireNative
    <3>2. hostFrame' = "acquired"
      BY <2>1 DEF AcquireNative, HostFrame
    <3>3. isFrameOpen' = OpensFrame(outcome)
      BY <2>1 DEF AcquireNative
    <3>4. OpensFrame(outcome) \in BOOLEAN
      BY DEF OpensFrame
    <3>5. (isFrameOpen' <=> OpensFrame(outcome)) /\ isFrameOpen' \in BOOLEAN
      BY <3>3, <3>4, Zenon
    <3> QED
      BY <3>1, <3>2, <3>5
  <2>2. CASE PresentNative(outcome)
    BY <1>1, <2>2, SubmitEffect DEF PresentNative, HostFrame
  <2> QED
    BY <2>1, <2>2 DEF NativeFrameCall
<1>4. swapchain' = swapchain
  BY <1>3 DEF NativeCallEffect
<1>5. TypeOK'
  BY <1>1, <1>3, <1>4
     DEF TypeOK, NativeCallEffect, RecordOutcome, Reconfigures, DisablesTakeover,
         configureVars
<1>6. OwnsWhatLives' /\ SwapchainExclusive' /\ HostHasSwapchain'
        /\ Created' = Created
  BY <1>1, <1>4, OwnershipStable
<1>7. GenerationInv'
  <2>1. swapchain[runtime] = "live"
    BY <1>1 DEF OwnsWhatLives, Generations, None
  <2> QED
    BY <1>3, <1>4, <1>6, <2>1 DEF GenerationInv, NativeCallEffect
<1>8. ConfigureInv' /\ OwnerInv'
  BY <1>1, <1>2, <1>4
     DEF ConfigureInv, OwnerInv, Candidacy, RecordOutcome, configureVars
<1>9. FrameInv'
  BY <1>1, <1>3
     DEF FrameInv, FrameFlagsAgree, IsHealthy, Intercepts, RecordOutcome,
         Reconfigures, NativeCallEffect, TypeOK
<1> QED
  BY <1>5, <1>6, <1>7, <1>8, <1>9

\* A frame call without a Native call: Minecraft goes on to its next phase.
QuietFrameCall ==
    AcquireNothing \/ AcquireVanilla \/ Blit \/ PresentNothing \/ PresentVanilla

LEMMA QuietFrameStep ==
    ASSUME IInv, QuietFrameCall
    PROVE  IInv'
<1> USE DEF IInv
<1>1. /\ UNCHANGED <<coordinatorVars, nativeVars, configureVars, isConfigured,
                     isClosed, vanillaSwapchain>>
      /\ hostFrame' \in {"idle", "acquired", "blitted"}
      /\ ~isClosed
  BY DEF QuietFrameCall, AcquireNothing, AcquireVanilla, Blit, PresentNothing,
     PresentVanilla, HostMayAcquire, HostFrame
<1>2. step = "none"
  BY DEF QuietFrameCall, AcquireNothing, AcquireVanilla, Blit, PresentNothing,
     PresentVanilla, HostMayAcquire, ConfigureInv
<1>3. swapchainSuboptimal' \in BOOLEAN
  BY DEF QuietFrameCall, AcquireNothing, AcquireVanilla, Blit, PresentNothing,
     PresentVanilla, TypeOK
<1>4. Intercepts => swapchainSuboptimal' = requiresReconfiguration
  BY <1>2 DEF QuietFrameCall, AcquireNothing, AcquireVanilla, Blit,
     PresentNothing, PresentVanilla, FrameInv
<1>5. hostFrame' = "idle" => ~isFrameOpen \/ ~IsHealthy
  BY DEF QuietFrameCall, AcquireNothing, AcquireVanilla, Blit, PresentNothing,
     PresentVanilla, HostFrame, Intercepts, IsHealthy, OwnerInv
<1>6. UNCHANGED <<attached, runtime, isTakenOver, isTerminallyIntercepting,
                  isFrameOpen, requiresReconfiguration, isGenerationFatal,
                  isTakeoverPermanentlyDisabled, swapchain, nativeFrame, retired>>
  BY <1>1 DEF coordinatorVars, nativeVars
<1>7. TypeOK'
  BY <1>1, <1>3, <1>6 DEF TypeOK, configureVars
<1>8. OwnsWhatLives' /\ SwapchainExclusive' /\ HostHasSwapchain'
        /\ Created' = Created
  BY <1>1, <1>6, OwnershipStable
<1>9. GenerationInv'
  BY <1>6, <1>8 DEF GenerationInv
<1>10. ConfigureInv' /\ OwnerInv'
  BY <1>1, <1>2, <1>6 DEF ConfigureInv, OwnerInv, Candidacy, configureVars
<1>11. FrameInv'
  BY <1>1, <1>4, <1>5, <1>6
     DEF FrameInv, FrameFlagsAgree, IsHealthy, Intercepts
<1> QED
  BY <1>7, <1>8, <1>9, <1>10, <1>11

-----------------------------------------------------------------------------
\* A destroy call ends the life of the runtime it is made on, and of no other.
LEMMA DestroyEffect ==
    ASSUME TypeOK, NEW g \in Generations, NEW succeeds \in BOOLEAN,
           swapchain[g] = "live", NativeDestroy(g, succeeds)
    PROVE  /\ swapchain' \in [Generations -> Lifetimes]
           /\ Created' = Created
           /\ swapchain'[g] = IF succeeds THEN "destroyed" ELSE "uncertain"
           /\ \A h \in Generations : h # g => swapchain'[h] = swapchain[h]
           /\ \A h \in Generations :
                 swapchain'[h] = "live" <=> swapchain[h] = "live" /\ h # g
<1>1. swapchain \in [Generations -> Lifetimes]
  BY DEF TypeOK
<1>2. swapchain' = [swapchain EXCEPT ![g] = IF succeeds THEN "destroyed"
                                                       ELSE "uncertain"]
  BY DEF NativeDestroy
<1>3. /\ swapchain' \in [Generations -> Lifetimes]
      /\ swapchain'[g] = IF succeeds THEN "destroyed" ELSE "uncertain"
      /\ \A h \in Generations : h # g => swapchain'[h] = swapchain[h]
  BY <1>1, <1>2 DEF Lifetimes
<1> QED
  BY <1>3 DEF Created

\* The runtimes the coordinator refers to are alive, and no swapchain but
\* theirs is.
LEMMA OwnedIsLive ==
    ASSUME TypeOK, OwnsWhatLives
    PROVE  \A g \in Generations : swapchain[g] = "live" <=> g \in {runtime, candidate}
BY TakeoverAssumption DEF OwnsWhatLives, Generations, None

\* While the coordinator may still use the surface, no destruction has failed;
\* while it may still create a runtime, no creation has thrown.
LEMMA NothingUncertain ==
    ASSUME IInv, attached, ~isTerminallyIntercepting
    PROVE  \A g \in Generations :
              /\ swapchain[g] # "uncertain"
              /\ swapchain[g] = "orphaned" => isTakeoverPermanentlyDisabled
BY DEF IInv, OwnerInv

LEMMA ConfigureWithoutCoordinatorStep ==
    ASSUME IInv, ConfigureWithoutCoordinator
    PROVE  IInv'
<1> USE DEF IInv
<1>1. /\ ~isClosed /\ step = "none" /\ hostFrame = "idle" /\ ~attached
      /\ step' = "vanilla" /\ isConfigured' = TRUE
      /\ UNCHANGED <<coordinatorVars, candidate, candidateRequiresReconfiguration,
                     nativeVars, isClosed, vanillaSwapchain, swapchainSuboptimal,
                     hostFrame>>
  BY DEF ConfigureWithoutCoordinator, HostMayConfigure
<1>2. UNCHANGED <<attached, runtime, isTakenOver, isTerminallyIntercepting,
                  isFrameOpen, requiresReconfiguration, isGenerationFatal,
                  isTakeoverPermanentlyDisabled, swapchain, nativeFrame, retired>>
  BY <1>1 DEF coordinatorVars, nativeVars
<1>3. TypeOK'
  BY <1>1, <1>2 DEF TypeOK, Steps
<1>4. GenerationInv'
  BY <1>2 DEF GenerationInv, Created
<1>5. OwnsWhatLives' /\ SwapchainExclusive' /\ HostHasSwapchain'
  BY <1>1, <1>2 DEF OwnsWhatLives, SwapchainExclusive, MayExist, HostHasSwapchain
<1>6. ~isFrameOpen
  BY <1>1 DEF OwnerInv
<1>7. ConfigureInv' /\ OwnerInv'
  BY <1>1, <1>2, <1>6 DEF ConfigureInv, OwnerInv, Candidacy
<1>8. FrameInv'
  BY <1>1, <1>2 DEF FrameInv, FrameFlagsAgree, IsHealthy, Intercepts
<1> QED
  BY <1>3, <1>4, <1>5, <1>7, <1>8

LEMMA ConfigureWhileInterceptingStep ==
    ASSUME IInv, ConfigureWhileIntercepting
    PROVE  IInv'
<1> USE DEF IInv
<1>1. /\ ~isClosed /\ step = "none" /\ hostFrame = "idle" /\ attached
      /\ isTerminallyIntercepting
      /\ isFrameOpen' = FALSE /\ requiresReconfiguration' = FALSE
      /\ UNCHANGED <<attached, runtime, isTakenOver, isTerminallyIntercepting,
                     isGenerationFatal, isTakeoverPermanentlyDisabled,
                     isClosed, vanillaSwapchain, hostFrame>>
      /\ UNCHANGED <<swapchain, nativeFrame, retired>>
      /\ step' = "none" /\ candidate' = None
      /\ candidateRequiresReconfiguration' = FALSE
      /\ swapchainSuboptimal' = FALSE /\ isConfigured' = TRUE
  BY DEF ConfigureWhileIntercepting, HostMayConfigure, LeaveConfigure, nativeVars
<1>2. TypeOK'
  BY <1>1 DEF TypeOK, Steps
<1>3. GenerationInv'
  BY <1>1 DEF GenerationInv, Created
<1>4. /\ candidate = None
      /\ runtime = None /\ isTakenOver /\ ~vanillaSwapchain
  BY <1>1 DEF ConfigureInv, OwnerInv, Candidacy
<1>5. OwnsWhatLives' /\ SwapchainExclusive' /\ HostHasSwapchain'
  BY <1>1, <1>4
     DEF OwnsWhatLives, SwapchainExclusive, MayExist, HostHasSwapchain, Intercepts
<1>6. ConfigureInv' /\ OwnerInv'
  BY <1>1, <1>4 DEF ConfigureInv, OwnerInv, Candidacy
<1>7. FrameInv'
  BY <1>1, <1>4 DEF FrameInv, FrameFlagsAgree, IsHealthy, Intercepts
<1> QED
  BY <1>2, <1>3, <1>5, <1>6, <1>7

LEMMA OldRuntimeCloseFailsStep ==
    ASSUME IInv, OldRuntimeCloseFails
    PROVE  IInv'
<1> USE DEF IInv
<1>1. /\ ~isClosed /\ step = "none" /\ hostFrame = "idle" /\ attached
      /\ ~isTerminallyIntercepting
      /\ runtime # None /\ NativeDestroy(runtime, FALSE)
      /\ UNCHANGED <<attached, isGenerationFatal, isClosed, vanillaSwapchain,
                     hostFrame, nativeFrame, retired>>
      /\ runtime' = None /\ isTakeoverPermanentlyDisabled' = TRUE
      /\ isTakenOver' = TRUE /\ requiresReconfiguration' = FALSE
      /\ isTerminallyIntercepting' = TRUE /\ isFrameOpen' = FALSE
      /\ step' = "none" /\ candidate' = None
      /\ candidateRequiresReconfiguration' = FALSE
      /\ swapchainSuboptimal' = FALSE /\ isConfigured' = TRUE
  BY DEF OldRuntimeCloseFails, HostMayConfigure, LeaveConfigure,
     InterceptTerminally
<1>2. /\ candidate = None /\ ~vanillaSwapchain
      /\ runtime \in Generations
  BY <1>1 DEF ConfigureInv, OwnerInv, Candidacy, TypeOK
<1>3. swapchain[runtime] = "live"
  BY <1>2, OwnedIsLive
<1>4. /\ swapchain' \in [Generations -> Lifetimes]
      /\ Created' = Created
      /\ swapchain'[runtime] = "uncertain"
      /\ \A h \in Generations : h # runtime => swapchain'[h] = swapchain[h]
      /\ \A h \in Generations :
            swapchain'[h] = "live" <=> swapchain[h] = "live" /\ h # runtime
  BY <1>1, <1>2, <1>3, DestroyEffect
<1>5. TypeOK'
  BY <1>1, <1>4 DEF TypeOK, Steps
<1>6. GenerationInv'
  BY <1>1, <1>2, <1>4 DEF GenerationInv
<1>7. OwnsWhatLives'
  BY <1>1, <1>2, <1>4, OwnedIsLive DEF OwnsWhatLives
<1>8. SwapchainExclusive'
  BY <1>1, <1>2, <1>3, <1>4 DEF SwapchainExclusive, MayExist
<1>9. HostHasSwapchain'
  BY <1>1, <1>2 DEF HostHasSwapchain, Intercepts
<1>10. ConfigureInv' /\ OwnerInv'
  BY <1>1, <1>2 DEF ConfigureInv, OwnerInv, Candidacy
<1>11. FrameInv'
  BY <1>1, <1>2 DEF FrameInv, FrameFlagsAgree, IsHealthy, Intercepts
<1> QED
  BY <1>5, <1>6, <1>7, <1>8, <1>9, <1>10, <1>11

LEMMA ConfigureStep ==
    ASSUME IInv, NEW inputsReady \in BOOLEAN, Configure(inputsReady)
    PROVE  IInv'
<1> USE DEF IInv
<1>1. /\ ~isClosed /\ step = "none" /\ hostFrame = "idle" /\ attached
      /\ ~isTerminallyIntercepting
      /\ UNCHANGED <<attached, isTerminallyIntercepting, nativeFrame, retired>>
      /\ runtime' = None /\ isTakenOver' = FALSE /\ isFrameOpen' = FALSE
      /\ requiresReconfiguration' = FALSE /\ isGenerationFatal' = FALSE
      /\ isTakeoverPermanentlyDisabled' =
           (isTakeoverPermanentlyDisabled \/ ~inputsReady)
  BY DEF Configure, HostMayConfigure
<1>2. candidate = None
  BY <1>1 DEF ConfigureInv, Candidacy
<1>3. \/ /\ isTakeoverPermanentlyDisabled'
         /\ step' = "vanilla" /\ candidate' = None
         /\ candidateRequiresReconfiguration' = FALSE
         /\ swapchainSuboptimal' = FALSE /\ isConfigured' = TRUE
         /\ UNCHANGED <<isClosed, vanillaSwapchain, hostFrame>>
      \/ /\ ~isTakeoverPermanentlyDisabled'
         /\ step' = "create"
         /\ UNCHANGED <<candidate, candidateRequiresReconfiguration, hostVars>>
  BY <1>1 DEF Configure, LeaveConfigure
<1>4. /\ swapchain' \in [Generations -> Lifetimes]
      /\ Created' = Created
      /\ \A h \in Generations : swapchain'[h] \notin {"live", "uncertain"}
      /\ \A h \in Generations : swapchain'[h] \in {"absent", "orphaned"} =>
            swapchain[h] = swapchain'[h]
  <2>1. \A h \in Generations : swapchain[h] # "uncertain"
    BY <1>1, NothingUncertain
  <2>2. CASE runtime = None
    <3>1. swapchain' = swapchain
      BY <2>2 DEF Configure
    <3>2. \A h \in Generations : swapchain[h] # "live"
      BY <1>2, <2>2, OwnedIsLive, TakeoverAssumption DEF Generations, None
    <3> QED
      BY <2>1, <3>1, <3>2 DEF Created, TypeOK
  <2>3. CASE runtime # None
    <3>1. runtime \in Generations /\ NativeDestroy(runtime, TRUE)
      BY <2>3 DEF Configure, TypeOK
    <3>2. swapchain[runtime] = "live"
      BY <3>1, OwnedIsLive
    <3>3. /\ swapchain' \in [Generations -> Lifetimes]
          /\ Created' = Created
          /\ swapchain'[runtime] = "destroyed"
          /\ \A h \in Generations : h # runtime => swapchain'[h] = swapchain[h]
      BY <3>1, <3>2, DestroyEffect
    <3>4. \A h \in Generations : h # runtime => swapchain[h] # "live"
      BY <1>2, OwnedIsLive, TakeoverAssumption DEF Generations, None
    <3> QED
      BY <2>1, <3>3, <3>4
  <2> QED
    BY <2>2, <2>3
<1>5. TypeOK'
  BY <1>1, <1>3, <1>4 DEF TypeOK, Steps, hostVars
<1>6. GenerationInv'
  BY <1>1, <1>4 DEF GenerationInv
<1>7. OwnsWhatLives' /\ SwapchainExclusive'
  <2>1. candidate' = None
    BY <1>2, <1>3
  <2> QED
    BY <1>1, <1>4, <2>1 DEF OwnsWhatLives, SwapchainExclusive, MayExist
<1>8. HostHasSwapchain'
  BY <1>3 DEF HostHasSwapchain
<1>9. ConfigureInv' /\ OwnerInv'
  <2>1. vanillaSwapchain => isTakeoverPermanentlyDisabled'
    BY <1>1 DEF OwnerInv
  <2>2. (\E g \in Generations : swapchain'[g] = "orphaned") =>
          isTakeoverPermanentlyDisabled'
    BY <1>1, <1>4 DEF OwnerInv
  <2>3. ConfigureInv'
    BY <1>1, <1>2, <1>3, <1>4, <2>1 DEF ConfigureInv, Candidacy, hostVars
  <2>4. OwnerInv'
    BY <1>1, <1>2, <1>3, <1>4, <2>1, <2>2 DEF OwnerInv, hostVars
  <2> QED
    BY <2>3, <2>4
<1>10. FrameInv'
  BY <1>1, <1>3 DEF FrameInv, FrameFlagsAgree, IsHealthy, Intercepts
<1> QED
  BY <1>5, <1>6, <1>7, <1>8, <1>9, <1>10

\* What is known while a candidate is being created.
LEMMA WhileConfiguring ==
    ASSUME IInv, step \in Candidacy \cup {"create"}
    PROVE  /\ attached /\ runtime = None /\ ~isTakenOver /\ ~isGenerationFatal
           /\ ~requiresReconfiguration /\ ~isTakeoverPermanentlyDisabled
           /\ ~isTerminallyIntercepting /\ ~vanillaSwapchain
           /\ ~isFrameOpen /\ hostFrame = "idle" /\ ~isClosed
           /\ step = "create" => candidate = None
           /\ step \in Candidacy =>
                 candidate \in Generations /\ swapchain[candidate] = "live"
           /\ \A g \in Generations :
                 /\ swapchain[g] \notin {"uncertain", "orphaned"}
                 /\ swapchain[g] = "live" <=> g = candidate
<1> USE DEF IInv
<1>1. /\ attached /\ runtime = None /\ ~isTakenOver /\ ~isGenerationFatal
      /\ ~requiresReconfiguration /\ ~isTakeoverPermanentlyDisabled
      /\ ~isTerminallyIntercepting /\ ~vanillaSwapchain
      /\ ~isFrameOpen /\ hostFrame = "idle" /\ ~isClosed
  BY DEF ConfigureInv, Candidacy
<1>2. step = "create" => candidate = None
  BY DEF ConfigureInv, Candidacy
<1>3. step \in Candidacy => candidate \in Generations
  BY DEF ConfigureInv, TypeOK
<1>4. \A g \in Generations : swapchain[g] = "live" <=> g = candidate
  BY <1>1, OwnedIsLive, TakeoverAssumption DEF Generations, None
<1>5. \A g \in Generations : swapchain[g] \notin {"uncertain", "orphaned"}
  BY <1>1, NothingUncertain
<1> QED
  BY <1>1, <1>2, <1>3, <1>4, <1>5

LEMMA CreateCandidateFailsStep ==
    ASSUME IInv, CreateCandidateFails
    PROVE  IInv'
<1> USE DEF IInv
<1>1. step = "create"
  BY DEF CreateCandidateFails
<1>2. /\ isTakeoverPermanentlyDisabled' = TRUE
      /\ UNCHANGED <<attached, runtime, isTakenOver, isFrameOpen,
                     requiresReconfiguration, isGenerationFatal,
                     isTerminallyIntercepting, isClosed, vanillaSwapchain,
                     hostFrame>>
      /\ UNCHANGED <<swapchain, nativeFrame, retired>>
      /\ step' = "vanilla" /\ candidate' = None
      /\ candidateRequiresReconfiguration' = FALSE
      /\ swapchainSuboptimal' = requiresReconfiguration /\ isConfigured' = TRUE
  BY DEF CreateCandidateFails, DisableTakeover, LeaveConfigure, nativeVars
<1>3. /\ runtime = None /\ ~isTakenOver /\ ~vanillaSwapchain /\ ~isFrameOpen
      /\ hostFrame = "idle" /\ ~isClosed /\ ~isTerminallyIntercepting
      /\ candidate = None
  BY <1>1, WhileConfiguring
<1>4. TypeOK'
  BY <1>2, <1>3 DEF TypeOK, Steps
<1>5. GenerationInv'
  BY <1>2 DEF GenerationInv, Created
<1>6. OwnsWhatLives' /\ SwapchainExclusive' /\ HostHasSwapchain'
  BY <1>2, <1>3 DEF OwnsWhatLives, SwapchainExclusive, MayExist, HostHasSwapchain
<1>7. ConfigureInv' /\ OwnerInv'
  BY <1>2, <1>3 DEF ConfigureInv, OwnerInv, Candidacy
<1>8. FrameInv'
  BY <1>2, <1>3 DEF FrameInv, FrameFlagsAgree, IsHealthy, Intercepts
<1> QED
  BY <1>4, <1>5, <1>6, <1>7, <1>8

LEMMA CreateCandidateThrowsStep ==
    ASSUME IInv, CreateCandidateThrows
    PROVE  IInv'
<1> USE DEF IInv
<1>1. /\ step = "create" /\ Cardinality(Created) < MaxGenerations
      /\ swapchain' = [swapchain EXCEPT ![NextGeneration] = "orphaned"]
      /\ isTakeoverPermanentlyDisabled' = TRUE
      /\ UNCHANGED <<attached, runtime, isTakenOver, isFrameOpen,
                     requiresReconfiguration, isGenerationFatal,
                     isTerminallyIntercepting, isClosed, vanillaSwapchain,
                     hostFrame>>
      /\ UNCHANGED <<nativeFrame, retired>>
      /\ step' = "vanilla" /\ candidate' = None
      /\ candidateRequiresReconfiguration' = FALSE
      /\ swapchainSuboptimal' = requiresReconfiguration /\ isConfigured' = TRUE
  BY DEF CreateCandidateThrows, DisableTakeover, LeaveConfigure
<1>2. /\ runtime = None /\ ~isTakenOver /\ ~vanillaSwapchain /\ ~isFrameOpen
      /\ hostFrame = "idle" /\ ~isClosed /\ ~isTerminallyIntercepting
      /\ candidate = None
      /\ \A g \in Generations : swapchain[g] \notin {"uncertain", "orphaned"}
      /\ \A g \in Generations : swapchain[g] = "live" <=> g = candidate
  BY <1>1, WhileConfiguring
<1>3. /\ NextGeneration \in Generations
      /\ swapchain[NextGeneration] = "absent"
      /\ \E n \in 0 .. MaxGenerations : Created \cup {NextGeneration} = 1 .. n
  BY <1>1, NextGenerationFresh
<1> HIDE DEF NextGeneration
<1>4. /\ swapchain' \in [Generations -> Lifetimes]
      /\ swapchain'[NextGeneration] = "orphaned"
      /\ \A g \in Generations : g # NextGeneration => swapchain'[g] = swapchain[g]
  BY <1>1, <1>3 DEF TypeOK, Lifetimes
<1>5. \A g \in Generations : g # None
  BY TakeoverAssumption DEF Generations, None
<1>6. \A g \in Generations :
        /\ swapchain'[g] \notin {"live", "uncertain"}
        /\ swapchain'[g] = "orphaned" <=> g = NextGeneration
  BY <1>2, <1>3, <1>4, <1>5
<1>7. TypeOK'
  BY <1>1, <1>2, <1>4 DEF TypeOK, Steps
<1>8. GenerationInv'
  <2>1. Created' = Created \cup {NextGeneration}
    BY <1>3, <1>4 DEF Created
  <2>2. \A g \in Generations :
          swapchain'[g] = "absent" => ~nativeFrame'[g] /\ ~retired'[g]
    BY <1>1, <1>4 DEF GenerationInv
  <2> QED
    BY <1>3, <2>1, <2>2 DEF GenerationInv
<1>9. OwnsWhatLives' /\ SwapchainExclusive' /\ HostHasSwapchain'
  BY <1>1, <1>2, <1>6
     DEF OwnsWhatLives, SwapchainExclusive, MayExist, HostHasSwapchain
<1>10. ConfigureInv' /\ OwnerInv'
  BY <1>1, <1>2, <1>6 DEF ConfigureInv, OwnerInv, Candidacy
<1>11. FrameInv'
  BY <1>1, <1>2 DEF FrameInv, FrameFlagsAgree, IsHealthy, Intercepts
<1> QED
  BY <1>7, <1>8, <1>9, <1>10, <1>11

LEMMA CreateCandidateStep ==
    ASSUME IInv, CreateCandidate
    PROVE  IInv'
<1> USE DEF IInv
<1>1. /\ step = "create" /\ Cardinality(Created) < MaxGenerations
      /\ candidate' = NextGeneration
      /\ swapchain' = [swapchain EXCEPT ![NextGeneration] = "live"]
      /\ step' = "primeBegin"
      /\ UNCHANGED <<coordinatorVars, candidateRequiresReconfiguration,
                     nativeFrame, retired, hostVars>>
  BY DEF CreateCandidate
<1>2. UNCHANGED <<attached, runtime, isTakenOver, isTerminallyIntercepting,
                  isFrameOpen, requiresReconfiguration, isGenerationFatal,
                  isTakeoverPermanentlyDisabled, isConfigured, isClosed,
                  vanillaSwapchain, swapchainSuboptimal, hostFrame>>
  BY <1>1 DEF coordinatorVars, hostVars
<1>3. /\ attached /\ runtime = None /\ ~isTakenOver /\ ~isGenerationFatal
      /\ ~requiresReconfiguration /\ ~isTakeoverPermanentlyDisabled
      /\ ~isTerminallyIntercepting /\ ~vanillaSwapchain
      /\ ~isFrameOpen /\ hostFrame = "idle" /\ ~isClosed
      /\ candidate = None
      /\ \A g \in Generations : swapchain[g] \notin {"uncertain", "orphaned"}
      /\ \A g \in Generations : swapchain[g] = "live" <=> g = candidate
  BY <1>1, WhileConfiguring
<1>4. /\ NextGeneration \in Generations
      /\ swapchain[NextGeneration] = "absent"
      /\ \E n \in 0 .. MaxGenerations : Created \cup {NextGeneration} = 1 .. n
  BY <1>1, NextGenerationFresh
<1> HIDE DEF NextGeneration
<1>5. /\ swapchain' \in [Generations -> Lifetimes]
      /\ swapchain'[NextGeneration] = "live"
      /\ \A g \in Generations : g # NextGeneration => swapchain'[g] = swapchain[g]
  BY <1>1, <1>4 DEF TypeOK, Lifetimes
<1>6. \A g \in Generations : g # None
  BY TakeoverAssumption DEF Generations, None
<1>7. TypeOK'
  BY <1>1, <1>2, <1>4, <1>5 DEF TypeOK, Steps
<1>8. GenerationInv'
  <2>1. Created' = Created \cup {NextGeneration}
    BY <1>4, <1>5 DEF Created
  <2>2. \A g \in Generations :
          swapchain'[g] = "absent" => ~nativeFrame'[g] /\ ~retired'[g]
    BY <1>1, <1>5 DEF GenerationInv
  <2> QED
    BY <1>4, <2>1, <2>2 DEF GenerationInv
<1>9. \A g \in Generations :
        /\ swapchain'[g] \notin {"uncertain", "orphaned"}
        /\ swapchain'[g] = "live" <=> g = NextGeneration
  BY <1>3, <1>4, <1>5, <1>6
<1>10. OwnsWhatLives' /\ SwapchainExclusive'
  BY <1>1, <1>2, <1>3, <1>4, <1>6, <1>9
     DEF OwnsWhatLives, SwapchainExclusive, MayExist
<1>11. HostHasSwapchain'
  BY <1>1 DEF HostHasSwapchain
<1>12. ConfigureInv'
  <2>1. ~nativeFrame[NextGeneration] /\ ~retired[NextGeneration]
    BY <1>4 DEF GenerationInv
  <2> QED
    BY <1>1, <1>2, <1>3, <1>4, <1>6, <2>1 DEF ConfigureInv, Candidacy
<1>13. OwnerInv'
  BY <1>1, <1>2, <1>3, <1>9 DEF OwnerInv
<1>14. FrameInv'
  BY <1>1, <1>2, <1>3 DEF FrameInv, FrameFlagsAgree, IsHealthy, Intercepts
<1> QED
  BY <1>7, <1>8, <1>10, <1>11, <1>12, <1>13, <1>14

\* A priming call that does not publish the candidate.
PrimingCall(outcome) == PrimeBegin(outcome) \/ PrimeSubmitRejected(outcome)

LEMMA PrimingCallStep ==
    ASSUME IInv, NEW outcome \in Outcomes, PrimingCall(outcome)
    PROVE  IInv'
<1> USE DEF IInv
<1>1. /\ step \in {"primeBegin", "primeSubmit"}
      /\ step' \in {"primeSubmit", "reject"}
      /\ step' = "primeSubmit" =>
            step = "primeBegin" /\ outcome \in {"SUCCESS", "SUBOPTIMAL"}
      /\ UNCHANGED <<coordinatorVars, candidate, hostVars>>
  BY DEF PrimingCall, PrimeBegin, PrimeSubmitRejected
<1>2. UNCHANGED <<attached, runtime, isTakenOver, isTerminallyIntercepting,
                  isFrameOpen, requiresReconfiguration, isGenerationFatal,
                  isTakeoverPermanentlyDisabled, isConfigured, isClosed,
                  vanillaSwapchain, swapchainSuboptimal, hostFrame>>
  BY <1>1 DEF coordinatorVars, hostVars
<1>3. /\ attached /\ runtime = None /\ ~isTakenOver /\ ~isGenerationFatal
      /\ ~requiresReconfiguration /\ ~isTakeoverPermanentlyDisabled
      /\ ~isTerminallyIntercepting /\ ~vanillaSwapchain
      /\ ~isFrameOpen /\ hostFrame = "idle" /\ ~isClosed
      /\ candidate \in Generations /\ swapchain[candidate] = "live"
  BY <1>1, WhileConfiguring DEF Candidacy
<1>4. NativeCallEffect(candidate, outcome)
  BY <1>3, BeginEffect, SubmitEffect
     DEF PrimingCall, PrimeBegin, PrimeSubmitRejected
<1>5. /\ nativeFrame' \in [Generations -> BOOLEAN]
      /\ retired' \in [Generations -> BOOLEAN]
      /\ swapchain' = swapchain
      /\ \A h \in Generations : h # candidate =>
            (nativeFrame'[h] <=> nativeFrame[h]) /\ (retired'[h] <=> retired[h])
      /\ retired'[candidate] <=> retired[candidate] \/ outcome = "RECREATE_REQUIRED"
  BY <1>4 DEF NativeCallEffect
<1>6. candidateRequiresReconfiguration' \in BOOLEAN
  BY DEF PrimingCall, PrimeBegin, PrimeSubmitRejected, TypeOK
<1>7. TypeOK'
  BY <1>1, <1>2, <1>5, <1>6 DEF TypeOK, Steps
<1>8. GenerationInv'
  BY <1>3, <1>5 DEF GenerationInv, Created
<1>9. OwnsWhatLives' /\ SwapchainExclusive' /\ HostHasSwapchain'
  BY <1>1, <1>2, <1>5
     DEF OwnsWhatLives, SwapchainExclusive, MayExist, HostHasSwapchain
<1>10. ConfigureInv'
  <2>1. step' = "primeSubmit" => ~retired'[candidate]
    BY <1>1, <1>5 DEF ConfigureInv
  <2> QED
    BY <1>1, <1>2, <1>3, <2>1 DEF ConfigureInv, Candidacy
<1>11. OwnerInv'
  BY <1>1, <1>2, <1>3, <1>5 DEF OwnerInv
<1>12. FrameInv'
  BY <1>1, <1>2, <1>3 DEF FrameInv, FrameFlagsAgree, IsHealthy, Intercepts
<1> QED
  BY <1>7, <1>8, <1>9, <1>10, <1>11, <1>12

LEMMA PrimeSubmitStep ==
    ASSUME IInv, NEW outcome \in Outcomes, PrimeSubmit(outcome)
    PROVE  IInv'
<1> USE DEF IInv
<1>1. /\ step = "primeSubmit" /\ outcome \in {"SUCCESS", "SUBOPTIMAL"}
      /\ NativeSubmit(candidate, outcome)
      /\ runtime' = candidate /\ isTakenOver' = TRUE
      /\ requiresReconfiguration' =
           (candidateRequiresReconfiguration \/ outcome = "SUBOPTIMAL")
      /\ UNCHANGED <<attached, isFrameOpen, isTakeoverPermanentlyDisabled,
                     isGenerationFatal, isTerminallyIntercepting, isClosed,
                     vanillaSwapchain, hostFrame>>
      /\ step' = "none" /\ candidate' = None
      /\ candidateRequiresReconfiguration' = FALSE
      /\ swapchainSuboptimal' = requiresReconfiguration' /\ isConfigured' = TRUE
  BY DEF PrimeSubmit, LeaveConfigure
<1>2. /\ attached /\ runtime = None /\ ~isTakenOver /\ ~isGenerationFatal
      /\ ~isTerminallyIntercepting /\ ~vanillaSwapchain
      /\ ~isFrameOpen /\ hostFrame = "idle" /\ ~isClosed
      /\ candidate \in Generations /\ swapchain[candidate] = "live"
      /\ candidate # None
  BY <1>1, WhileConfiguring, TakeoverAssumption DEF Candidacy, Generations, None
<1>3. /\ NativeCallEffect(candidate, outcome)
      /\ ~nativeFrame'[candidate]
  BY <1>1, <1>2, SubmitEffect
<1>4. /\ nativeFrame' \in [Generations -> BOOLEAN]
      /\ retired' \in [Generations -> BOOLEAN]
      /\ swapchain' = swapchain
      /\ \A h \in Generations : h # candidate =>
            (nativeFrame'[h] <=> nativeFrame[h]) /\ (retired'[h] <=> retired[h])
  BY <1>3 DEF NativeCallEffect
<1>5. ~retired'[candidate]
  BY <1>1, <1>3 DEF NativeCallEffect, ConfigureInv
<1>6. TypeOK'
  <2>1. requiresReconfiguration' \in BOOLEAN
    BY <1>1 DEF TypeOK
  <2> QED
    BY <1>1, <1>2, <1>4, <2>1 DEF TypeOK, Steps
<1>7. GenerationInv'
  BY <1>2, <1>4 DEF GenerationInv, Created
<1>8. OwnsWhatLives' /\ SwapchainExclusive' /\ HostHasSwapchain'
  BY <1>1, <1>2, <1>4
     DEF OwnsWhatLives, SwapchainExclusive, MayExist, HostHasSwapchain, Intercepts
<1>9. ConfigureInv' /\ OwnerInv'
  BY <1>1, <1>2, <1>4 DEF ConfigureInv, OwnerInv, Candidacy
<1>10. FrameInv'
  <2>1. FrameFlagsAgree'
    BY <1>1, <1>2, <1>3, <1>4 DEF FrameFlagsAgree, TypeOK
  <2> QED
    BY <1>1, <1>2, <1>5, <2>1 DEF FrameInv, IsHealthy, Intercepts
<1> QED
  BY <1>6, <1>7, <1>8, <1>9, <1>10

\* The rejected candidate goes away before Minecraft may create its swapchain,
\* or Minecraft never does.
LEMMA RejectStep ==
    ASSUME IInv, RejectCandidate \/ RejectCandidateCloseFails
    PROVE  IInv'
<1> USE DEF IInv
<1>1. /\ step = "reject"
      /\ UNCHANGED <<attached, isFrameOpen, isGenerationFatal, isClosed,
                     vanillaSwapchain, hostFrame, nativeFrame, retired>>
      /\ isTakeoverPermanentlyDisabled' = TRUE
      /\ candidate' = None /\ candidateRequiresReconfiguration' = FALSE
      /\ isConfigured' = TRUE
      /\ swapchainSuboptimal' = requiresReconfiguration'
  BY DEF RejectCandidate, RejectCandidateCloseFails, DisableTakeover,
     InterceptTerminally, LeaveConfigure
<1>2. /\ attached /\ runtime = None /\ ~isTakenOver /\ ~isGenerationFatal
      /\ ~requiresReconfiguration /\ ~isTerminallyIntercepting
      /\ ~vanillaSwapchain /\ ~isFrameOpen /\ hostFrame = "idle" /\ ~isClosed
      /\ candidate \in Generations /\ swapchain[candidate] = "live"
      /\ \A g \in Generations :
            /\ swapchain[g] \notin {"uncertain", "orphaned"}
            /\ swapchain[g] = "live" <=> g = candidate
  BY <1>1, WhileConfiguring DEF Candidacy
<1>3. /\ runtime' = None
      /\ ~requiresReconfiguration' /\ requiresReconfiguration' \in BOOLEAN
      /\ isTakenOver' \in BOOLEAN /\ isTerminallyIntercepting' \in BOOLEAN
      /\ \/ /\ NativeDestroy(candidate, TRUE) /\ step' = "vanilla"
            /\ ~isTakenOver' /\ ~isTerminallyIntercepting'
         \/ /\ NativeDestroy(candidate, FALSE) /\ step' = "none"
            /\ isTakenOver' /\ isTerminallyIntercepting'
  <2>1. CASE RejectCandidate
    BY <1>2, <2>1 DEF RejectCandidate, DisableTakeover, LeaveConfigure, TypeOK
  <2>2. CASE RejectCandidateCloseFails
    BY <2>2 DEF RejectCandidateCloseFails, InterceptTerminally, LeaveConfigure
  <2> QED
    BY <2>1, <2>2
<1>4. /\ swapchain' \in [Generations -> Lifetimes]
      /\ Created' = Created
      /\ \A h \in Generations : swapchain'[h] # "live"
      /\ \A h \in Generations : swapchain'[h] = "uncertain" =>
            h = candidate /\ isTerminallyIntercepting'
      /\ \A h \in Generations : swapchain'[h] # "orphaned"
      /\ \A h \in Generations : swapchain'[h] = "absent" => swapchain[h] = "absent"
  BY <1>2, <1>3, DestroyEffect
<1>5. TypeOK'
  BY <1>1, <1>3, <1>4 DEF TypeOK, Steps
<1>6. GenerationInv'
  BY <1>1, <1>4 DEF GenerationInv
<1>7. OwnsWhatLives' /\ SwapchainExclusive'
  BY <1>1, <1>2, <1>3, <1>4 DEF OwnsWhatLives, SwapchainExclusive, MayExist
<1>8. HostHasSwapchain'
  BY <1>1, <1>2, <1>3 DEF HostHasSwapchain, Intercepts
<1>9. ConfigureInv' /\ OwnerInv'
  BY <1>1, <1>2, <1>3, <1>4 DEF ConfigureInv, OwnerInv, Candidacy
<1>10. FrameInv'
  BY <1>1, <1>2, <1>3 DEF FrameInv, FrameFlagsAgree, IsHealthy, Intercepts
<1> QED
  BY <1>5, <1>6, <1>7, <1>8, <1>9, <1>10

LEMMA VanillaConfigureStep ==
    ASSUME IInv, VanillaConfigure
    PROVE  IInv'
<1> USE DEF IInv
<1>1. /\ step = "vanilla" /\ step' = "none" /\ vanillaSwapchain' = TRUE
      /\ swapchainSuboptimal' = FALSE
      /\ UNCHANGED <<attached, runtime, isTakenOver, isTerminallyIntercepting,
                     isFrameOpen, requiresReconfiguration, isGenerationFatal,
                     isTakeoverPermanentlyDisabled, candidate,
                     candidateRequiresReconfiguration, swapchain, nativeFrame,
                     retired, isConfigured, isClosed, hostFrame>>
  BY DEF VanillaConfigure, coordinatorVars, nativeVars
<1>2. /\ attached => isTakeoverPermanentlyDisabled
      /\ runtime = None /\ ~isTakenOver /\ ~isTerminallyIntercepting
      /\ candidate = None /\ ~isClosed /\ ~isFrameOpen
  BY <1>1 DEF ConfigureInv, OwnerInv, Candidacy
<1>3. \A g \in Generations : MayExist(g) => swapchain[g] = "orphaned"
  BY <1>2, OwnedIsLive, TakeoverAssumption
     DEF MayExist, OwnerInv, Generations, None
<1>4. TypeOK'
  <2>1. /\ step' \in Steps
        /\ vanillaSwapchain' \in BOOLEAN /\ swapchainSuboptimal' \in BOOLEAN
    BY <1>1 DEF Steps
  <2> QED
    BY <1>1, <2>1 DEF TypeOK
<1>5. GenerationInv'
  BY <1>1 DEF GenerationInv, Created
<1>6. OwnsWhatLives' /\ SwapchainExclusive' /\ HostHasSwapchain'
  BY <1>1, <1>2, <1>3
     DEF OwnsWhatLives, SwapchainExclusive, MayExist, HostHasSwapchain, Intercepts
<1>7. ConfigureInv' /\ OwnerInv'
  BY <1>1, <1>2 DEF ConfigureInv, OwnerInv, Candidacy
<1>8. FrameInv'
  BY <1>1, <1>2 DEF FrameInv, FrameFlagsAgree, IsHealthy, Intercepts
<1> QED
  BY <1>4, <1>5, <1>6, <1>7, <1>8

LEMMA CloseStep ==
    ASSUME IInv, NEW succeeds \in BOOLEAN, Close(succeeds)
    PROVE  IInv'
<1> USE DEF IInv
<1>1. /\ ~isClosed /\ step = "none" /\ attached' = FALSE
      /\ runtime' = None /\ isTakenOver' = FALSE /\ isFrameOpen' = FALSE
      /\ requiresReconfiguration' = FALSE /\ isGenerationFatal' = FALSE
      /\ isTerminallyIntercepting' = FALSE /\ isClosed' = TRUE
      /\ vanillaSwapchain' = FALSE
      /\ UNCHANGED <<isTakeoverPermanentlyDisabled, step, candidate,
                     candidateRequiresReconfiguration, nativeFrame, retired,
                     isConfigured, swapchainSuboptimal, hostFrame>>
  BY DEF Close, configureVars
<1>2. candidate = None
  BY <1>1 DEF ConfigureInv, Candidacy
<1>3. /\ swapchain' \in [Generations -> Lifetimes]
      /\ Created' = Created
      /\ \A h \in Generations : swapchain'[h] # "live"
      /\ \A h \in Generations : MayExist(h)' => MayExist(h)
      /\ \A h \in Generations : swapchain'[h] = "orphaned" => swapchain[h] = "orphaned"
      /\ \A h \in Generations : swapchain'[h] = "absent" => swapchain[h] = "absent"
  <2>1. CASE runtime = None
    <3>1. swapchain' = swapchain
      BY <2>1 DEF Close
    <3>2. \A h \in Generations : swapchain[h] # "live"
      BY <1>2, <2>1, OwnedIsLive, TakeoverAssumption DEF Generations, None
    <3> QED
      BY <3>1, <3>2 DEF Created, MayExist, TypeOK
  <2>2. CASE runtime # None
    <3>1. runtime \in Generations /\ NativeDestroy(runtime, succeeds)
      BY <2>2 DEF Close, TypeOK
    <3>2. swapchain[runtime] = "live"
      BY <3>1, OwnedIsLive
    <3>3. /\ swapchain' \in [Generations -> Lifetimes]
          /\ Created' = Created
          /\ swapchain'[runtime] \in {"destroyed", "uncertain"}
          /\ \A h \in Generations : h # runtime => swapchain'[h] = swapchain[h]
      BY <3>1, <3>2, DestroyEffect
    <3>4. \A h \in Generations : h # runtime => swapchain[h] # "live"
      BY <1>2, OwnedIsLive, TakeoverAssumption DEF Generations, None
    <3> QED
      BY <3>2, <3>3, <3>4 DEF MayExist
  <2> QED
    BY <2>1, <2>2
<1>4. TypeOK'
  BY <1>1, <1>3 DEF TypeOK
<1>5. GenerationInv'
  BY <1>1, <1>3 DEF GenerationInv
<1>6. OwnsWhatLives'
  BY <1>1, <1>2, <1>3 DEF OwnsWhatLives
<1>7. SwapchainExclusive'
  BY <1>1, <1>3 DEF SwapchainExclusive
<1>8. HostHasSwapchain' /\ ConfigureInv' /\ OwnerInv'
  BY <1>1, <1>2, <1>3 DEF HostHasSwapchain, ConfigureInv, OwnerInv, Candidacy
<1>9. FrameInv'
  BY <1>1 DEF FrameInv, FrameFlagsAgree, IsHealthy, Intercepts
<1> QED
  BY <1>4, <1>5, <1>6, <1>7, <1>8, <1>9

LEMMA StutterStep ==
    ASSUME IInv, UNCHANGED vars
    PROVE  IInv'
<1>1. UNCHANGED <<attached, runtime, isTakenOver, isTerminallyIntercepting,
                  isFrameOpen, requiresReconfiguration, isGenerationFatal,
                  isTakeoverPermanentlyDisabled, step, candidate,
                  candidateRequiresReconfiguration, swapchain, nativeFrame,
                  retired, isConfigured, isClosed, vanillaSwapchain,
                  swapchainSuboptimal, hostFrame>>
  BY DEF vars, coordinatorVars, configureVars, nativeVars, hostVars
<1>2. TypeOK' /\ GenerationInv'
  BY <1>1 DEF IInv, TypeOK, GenerationInv, Created
<1>3. ConfigureInv' /\ OwnerInv'
  BY <1>1 DEF IInv, ConfigureInv, OwnerInv
<1>4. OwnsWhatLives' /\ SwapchainExclusive' /\ HostHasSwapchain'
  BY <1>1 DEF IInv, OwnsWhatLives, SwapchainExclusive, MayExist,
     HostHasSwapchain, Intercepts
<1>5. FrameInv'
  BY <1>1 DEF IInv, FrameInv, FrameFlagsAgree, IsHealthy, Intercepts
<1> QED
  BY <1>2, <1>3, <1>4, <1>5 DEF IInv

LEMMA NextIInv == IInv /\ [Next]_vars => IInv'
<1> SUFFICES ASSUME IInv, [Next]_vars PROVE IInv'
  OBVIOUS
<1>1. CASE BeginConfigure
  BY <1>1, ConfigureWithoutCoordinatorStep, ConfigureWhileInterceptingStep,
     OldRuntimeCloseFailsStep, ConfigureStep DEF BeginConfigure
<1>2. CASE ContinueConfigure
  BY <1>2, CreateCandidateFailsStep, CreateCandidateThrowsStep,
     CreateCandidateStep, PrimingCallStep, PrimeSubmitStep, RejectStep,
     VanillaConfigureStep
     DEF ContinueConfigure, PrimingCall
<1>3. CASE FrameCall
  BY <1>3, NativeFrameStep, QuietFrameStep
     DEF FrameCall, NativeFrameCall, QuietFrameCall
<1>4. CASE \E succeeds \in BOOLEAN : Close(succeeds)
  BY <1>4, CloseStep
<1>5. CASE Closed \/ UNCHANGED vars
  BY <1>5, StutterStep DEF Closed
<1> QED
  BY <1>1, <1>2, <1>3, <1>4, <1>5 DEF Next

-----------------------------------------------------------------------------
\* The surface's owner stays the same when no swapchain comes or goes.
LEMMA OwnerStable ==
    ASSUME UNCHANGED <<swapchain, vanillaSwapchain, isClosed>>
    PROVE  UNCHANGED SurfaceOwner
BY DEF SurfaceOwner

LEMMA OwnerInit == Init => Ownership!Init
BY DEF Init, Ownership!Init, SurfaceOwner

LEMMA VanillaConfigureOwner ==
    ASSUME IInv, VanillaConfigure
    PROVE  Ownership!VanillaTakes \/ UNCHANGED SurfaceOwner
<1>1. /\ vanillaSwapchain' = TRUE
      /\ swapchain' = swapchain /\ isClosed' = isClosed
      /\ step = "vanilla"
  BY DEF VanillaConfigure, nativeVars
<1>2. /\ ~isClosed /\ runtime = None /\ candidate = None
      /\ attached => ~isTerminallyIntercepting
  BY <1>1 DEF IInv, ConfigureInv, OwnerInv, Candidacy
<1>3. \A g \in Generations : swapchain[g] \notin {"live", "uncertain"}
  BY <1>2, OwnedIsLive, TakeoverAssumption
     DEF IInv, OwnerInv, ConfigureInv, Generations, None
<1>4. CASE \E g \in Generations : swapchain[g] = "orphaned"
  <2>1. SurfaceOwner = IF vanillaSwapchain THEN "contested" ELSE "orphan"
    BY <1>2, <1>3, <1>4 DEF SurfaceOwner
  <2>2. SurfaceOwner' = "contested"
    BY <1>1, <1>2, <1>3, <1>4 DEF SurfaceOwner
  <2> QED
    BY <2>1, <2>2 DEF Ownership!VanillaTakes, Ownership!Pass
<1>5. CASE \A g \in Generations : swapchain[g] # "orphaned"
  <2>1. SurfaceOwner = IF vanillaSwapchain THEN "vanilla" ELSE "none"
    BY <1>2, <1>3, <1>5 DEF SurfaceOwner
  <2>2. SurfaceOwner' = "vanilla"
    BY <1>1, <1>2, <1>3, <1>5 DEF SurfaceOwner
  <2> QED
    BY <2>1, <2>2 DEF Ownership!VanillaTakes, Ownership!Pass
<1> QED
  BY <1>4, <1>5

\* A runtime that is destroyed leaves the surface to nobody, or unknown.
LEMMA DestroyOwner ==
    ASSUME IInv, NEW g \in Generations, NEW succeeds \in BOOLEAN,
           swapchain[g] = "live", NativeDestroy(g, succeeds),
           ~isClosed, UNCHANGED <<vanillaSwapchain, isClosed>>
    PROVE  Ownership!NativeDrains \/ Ownership!NativeFails
<1>1. /\ ~vanillaSwapchain
      /\ \A h \in Generations :
            h # g => swapchain[h] \notin {"live", "uncertain", "orphaned"}
  BY DEF IInv, SwapchainExclusive, MayExist
<1>2. /\ swapchain'[g] = IF succeeds THEN "destroyed" ELSE "uncertain"
      /\ \A h \in Generations : h # g => swapchain'[h] = swapchain[h]
  BY DestroyEffect DEF IInv
<1>3. SurfaceOwner = "native"
  BY <1>1 DEF SurfaceOwner
<1>4. CASE succeeds
  <2>1. SurfaceOwner' = "none"
    BY <1>1, <1>2, <1>4 DEF SurfaceOwner
  <2> QED
    BY <1>3, <2>1 DEF Ownership!NativeDrains, Ownership!Pass
<1>5. CASE ~succeeds
  <2>1. SurfaceOwner' = "unknown"
    BY <1>2, <1>5 DEF SurfaceOwner
  <2> QED
    BY <1>3, <2>1 DEF Ownership!NativeFails, Ownership!Pass
<1> QED
  BY <1>4, <1>5

LEMMA BeginConfigureOwner ==
    ASSUME IInv, BeginConfigure
    PROVE  Ownership!Next \/ UNCHANGED SurfaceOwner
<1>1. CASE ConfigureWithoutCoordinator \/ ConfigureWhileIntercepting
  BY <1>1, OwnerStable
     DEF ConfigureWithoutCoordinator, ConfigureWhileIntercepting, LeaveConfigure,
         nativeVars
<1>2. CASE OldRuntimeCloseFails
  <2>1. /\ runtime \in Generations /\ NativeDestroy(runtime, FALSE)
        /\ ~isClosed /\ UNCHANGED <<vanillaSwapchain, isClosed>>
    BY <1>2 DEF OldRuntimeCloseFails, HostMayConfigure, LeaveConfigure, IInv,
       TypeOK
  <2>2. swapchain[runtime] = "live"
    BY <2>1, OwnedIsLive DEF IInv
  <2> QED
    BY <2>1, <2>2, DestroyOwner DEF Ownership!Next
<1>3. ASSUME NEW inputsReady \in BOOLEAN, Configure(inputsReady)
      PROVE  Ownership!Next \/ UNCHANGED SurfaceOwner
  <2>1. ~isClosed /\ UNCHANGED <<vanillaSwapchain, isClosed>>
    BY <1>3 DEF Configure, HostMayConfigure, LeaveConfigure, hostVars
  <2>2. CASE runtime = None
    <3>1. swapchain' = swapchain
      BY <1>3, <2>2 DEF Configure
    <3> QED
      BY <2>1, <3>1, OwnerStable
  <2>3. CASE runtime # None
    <3>1. runtime \in Generations /\ NativeDestroy(runtime, TRUE)
      BY <1>3, <2>3 DEF Configure, IInv, TypeOK
    <3>2. swapchain[runtime] = "live"
      BY <3>1, OwnedIsLive DEF IInv
    <3> QED
      BY <2>1, <3>1, <3>2, DestroyOwner DEF Ownership!Next
  <2> QED
    BY <2>2, <2>3
<1> QED
  BY <1>1, <1>2, <1>3 DEF BeginConfigure

LEMMA ContinueConfigureOwner ==
    ASSUME IInv, ContinueConfigure
    PROVE  Ownership!Next \/ UNCHANGED SurfaceOwner
<1>1. CASE CreateCandidateFails
  BY <1>1, OwnerStable
     DEF CreateCandidateFails, DisableTakeover, LeaveConfigure, nativeVars
<1>2. CASE CreateCandidate \/ CreateCandidateThrows
  <2>1. /\ step = "create"
        /\ \/ swapchain' = [swapchain EXCEPT ![NextGeneration] = "live"]
           \/ swapchain' = [swapchain EXCEPT ![NextGeneration] = "orphaned"]
        /\ UNCHANGED <<vanillaSwapchain, isClosed>>
    BY <1>2 DEF CreateCandidate, CreateCandidateThrows, DisableTakeover,
       LeaveConfigure, hostVars
  <2>2. NextGeneration \in Generations
    BY <1>2, NextGenerationFresh DEF CreateCandidate, CreateCandidateThrows, IInv
  <2>3. /\ ~isClosed /\ ~vanillaSwapchain /\ candidate = None
        /\ \A g \in Generations :
              /\ swapchain[g] \notin {"uncertain", "orphaned"}
              /\ swapchain[g] = "live" <=> g = candidate
    BY <2>1, WhileConfiguring
  <2>4. \A g \in Generations : g # None
    BY TakeoverAssumption DEF Generations, None
  <2>5. SurfaceOwner = "none"
    BY <2>3, <2>4 DEF SurfaceOwner
  <2>6. /\ swapchain'[NextGeneration] \in {"live", "orphaned"}
        /\ \A g \in Generations : g # NextGeneration =>
              swapchain'[g] \notin {"live", "uncertain", "orphaned"}
    BY <2>1, <2>2, <2>3, <2>4 DEF IInv, TypeOK
  <2> HIDE DEF NextGeneration
  <2>7. SurfaceOwner' = IF swapchain'[NextGeneration] = "live" THEN "native"
                                                              ELSE "orphan"
    BY <2>1, <2>2, <2>3, <2>6 DEF SurfaceOwner
  <2> QED
    BY <2>5, <2>7
       DEF Ownership!Next, Ownership!NativeCreates, Ownership!NativeThrows,
           Ownership!Pass
<1>3. CASE \E outcome \in Outcomes :
             PrimeBegin(outcome) \/ PrimeSubmitRejected(outcome) \/ PrimeSubmit(outcome)
  <2>1. UNCHANGED <<swapchain, vanillaSwapchain, isClosed>>
    BY <1>3 DEF PrimeBegin, PrimeSubmitRejected, PrimeSubmit, NativeBegin,
       NativeSubmit, LeaveConfigure, hostVars
  <2> QED
    BY <2>1, OwnerStable
<1>4. CASE RejectCandidate \/ RejectCandidateCloseFails
  <2>1. /\ step = "reject"
        /\ NativeDestroy(candidate, TRUE) \/ NativeDestroy(candidate, FALSE)
        /\ UNCHANGED <<vanillaSwapchain, isClosed>>
    BY <1>4 DEF RejectCandidate, RejectCandidateCloseFails, DisableTakeover,
       LeaveConfigure
  <2>2. ~isClosed /\ candidate \in Generations /\ swapchain[candidate] = "live"
    BY <2>1, WhileConfiguring DEF Candidacy
  <2> QED
    BY <2>1, <2>2, DestroyOwner DEF Ownership!Next
<1>5. CASE VanillaConfigure
  BY <1>5, VanillaConfigureOwner DEF Ownership!Next
<1> QED
  BY <1>1, <1>2, <1>3, <1>4, <1>5 DEF ContinueConfigure

LEMMA NextOwner ==
    ASSUME IInv, [Next]_vars
    PROVE  [Ownership!Next]_SurfaceOwner
<1>1. CASE BeginConfigure
  BY <1>1, BeginConfigureOwner
<1>2. CASE ContinueConfigure
  BY <1>2, ContinueConfigureOwner
<1>3. CASE FrameCall
  <2>1. UNCHANGED <<swapchain, vanillaSwapchain, isClosed>>
    BY <1>3 DEF FrameCall, AcquireNative, AcquireNothing, AcquireVanilla, Blit,
       PresentNative, PresentNothing, PresentVanilla, HostFrame, NativeBegin,
       NativeSubmit, nativeVars
  <2> QED
    BY <2>1, OwnerStable
<1>4. CASE \E succeeds \in BOOLEAN : Close(succeeds)
  <2>1. ~isClosed /\ isClosed' = TRUE
    BY <1>4 DEF Close
  <2>2. SurfaceOwner' = "released" /\ SurfaceOwner # "released"
    BY <2>1 DEF SurfaceOwner
  <2> QED
    BY <2>2 DEF Ownership!Next, Ownership!SurfaceCloses
<1>5. CASE Closed \/ UNCHANGED vars
  <2>1. UNCHANGED <<swapchain, vanillaSwapchain, isClosed>>
    BY <1>5 DEF Closed, vars, nativeVars, hostVars
  <2> QED
    BY <2>1, OwnerStable
<1> QED
  BY <1>1, <1>2, <1>3, <1>4, <1>5 DEF Next

-----------------------------------------------------------------------------
\* The invariant that carries all the others.
THEOREM TakeoverInvariance == Spec => []IInv
<1>1. Init => IInv
  BY InitIInv
<1>2. IInv /\ [Next]_vars => IInv'
  BY NextIInv
<1> QED
  BY <1>1, <1>2, PTL DEF Spec

\* The coordinator, the surface and the runtimes are always of their types.
THEOREM TakeoverTypeCorrect == Spec => []TypeOK
<1>1. IInv => TypeOK
  BY DEF IInv
<1> QED
  BY <1>1, TakeoverInvariance, PTL

\* However configure, failures and close are interleaved, no second swapchain
\* stands beside a Native runtime that lives or may still live; beside an
\* orphan, only Minecraft's own.
THEOREM OneSwapchain == Spec => []SwapchainExclusive
<1>1. IInv => SwapchainExclusive
  BY DEF IInv
<1> QED
  BY <1>1, TakeoverInvariance, PTL

\* No Native runtime is leaked, and none is used after it was destroyed.
THEOREM NoRuntimeLeaks == Spec => []OwnsWhatLives
<1>1. IInv => OwnsWhatLives
  BY DEF IInv
<1> QED
  BY <1>1, TakeoverInvariance, PTL

\* The host always has a swapchain to draw to, or its calls are intercepted.
THEOREM HostCanDraw == Spec => []HostHasSwapchain
<1>1. IInv => HostHasSwapchain
  BY DEF IInv
<1> QED
  BY <1>1, TakeoverInvariance, PTL

\* The coordinator's m_isFrameOpen is the runtime's.
THEOREM FrameFlags == Spec => []FrameFlagsAgree
<1>1. IInv => FrameFlagsAgree
  BY DEF IInv, FrameInv
<1> QED
  BY <1>1, TakeoverInvariance, PTL

\* The coordinator keeps the contract of the runtime: it begins a frame only
\* when none is open and no recreation is due.
THEOREM KeepsRuntimeContract == Spec => []RuntimeMayBegin
<1>1. IInv => RuntimeMayBegin
  <2> SUFFICES ASSUME IInv, HostMayAcquire, IsHealthy
               PROVE  ~nativeFrame[runtime] /\ ~retired[runtime]
    BY DEF RuntimeMayBegin
  <2>1. /\ step = "none" /\ hostFrame = "idle" /\ ~swapchainSuboptimal
    BY DEF HostMayAcquire
  <2>2. Intercepts
    BY DEF IInv, OwnerInv, IsHealthy, Intercepts
  <2>3. ~requiresReconfiguration /\ ~isFrameOpen
    BY <2>1, <2>2 DEF IInv, FrameInv
  <2> QED
    BY <2>3 DEF IInv, FrameInv, FrameFlagsAgree
<1> QED
  BY <1>1, TakeoverInvariance, PTL

\* The surface changes hands only as SurfaceOwnership allows.
THEOREM OwnershipRefinement == Spec => OwnsInTurn
<1>1. Init => Ownership!Init
  BY OwnerInit
<1>2. IInv /\ [Next]_vars => [Ownership!Next]_SurfaceOwner
  BY NextOwner
<1>3. Spec => []IInv
  BY TakeoverInvariance
<1> QED
  BY <1>1, <1>2, <1>3, PTL DEF Spec, OwnsInTurn, Ownership!Spec
=============================================================================
