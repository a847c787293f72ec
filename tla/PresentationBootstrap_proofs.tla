--------------------- MODULE PresentationBootstrap_proofs ---------------------
(***************************************************************************)
(* The four properties of the bootstrap, for any number of callers,        *)
(* devices and runtimes.  Each concerns one of the three parts, so the     *)
(* composition is first shown to let each part take its own steps only,    *)
(* and the invariants are then proved of the parts.  What a runtime needs  *)
(* of the other two follows from the three invariants together.            *)
(***************************************************************************)
EXTENDS PresentationBootstrap, TLAPS

-----------------------------------------------------------------------------
(* The parts of the composition.                                           *)

\* The scenario is chosen once.
LEMMA ScenarioIsFixed == Spec => [](scenario \in Scenarios)
<1>1. Init => scenario \in Scenarios
  BY DEF Init
<1>2. scenario \in Scenarios /\ [Next]_vars => (scenario \in Scenarios)'
  <2> SUFFICES ASSUME scenario \in Scenarios, [Next]_vars PROVE scenario' = scenario
    OBVIOUS
  <2>1. CASE ExtractLibrary
    BY <2>1 DEF ExtractLibrary, bootstrapVars
  <2>2. CASE ChangeDevices
    BY <2>2 DEF ChangeDevices
  <2>3. CASE StepRuntimes
    BY <2>3 DEF StepRuntimes, CreateRuntime, bootstrapVars
  <2>4. CASE UNCHANGED vars
    BY <2>4 DEF vars, bootstrapVars
  <2> QED BY <2>1, <2>2, <2>3, <2>4 DEF Next
<1> QED BY <1>1, <1>2, PTL DEF Spec

\* Seen from the extraction, the bootstrap is an extraction.
LEMMA BootstrapExtracts == Spec => ExtractionSpec
<1>1. Init => InitExtraction
  BY DEF Init
<1>2. scenario \in Scenarios /\ [Next]_vars => [ExtractionNext]_extractionVars
  <2> SUFFICES ASSUME scenario \in Scenarios, [Next]_vars
               PROVE  [ExtractionNext]_extractionVars
    OBVIOUS
  <2>1. CASE ExtractLibrary
    <3>1. scenario.callers \subseteq Callers
      BY ScenariosAssumption
    <3> QED BY <2>1, <3>1 DEF ExtractLibrary, ExtractionNext
  <2>2. CASE ChangeDevices
    BY <2>2 DEF ChangeDevices
  <2>3. CASE StepRuntimes
    <3>1. UNCHANGED extractionVars
      BY <2>3 DEF StepRuntimes
    <3> QED BY <3>1
  <2>4. CASE UNCHANGED vars
    BY <2>4 DEF vars
  <2> QED BY <2>1, <2>2, <2>3, <2>4 DEF Next
<1> QED BY <1>1, <1>2, ScenarioIsFixed, PTL DEF Spec, ExtractionSpec

\* Seen from the capability, the bootstrap creates and closes devices.
LEMMA BootstrapChangesDevices == Spec => DeviceSpec
<1>1. Init => InitDevices
  BY DEF Init
<1>2. scenario \in Scenarios /\ [Next]_vars
        => [\E d \in Devices : CreateOrCloseDevice(d)]_deviceVars
  <2> SUFFICES ASSUME scenario \in Scenarios, [Next]_vars
               PROVE  [\E d \in Devices : CreateOrCloseDevice(d)]_deviceVars
    OBVIOUS
  <2>1. CASE ExtractLibrary
    BY <2>1 DEF ExtractLibrary
  <2>2. CASE ChangeDevices
    <3>1. scenario.devices \subseteq Devices
      BY ScenariosAssumption
    <3> QED BY <2>2, <3>1 DEF ChangeDevices
  <2>3. CASE StepRuntimes
    BY <2>3 DEF StepRuntimes
  <2>4. CASE UNCHANGED vars
    BY <2>4 DEF vars
  <2> QED BY <2>1, <2>2, <2>3, <2>4 DEF Next
<1> QED BY <1>1, <1>2, ScenarioIsFixed, PTL DEF Spec, DeviceSpec

-----------------------------------------------------------------------------
(* The extraction.                                                         *)

Steps == {"idle", "write", "writing", "move", "copying", "verify",
          "verifyCompeting", "returned", "failed"}

ExtractionTypeOK ==
    /\ library \in FileStates
    /\ temporaries \in [Callers -> FileStates]
    /\ extracting \in [Callers -> Steps]
    /\ movesAtomically \in BOOLEAN

\* What is moved is complete, and a copy is the only one and has an unfinished
\* target, which nobody has been given.
ExtractionInv ==
    /\ ExtractionTypeOK
    /\ \A c \in Callers : extracting[c] = "move" => temporaries[c] = "complete"
    /\ \A c \in Callers :
        extracting[c] = "copying" => library = "partial" /\ ~movesAtomically
    /\ \A c, e \in Callers : extracting[c] = "copying" /\ extracting[e] = "copying" => c = e
    /\ ReturnedIsComplete

LEMMA ExtractionStep ==
    ASSUME ExtractionInv, NEW c \in Callers, Extract(c)
    PROVE  ExtractionInv'
<1> USE DEF ExtractionInv, ExtractionTypeOK, Steps, FileStates, ReturnedIsComplete,
            HasReturned, Goto, Leave
<1>1. CASE CheckExisting(c)
  BY <1>1 DEF CheckExisting
<1>2. CASE Verify(c)
  BY <1>2 DEF Verify, HasExpectedBytes
<1>3. CASE WriteTemporary(c)
  BY <1>3 DEF WriteTemporary
<1>4. CASE ThrowIOException(c)
  BY <1>4 DEF ThrowIOException
<1>5. CASE MoveAtomically(c)
  BY <1>5 DEF MoveAtomically
<1>6. CASE MoveWithoutReplacement(c)
  BY <1>6 DEF MoveWithoutReplacement
<1>7. CASE FinishCopy(c)
  BY <1>7 DEF FinishCopy
<1> QED BY <1>1, <1>2, <1>3, <1>4, <1>5, <1>6, <1>7 DEF Extract

LEMMA KillStep ==
    ASSUME ExtractionInv, KillProcess
    PROVE  ExtractionInv'
BY DEF ExtractionInv, ExtractionTypeOK, Steps, FileStates, ReturnedIsComplete,
       HasReturned, KillProcess

LEMMA ExtractionInvariant == Spec => []ExtractionInv
<1>1. InitExtraction => ExtractionInv
  BY LeftoversAssumption DEF InitExtraction, ExtractionInv, ExtractionTypeOK, Steps, FileStates,
         ReturnedIsComplete, HasReturned
<1>2. ExtractionInv /\ [ExtractionNext]_extractionVars => ExtractionInv'
  <2>1. ExtractionInv /\ ExtractionNext => ExtractionInv'
    BY ExtractionStep, KillStep DEF ExtractionNext
  <2>2. ExtractionInv /\ UNCHANGED extractionVars => ExtractionInv'
    BY DEF ExtractionInv, ExtractionTypeOK, ReturnedIsComplete, HasReturned,
           extractionVars
  <2> QED BY <2>1, <2>2
<1> QED BY <1>1, <1>2, BootstrapExtracts, PTL DEF ExtractionSpec

\* Whoever got the path finds the whole library there, for any number of callers
\* and whatever an earlier process left.  (NativeLibraryExtractor.extract)
THEOREM ReturnedLibraryIsComplete == Spec => []ReturnedIsComplete
<1>1. ExtractionInv => ReturnedIsComplete
  BY DEF ExtractionInv
<1> QED BY <1>1, ExtractionInvariant, PTL

-----------------------------------------------------------------------------
(* The device capability.                                                  *)

DeviceStatuses == {"absent", "creating", "live", "closing", "cleared", "destroyed"}

Capabilities ==
    [publisher : Devices \cup {NoDevice}, address : Addresses \cup {NoAddress},
     isEnabled : BOOLEAN]

DeviceTypeOK ==
    /\ devices \in [Devices -> [status : DeviceStatuses,
                                address : Addresses \cup {NoAddress},
                                hasFeature : BOOLEAN]]
    /\ backendFlag \in BOOLEAN
    /\ capability \in Capabilities
    /\ captured \in [Devices -> Capabilities]
    /\ newest \in Devices \cup {NoDevice}

\* A VkDevice that exists has an address of its own.
AddressesAreUnique ==
    /\ \A d \in Devices :
        IF devices[d].status \in {"live", "closing", "cleared"}
        THEN devices[d].address \in Addresses
        ELSE devices[d].address = NoAddress
    /\ \A d, e \in Devices :
        d # e /\ devices[d].address = devices[e].address => devices[d].address = NoAddress

\* What has been negotiated is kept for the one device that is being created.
OneIsCreating ==
    /\ \A d, e \in Using("creating") : d = e
    /\ \A d \in Using("creating") : devices[d].hasFeature = backendFlag

Current(d) == Published(d, devices[d].address, devices[d].hasFeature)

\* The state is empty or the true one of a device that has not cleared it yet,
\* and a closing device has read its own.
CapabilityIsTrue ==
    /\ capability # Empty =>
        \E p \in Using("live") \cup Using("closing") : capability = Current(p)
    /\ \A d \in Devices :
        captured[d] # NotRead => d \in Using("closing") /\ captured[d] = Current(d)
    /\ newest \in Using("live") => capability = Current(newest)

DeviceInv == DeviceTypeOK /\ AddressesAreUnique /\ OneIsCreating /\ CapabilityIsTrue

LEMMA CapabilitiesDiffer ==
    /\ Empty \in Capabilities /\ NotRead \in Capabilities
    /\ \A d, e, x, y, v, w :
        Published(d, x, v) = Published(e, y, w) => d = e /\ x = y /\ v = w
    /\ \A d, x, v : Published(d, x, v).address = x
BY DEF Empty, NotRead, Published, Capabilities

LEMMA NegotiateStep ==
    ASSUME DeviceInv, NEW d \in Devices, Negotiate(d)
    PROVE  DeviceInv'
<1>1. PICK v \in BOOLEAN :
        /\ backendFlag' = v
        /\ devices' = [devices EXCEPT ![d].status = "creating", ![d].hasFeature = v]
  BY DEF Negotiate, Negotiation
<1>2. /\ devices' \in [Devices -> [status : DeviceStatuses,
                                   address : Addresses \cup {NoAddress},
                                   hasFeature : BOOLEAN]]
      /\ devices'[d].status = "creating"
      /\ devices'[d].address = devices[d].address
      /\ devices'[d].hasFeature = v
      /\ \A e \in Devices : e # d => devices'[e] = devices[e]
  BY <1>1 DEF DeviceInv, DeviceTypeOK, DeviceStatuses
<1>3. /\ devices[d].status = "absent"
      /\ \A e \in Devices : devices[e].status # "creating"
      /\ UNCHANGED <<capability, captured, newest>>
  BY DEF Negotiate, Using
<1>4. DeviceTypeOK'
  BY <1>1, <1>2, <1>3 DEF DeviceInv, DeviceTypeOK
<1>5. AddressesAreUnique'
  BY <1>2, <1>3 DEF DeviceInv, AddressesAreUnique
<1>6. OneIsCreating'
  BY <1>1, <1>2, <1>3 DEF OneIsCreating, Using
<1>7. CapabilityIsTrue'
  BY <1>2, <1>3 DEF DeviceInv, CapabilityIsTrue, Using, Current
<1> QED BY <1>4, <1>5, <1>6, <1>7 DEF DeviceInv

LEMMA CreateDeviceFailsStep ==
    ASSUME DeviceInv, NEW d \in Devices, CreateDeviceFails(d)
    PROVE  DeviceInv'
<1>1. /\ devices' \in [Devices -> [status : DeviceStatuses,
                                   address : Addresses \cup {NoAddress},
                                   hasFeature : BOOLEAN]]
      /\ devices[d].status = "creating"
      /\ devices'[d].status = "destroyed"
      /\ devices'[d].address = devices[d].address
      /\ \A e \in Devices : e # d => devices'[e] = devices[e]
      /\ UNCHANGED <<backendFlag, capability, captured, newest>>
  BY DEF CreateDeviceFails, DeviceInv, DeviceTypeOK, DeviceStatuses
<1>2. DeviceTypeOK'
  BY <1>1 DEF DeviceInv, DeviceTypeOK
<1>3. AddressesAreUnique'
  BY <1>1 DEF DeviceInv, AddressesAreUnique
<1>4. OneIsCreating'
  BY <1>1 DEF DeviceInv, OneIsCreating, Using
<1>5. CapabilityIsTrue'
  BY <1>1 DEF DeviceInv, CapabilityIsTrue, Using, Current
<1> QED BY <1>2, <1>3, <1>4, <1>5 DEF DeviceInv

LEMMA CreateDeviceReturnsStep ==
    ASSUME DeviceInv, NEW d \in Devices, CreateDeviceReturns(d)
    PROVE  DeviceInv'
<1>1. PICK x \in Addresses :
        /\ \A e \in Devices : devices[e].address # x
        /\ devices' = [devices EXCEPT ![d].status = "live", ![d].address = x]
        /\ capability' = Published(d, x, backendFlag)
  BY DEF CreateDeviceReturns
<1>2. /\ devices' \in [Devices -> [status : DeviceStatuses,
                                   address : Addresses \cup {NoAddress},
                                   hasFeature : BOOLEAN]]
      /\ devices[d].status = "creating"
      /\ devices'[d].status = "live"
      /\ devices'[d].address = x
      /\ devices'[d].hasFeature = devices[d].hasFeature
      /\ \A e \in Devices : e # d => devices'[e] = devices[e]
      /\ newest' = d
      /\ UNCHANGED <<backendFlag, captured>>
  BY <1>1 DEF CreateDeviceReturns, DeviceInv, DeviceTypeOK, DeviceStatuses
<1>3. DeviceTypeOK'
  <2>1. capability' \in Capabilities
    BY <1>1 DEF DeviceInv, DeviceTypeOK, Published, Capabilities
  <2> QED BY <1>2, <2>1 DEF DeviceInv, DeviceTypeOK
<1>4. AddressesAreUnique'
  BY <1>1, <1>2 DEF DeviceInv, AddressesAreUnique
<1>5. OneIsCreating'
  BY <1>2 DEF DeviceInv, OneIsCreating, Using
<1>6. CapabilityIsTrue'
  <2>1. devices[d].hasFeature = backendFlag
    BY <1>2 DEF DeviceInv, OneIsCreating, Using
  <2>2. capability' = Current(d)'
    BY <1>1, <1>2, <2>1 DEF Current
  <2>3. \A c \in Devices :
            captured'[c] # NotRead => c \in Using("closing")' /\ captured'[c] = Current(c)'
    BY <1>2 DEF DeviceInv, CapabilityIsTrue, Using, Current
  <2> QED BY <1>2, <2>2, <2>3 DEF CapabilityIsTrue, Using
<1> QED BY <1>3, <1>4, <1>5, <1>6 DEF DeviceInv

LEMMA BeginCloseStep ==
    ASSUME DeviceInv, NEW d \in Devices, BeginClose(d)
    PROVE  DeviceInv'
<1>1. /\ devices' \in [Devices -> [status : DeviceStatuses,
                                   address : Addresses \cup {NoAddress},
                                   hasFeature : BOOLEAN]]
      /\ devices[d].status = "live"
      /\ devices'[d].status = "closing"
      /\ devices'[d].address = devices[d].address
      /\ devices'[d].hasFeature = devices[d].hasFeature
      /\ \A e \in Devices : e # d => devices'[e] = devices[e]
      /\ UNCHANGED <<backendFlag, capability, captured, newest>>
  BY DEF BeginClose, DeviceInv, DeviceTypeOK, DeviceStatuses
<1>2. DeviceTypeOK'
  BY <1>1 DEF DeviceInv, DeviceTypeOK
<1>3. AddressesAreUnique'
  BY <1>1 DEF DeviceInv, AddressesAreUnique
<1>4. OneIsCreating'
  BY <1>1 DEF DeviceInv, OneIsCreating, Using
<1>5. CapabilityIsTrue'
  <2>1. \A e \in Devices : Current(e)' = Current(e)
    BY <1>1 DEF Current
  <2> QED BY <1>1, <2>1 DEF DeviceInv, CapabilityIsTrue, Using
<1> QED BY <1>2, <1>3, <1>4, <1>5 DEF DeviceInv

\* A closing device reads the capability as its own only if it is: no other
\* device has its address.
LEMMA ReadStep ==
    ASSUME DeviceInv, NEW d \in Devices, ReadCapability(d)
    PROVE  DeviceInv'
<1>1. /\ devices[d].status = "closing"
      /\ captured[d] = NotRead
      /\ UNCHANGED <<backendFlag, capability, newest>>
  BY DEF ReadCapability
<1>2. CASE capability.address # devices[d].address
  <2>1. /\ devices' \in [Devices -> [status : DeviceStatuses,
                                     address : Addresses \cup {NoAddress},
                                     hasFeature : BOOLEAN]]
        /\ devices'[d].status = "cleared"
        /\ devices'[d].address = devices[d].address
        /\ \A e \in Devices : e # d => devices'[e] = devices[e]
        /\ UNCHANGED captured
    BY <1>2 DEF ReadCapability, DeviceInv, DeviceTypeOK, DeviceStatuses
  <2>2. DeviceTypeOK'
    BY <1>1, <2>1 DEF DeviceInv, DeviceTypeOK
  <2>3. AddressesAreUnique'
    BY <1>1, <2>1 DEF DeviceInv, AddressesAreUnique
  <2>4. OneIsCreating'
    BY <1>1, <2>1 DEF DeviceInv, OneIsCreating, Using
  <2>5. CapabilityIsTrue'
    <3>1. capability # Current(d)
      BY <1>2, CapabilitiesDiffer DEF Current
    <3> QED BY <1>1, <2>1, <3>1 DEF DeviceInv, CapabilityIsTrue, Using, Current
  <2> QED BY <2>2, <2>3, <2>4, <2>5 DEF DeviceInv
<1>3. CASE capability.address = devices[d].address
  <2>1. UNCHANGED devices /\ captured' = [captured EXCEPT ![d] = capability]
    BY <1>3 DEF ReadCapability
  <2>2. capability = Current(d)
    <3>1. devices[d].address \in Addresses
      BY <1>1 DEF DeviceInv, AddressesAreUnique
    <3>2. capability # Empty
      <4>1. Empty.address = NoAddress
        BY DEF Empty, Published
      <4> QED BY <1>3, <3>1, <4>1, NullAssumption
    <3>3. PICK p \in Using("live") \cup Using("closing") : capability = Current(p)
      BY <3>2 DEF DeviceInv, CapabilityIsTrue
    <3>4. devices[p].address = devices[d].address
      BY <1>3, <3>3, CapabilitiesDiffer DEF Current
    <3>5. p = d
      BY <3>1, <3>3, <3>4, NullAssumption DEF DeviceInv, AddressesAreUnique, Using
    <3> QED BY <3>3, <3>5
  <2>3. DeviceTypeOK'
    BY <1>1, <2>1 DEF DeviceInv, DeviceTypeOK
  <2>4. AddressesAreUnique' /\ OneIsCreating'
    BY <1>1, <2>1 DEF DeviceInv, AddressesAreUnique, OneIsCreating, Using
  <2>5. CapabilityIsTrue'
    BY <1>1, <2>1, <2>2 DEF DeviceInv, DeviceTypeOK, CapabilityIsTrue, Using, Current
  <2> QED BY <2>3, <2>4, <2>5 DEF DeviceInv
<1> QED BY <1>2, <1>3

LEMMA ClearStep ==
    ASSUME DeviceInv, NEW d \in Devices, CompareAndClear(d)
    PROVE  DeviceInv'
<1>1. /\ devices[d].status = "closing"
      /\ captured[d] # NotRead
      /\ captured' = [captured EXCEPT ![d] = NotRead]
      /\ UNCHANGED <<backendFlag, newest>>
  BY DEF CompareAndClear
<1>2. captured' \in [Devices -> Capabilities]
  BY <1>1, CapabilitiesDiffer DEF DeviceInv, DeviceTypeOK
<1>3. CASE ~Swaps(d)
  <2>1. UNCHANGED <<devices, capability>>
    BY <1>3 DEF CompareAndClear
  <2>2. DeviceTypeOK'
    BY <1>1, <1>2, <2>1 DEF DeviceInv, DeviceTypeOK
  <2>3. AddressesAreUnique' /\ OneIsCreating'
    BY <1>1, <2>1 DEF DeviceInv, AddressesAreUnique, OneIsCreating, Using
  <2>4. CapabilityIsTrue'
    BY <1>1, <2>1 DEF DeviceInv, DeviceTypeOK, CapabilityIsTrue, Using, Current
  <2> QED BY <2>2, <2>3, <2>4 DEF DeviceInv
<1>4. CASE Swaps(d)
  <2>1. /\ devices' \in [Devices -> [status : DeviceStatuses,
                                     address : Addresses \cup {NoAddress},
                                     hasFeature : BOOLEAN]]
        /\ devices'[d].status = "cleared"
        /\ devices'[d].address = devices[d].address
        /\ \A e \in Devices : e # d => devices'[e] = devices[e]
        /\ capability' = Empty
    BY <1>4 DEF CompareAndClear, DeviceInv, DeviceTypeOK, DeviceStatuses
  <2>2. DeviceTypeOK'
    BY <1>1, <1>2, <2>1, CapabilitiesDiffer DEF DeviceInv, DeviceTypeOK
  <2>3. AddressesAreUnique'
    BY <1>1, <2>1 DEF DeviceInv, AddressesAreUnique
  <2>4. OneIsCreating'
    BY <1>1, <2>1 DEF DeviceInv, OneIsCreating, Using
  <2>5. CapabilityIsTrue'
    <3>1. capability = Current(d)
      BY <1>1, <1>4 DEF DeviceInv, CapabilityIsTrue, Swaps
    <3>2. newest \notin Using("live")
      <4>1. CASE newest = d
        BY <1>1, <4>1 DEF Using
      <4>2. CASE newest # d
        BY <3>1, <4>2, CapabilitiesDiffer DEF DeviceInv, CapabilityIsTrue, Current
      <4> QED BY <4>1, <4>2
    <3>3. newest' \notin Using("live")'
      BY <1>1, <2>1, <3>2 DEF Using
    <3>4. \A c \in Devices : captured'[c] # NotRead
            => c # d /\ captured'[c] = captured[c]
      BY <1>1 DEF DeviceInv, DeviceTypeOK
    <3>5. \A c \in Devices : captured'[c] # NotRead
            => c \in Using("closing")' /\ captured'[c] = Current(c)'
      BY <2>1, <3>4 DEF DeviceInv, CapabilityIsTrue, Using, Current
    <3> QED BY <2>1, <3>3, <3>5 DEF CapabilityIsTrue
  <2> QED BY <2>2, <2>3, <2>4, <2>5 DEF DeviceInv
<1> QED BY <1>3, <1>4

LEMMA DestroyDeviceStep ==
    ASSUME DeviceInv, NEW d \in Devices, DestroyDevice(d)
    PROVE  DeviceInv'
<1>1. /\ devices' \in [Devices -> [status : DeviceStatuses,
                                   address : Addresses \cup {NoAddress},
                                   hasFeature : BOOLEAN]]
      /\ devices[d].status = "cleared"
      /\ devices'[d].status = "destroyed"
      /\ devices'[d].address = NoAddress
      /\ \A e \in Devices : e # d => devices'[e] = devices[e]
      /\ UNCHANGED <<backendFlag, capability, captured, newest>>
  BY DEF DestroyDevice, DeviceInv, DeviceTypeOK, DeviceStatuses
<1>2. DeviceTypeOK'
  BY <1>1 DEF DeviceInv, DeviceTypeOK
<1>3. AddressesAreUnique'
  BY <1>1 DEF DeviceInv, AddressesAreUnique
<1>4. OneIsCreating'
  BY <1>1 DEF DeviceInv, OneIsCreating, Using
<1>5. CapabilityIsTrue'
  BY <1>1 DEF DeviceInv, CapabilityIsTrue, Using, Current
<1> QED BY <1>2, <1>3, <1>4, <1>5 DEF DeviceInv

LEMMA DeviceStep ==
    ASSUME DeviceInv, NEW d \in Devices, CreateOrCloseDevice(d)
    PROVE  DeviceInv'
BY NegotiateStep, CreateDeviceFailsStep, CreateDeviceReturnsStep, BeginCloseStep,
   ReadStep, ClearStep, DestroyDeviceStep DEF CreateOrCloseDevice

LEMMA DeviceInvariant == Spec => []DeviceInv
<1>1. InitDevices => DeviceInv
  <2> SUFFICES ASSUME InitDevices PROVE DeviceInv
    OBVIOUS
  <2> USE DEF InitDevices
  <2>1. DeviceTypeOK
    BY DEF DeviceTypeOK, DeviceStatuses, Capabilities, Published, Empty, NotRead
  <2>2. AddressesAreUnique
    BY DEF AddressesAreUnique
  <2>3. OneIsCreating
    BY DEF OneIsCreating, Using
  <2>4. CapabilityIsTrue
    BY NullAssumption DEF CapabilityIsTrue, Using
  <2> QED BY <2>1, <2>2, <2>3, <2>4 DEF DeviceInv
<1>2. DeviceInv /\ [\E d \in Devices : CreateOrCloseDevice(d)]_deviceVars => DeviceInv'
  <2>1. DeviceInv /\ (\E d \in Devices : CreateOrCloseDevice(d)) => DeviceInv'
    BY DeviceStep
  <2>2. DeviceInv /\ UNCHANGED deviceVars => DeviceInv'
    BY DEF DeviceInv, DeviceTypeOK, AddressesAreUnique, OneIsCreating,
           CapabilityIsTrue, Current, Using, deviceVars
  <2> QED BY <2>1, <2>2
<1> QED BY <1>1, <1>2, BootstrapChangesDevices, PTL DEF DeviceSpec

LEMMA DeviceInvImplies == DeviceInv => CapabilityIsTheNewestDevices
BY NullAssumption
   DEF DeviceInv, DeviceTypeOK, DeviceStatuses, AddressesAreUnique, CapabilityIsTrue,
       Current, Published, Empty, Using, CapabilityIsTheNewestDevices,
       IsBufferDeviceAddressEnabled

\* What the capability says of the newest device is true until that device
\* closes, and nobody is told yes of a device without the feature, for any
\* number of devices and addresses.  (VulkanDeviceCapabilityState)
THEOREM CapabilityIsTrueOfDevices == Spec => []CapabilityIsTheNewestDevices
BY DeviceInvImplies, DeviceInvariant, PTL

-----------------------------------------------------------------------------
(* The boundary.                                                           *)

BoundaryNext ==
    \/ \E r \in Runtimes :
        \/ \E isLoadable \in BOOLEAN : Load(r, isLoadable)
        \/ CreateRefused(r)
        \/ BeginCreate(r)
        \/ UseRuntime(r)
    \/ CreateSteps

BoundarySpec == InitBoundary /\ [][BoundaryNext]_boundaryVars

\* Seen from the boundary, the bootstrap creates, uses and closes runtimes.
LEMMA BootstrapUsesRuntimes == Spec => BoundarySpec
<1>1. Init => InitBoundary
  BY DEF Init
<1>2. scenario \in Scenarios /\ [Next]_vars => [BoundaryNext]_boundaryVars
  <2> SUFFICES ASSUME scenario \in Scenarios, [Next]_vars
               PROVE  [BoundaryNext]_boundaryVars
    OBVIOUS
  <2>1. CASE ExtractLibrary
    BY <2>1 DEF ExtractLibrary
  <2>2. CASE ChangeDevices
    BY <2>2 DEF ChangeDevices
  <2>3. CASE StepRuntimes
    <3>1. scenario.runtimes \subseteq Runtimes
      BY ScenariosAssumption
    <3> QED BY <2>3, <3>1 DEF StepRuntimes, CreateRuntime, BoundaryNext
  <2>4. CASE UNCHANGED vars
    BY <2>4 DEF vars
  <2> QED BY <2>1, <2>2, <2>3, <2>4 DEF Next
<1> QED BY <1>1, <1>2, ScenarioIsFixed, PTL DEF Spec, BoundarySpec

\* The segments after the boundary has cleared them, and after a begin has
\* written its own.
LEMMA ClearedIsZero ==
    ASSUME NEW results, NEW segments
    PROVE  /\ "begin" \in segments =>
                /\ Cleared(results, segments).begin = "zero"
                /\ Cleared(results, segments).metrics = "zero"
                /\ Cleared(results, segments).isMetricsValid = FALSE
           /\ "submit" \in segments => Cleared(results, segments).submit = "zero"
BY DEF Cleared

LEMMA WrittenIsFresh ==
    ASSUME NEW results, NEW segments, NEW isMetricsValid \in BOOLEAN
    PROVE  LET written == BeginWritten(Cleared(results, segments), isMetricsValid)
               both == [written EXCEPT !.submit = "fresh"]
           IN  /\ written.begin = "fresh"
               /\ both.begin = "fresh" /\ both.submit = "fresh"
               /\ WithMetrics(written) = {"fresh"}
               /\ WithMetrics(both) = {"fresh"}
BY DEF Cleared, BeginWritten, WithMetrics

LEMMA FrameCallReports ==
    ASSUME NEW r \in Runtimes, UseRuntime(r), ReportedByThisCall
    PROVE  ReportedByThisCall'
<1>1. CASE BeginFrame(r)
  <2>1. reported' \in {{"zero"}, {"fresh"}}
    <3> DEFINE results == Cleared(Aged(java[r].results), {"begin"})
    <3>1. results.begin = "zero"
      BY ClearedIsZero
    <3>2. ASSUME NEW v \in BOOLEAN
          PROVE  /\ BeginWritten(results, v).begin = "fresh"
                 /\ WithMetrics(BeginWritten(results, v)) = {"fresh"}
      <4>1. results = [begin |-> results.begin,
                       isMetricsValid |-> results.isMetricsValid,
                       metrics |-> results.metrics, submit |-> results.submit]
        BY DEF Cleared
      <4> HIDE DEF results
      <4> QED BY <4>1 DEF BeginWritten, WithMetrics
    <3> HIDE DEF results
    <3> QED BY <1>1, <3>1, <3>2 DEF BeginFrame, FrameCall, results
  <2> QED BY <2>1 DEF ReportedByThisCall
<1>2. CASE SubmitFrame(r)
  <2>1. reported' \in {{"zero"}, {"fresh"}}
    <3> DEFINE results == Cleared(Aged(java[r].results), {"submit"})
    <3>1. results.submit = "zero"
      BY ClearedIsZero
    <3> HIDE DEF results
    <3> QED BY <1>2, <3>1 DEF SubmitFrame, FrameCall, results
  <2> QED BY <2>1 DEF ReportedByThisCall
<1>3. CASE PresentClearFrame(r)
  <2>1. reported' \in {{"zero"}, {"fresh"}}
    <3> DEFINE results == Cleared(Aged(java[r].results), {"begin", "submit"})
               both(v) == [BeginWritten(results, v) EXCEPT !.submit = "fresh"]
    <3>1. results.begin = "zero" /\ results.submit = "zero"
      BY ClearedIsZero
    <3>2. \A v \in BOOLEAN :
            both(v).submit = "fresh" /\ WithMetrics(both(v)) = {"fresh"}
      BY WrittenIsFresh
    <3> HIDE DEF results, both
    <3> QED BY <1>3, <3>1, <3>2 DEF PresentClearFrame, FrameCall, results, both
  <2> QED BY <2>1 DEF ReportedByThisCall
<1>4. CASE Close(r)
  BY <1>4 DEF Close, ReportedByThisCall
<1> QED BY <1>1, <1>2, <1>3, <1>4 DEF UseRuntime

\* No result of an earlier call is ever handed out, for any number of runtimes
\* and calls.  (the boundary functions and NativePresentationRuntime)
THEOREM ResultsAreReportedByTheirCall == Spec => []ReportedByThisCall
<1>1. InitBoundary => ReportedByThisCall
  BY DEF InitBoundary, ReportedByThisCall
<1>2. ReportedByThisCall /\ [BoundaryNext]_boundaryVars => ReportedByThisCall'
  <2> SUFFICES ASSUME ReportedByThisCall, [BoundaryNext]_boundaryVars
               PROVE  ReportedByThisCall'
    OBVIOUS
  <2>1. CASE \E r \in Runtimes : UseRuntime(r)
    BY <2>1, FrameCallReports
  <2>2. CASE UNCHANGED reported
    BY <2>2 DEF ReportedByThisCall
  <2> QED BY <2>1, <2>2 DEF BoundaryNext, Load, CreateRefused, BeginCreate, CreateSteps,
        CallSucceeds, CallFails, AllocationThrows, FinishCreate, HeapIsExhausted,
        boundaryVars
<1> QED BY <1>1, <1>2, BootstrapUsesRuntimes, PTL DEF BoundarySpec
-----------------------------------------------------------------------------
(* Ownership.                                                              *)

Statuses == {"absent", "loaded", "creating", "open", "closed", "failed"}

VulkanObjects == [runtime : Runtimes, name : Names]

Ages == {"zero", "fresh", "stale"}

Results == [begin : Ages, isMetricsValid : BOOLEAN, metrics : Ages, submit : Ages]

JavaRuntimes ==
    [status : Statuses, address : HeapAddresses \cup {NoRuntime},
     isArenaAlive : BOOLEAN, results : Results]

HeapRuntimes ==
    [owner : Runtimes \cup {NoRuntime}, objects : SUBSET VulkanObjects,
     isFrameOpen : BOOLEAN]

BoundaryTypeOK ==
    /\ java \in [Runtimes -> JavaRuntimes]
    /\ heap \in [HeapAddresses -> HeapRuntimes]
    /\ building \in [runtime : Runtimes \cup {NoRuntime}, done : 0 .. Len(Calls)]
    /\ objects \subseteq VulkanObjects
    /\ orphans \subseteq objects

\* The create that runs has built what its calls so far create.
BuildingInv ==
    /\ \A r \in Runtimes : java[r].status \in {"loaded", "creating"} => java[r].isArenaAlive
    /\ \A r \in Runtimes : java[r].status = "creating" <=> building.runtime = r
    /\ building.runtime = NoRuntime => building = NotBuilding
    /\ \A r \in Runtimes, name \in Names :
        building.runtime = r =>
            (Object(r, name) \in objects <=> \E i \in 1 .. building.done : Calls[i] = name)

OpenInv ==
    \A r \in Runtimes :
        java[r].status = "open" =>
            /\ java[r].address \in HeapAddresses
            /\ heap[java[r].address].owner = r
            /\ \A name \in Names : Object(r, name) \in heap[java[r].address].objects
            /\ java[r].isArenaAlive

HeapInv ==
    \A a \in HeapAddresses :
        /\ heap[a].owner = NoRuntime => heap[a] = Unused
        /\ \A object \in heap[a].objects :
            object \in objects /\ object.runtime = heap[a].owner
        /\ heap[a].owner # NoRuntime =>
            \/ java[heap[a].owner].status = "open" /\ java[heap[a].owner].address = a
            \/ java[heap[a].owner].status = "closed" /\ heap[a].objects \subseteq orphans

\* An object is being built, in use, or left behind by a runtime that is over.
ObjectsInv ==
    /\ \A object \in objects :
        \/ java[object.runtime].status \in {"creating", "open"}
        \/ object \in orphans
    /\ \A object \in orphans : java[object.runtime].status \in {"closed", "failed"}

OwnershipInv == BoundaryTypeOK /\ BuildingInv /\ OpenInv /\ HeapInv /\ ObjectsInv

LEMMA ObjectsAreRecords ==
    /\ \A r \in Runtimes, name \in Names :
        /\ Object(r, name) \in VulkanObjects
        /\ Object(r, name).runtime = r
        /\ Object(r, name).name = name
    /\ \A object \in VulkanObjects :
        /\ object.runtime \in Runtimes
        /\ object.name \in Names
        /\ object = Object(object.runtime, object.name)
BY DEF VulkanObjects, Object

\* The calls of create, in their order.
LEMMA CallsInOrder ==
    /\ Len(Calls) = 9
    /\ DOMAIN Calls = 1 .. 9
    /\ \A i \in 1 .. 9 : Calls[i] = "pool" => i = 8
    /\ Calls[9] = "commandBuffers"
    /\ \A name \in Names : \E i \in 1 .. 9 : Calls[i] = name
<1>1. Len(Calls) = 9
  BY DEF Calls
<1>2. DOMAIN Calls = 1 .. 9
  BY DEF Calls
<1>3. \A i \in 1 .. 9 : Calls[i] = "pool" => i = 8
  <2>1. \A i \in 1 .. 9 : i \in {1, 2, 3, 4, 5, 6, 7, 8, 9}
    OBVIOUS
  <2> QED BY <2>1 DEF Calls
<1>4. Calls[9] = "commandBuffers"
  BY DEF Calls
<1>5. \A name \in Names : \E i \in 1 .. 9 : Calls[i] = name
  BY <1>2 DEF Names
<1> QED BY <1>1, <1>2, <1>3, <1>4, <1>5

LEMMA InitOwns == InitBoundary => OwnershipInv
<1> SUFFICES ASSUME InitBoundary PROVE OwnershipInv
  OBVIOUS
<1> USE DEF InitBoundary
<1>1. BoundaryTypeOK
  <2>1. NewRuntime \in JavaRuntimes
    BY DEF NewRuntime, JavaRuntimes, Statuses, ZeroedResults, Results, Ages
  <2>2. Unused \in HeapRuntimes
    BY DEF Unused, HeapRuntimes
  <2>3. building \in [runtime : Runtimes \cup {NoRuntime}, done : 0 .. Len(Calls)]
    BY CallsInOrder DEF NotBuilding
  <2> QED BY <2>1, <2>2, <2>3 DEF BoundaryTypeOK
<1>2. BuildingInv
  BY NoRuntimeAssumption DEF BuildingInv, NewRuntime, NotBuilding
<1>3. OpenInv
  BY DEF OpenInv, NewRuntime
<1>4. HeapInv
  BY DEF HeapInv, Unused
<1>5. ObjectsInv
  BY DEF ObjectsInv
<1> QED BY <1>1, <1>2, <1>3, <1>4, <1>5 DEF OwnershipInv

\* The library is loaded or not, or create is refused or begun: nothing exists
\* on the Native side before or after.
LEMMA StartStep ==
    ASSUME OwnershipInv, NEW r \in Runtimes,
           \/ \E isLoadable \in BOOLEAN : Load(r, isLoadable)
           \/ CreateRefused(r)
           \/ BeginCreate(r)
    PROVE  OwnershipInv'
<1> DEFINE StartsOnly ==
        /\ java' \in [Runtimes -> JavaRuntimes]
        /\ java[r].status \in {"absent", "loaded"}
        /\ java'[r].status \in {"loaded", "failed", "creating"}
        /\ java'[r].status # "failed" => java'[r].isArenaAlive
        /\ \A t \in Runtimes : t # r => java'[t] = java[t]
        /\ UNCHANGED <<heap, objects, orphans>>
    Builds ==
        \/ java'[r].status # "creating" /\ UNCHANGED building
        \/ /\ java'[r].status = "creating"
           /\ building = NotBuilding
           /\ building' = [runtime |-> r, done |-> 0]
<1>a. /\ java \in [Runtimes -> JavaRuntimes]
      /\ java[r] \in JavaRuntimes
      /\ java[r].status = "loaded" => java[r].isArenaAlive
  BY DEF OwnershipInv, BoundaryTypeOK, BuildingInv
<1>b. StartsOnly /\ Builds
  <2>1. CASE \E isLoadable \in BOOLEAN : Load(r, isLoadable)
    <3>1. PICK isLoadable \in BOOLEAN : Load(r, isLoadable)
      BY <2>1
    <3>2. CASE isLoadable
      BY <1>a, <3>1, <3>2 DEF Load, JavaRuntimes, Statuses
    <3>3. CASE ~isLoadable
      BY <1>a, <3>1, <3>3 DEF Load, JavaRuntimes, Statuses
    <3> QED BY <3>2, <3>3
  <2>2. CASE CreateRefused(r)
    BY <1>a, <2>2 DEF CreateRefused, Failed, JavaRuntimes, Statuses
  <2>3. CASE BeginCreate(r)
    BY <1>a, <2>3 DEF BeginCreate, JavaRuntimes, Statuses
  <2> QED BY <2>1, <2>2, <2>3
<1>1. StartsOnly
  BY <1>b
<1>2. Builds
  BY <1>b
<1>3. BoundaryTypeOK'
  BY <1>1, <1>2, CallsInOrder DEF OwnershipInv, BoundaryTypeOK
<1>4. BuildingInv'
  <2>1. CASE java'[r].status # "creating"
    BY <1>1, <1>2, <2>1 DEF OwnershipInv, BuildingInv
  <2>2. CASE java'[r].status = "creating"
    <3>1. \A name \in Names : Object(r, name) \notin objects
      BY <1>1, ObjectsAreRecords DEF OwnershipInv, ObjectsInv
    <3>2. \A t \in Runtimes : t # r => java[t].status # "creating"
      BY <1>2, <2>2, NoRuntimeAssumption DEF OwnershipInv, BuildingInv, NotBuilding
    <3>3. building'.runtime = r /\ building'.done = 0
      BY <1>2, <2>2
    <3> QED BY <1>1, <2>2, <3>1, <3>2, <3>3, NoRuntimeAssumption DEF OwnershipInv, BuildingInv
  <2> QED BY <2>1, <2>2
<1>5. OpenInv'
  BY <1>1 DEF OwnershipInv, OpenInv
<1>6. HeapInv'
  BY <1>1 DEF OwnershipInv, BoundaryTypeOK, HeapRuntimes, HeapInv
<1>7. ObjectsInv'
  BY <1>1, ObjectsAreRecords DEF OwnershipInv, BoundaryTypeOK, ObjectsInv
<1> QED BY <1>3, <1>4, <1>5, <1>6, <1>7 DEF OwnershipInv

\* The runtime that is being created, while a create runs.
LEMMA Creating ==
    ASSUME OwnershipInv, building # NotBuilding
    PROVE  /\ building.runtime \in Runtimes
           /\ java[building.runtime].status = "creating"
           /\ \A t \in Runtimes : java[t].status = "creating" => t = building.runtime
           /\ building.done \in 0 .. 9
           /\ java[building.runtime] \in JavaRuntimes
           /\ Built \subseteq objects
           /\ Built \cap orphans = {}
           /\ \A a \in HeapAddresses : Built \cap heap[a].objects = {}
           /\ \A a \in HeapAddresses : heap[a].owner # building.runtime
<1>1. building.runtime \in Runtimes
  BY DEF OwnershipInv, BoundaryTypeOK, BuildingInv
<1>2. java[building.runtime].status = "creating"
  BY <1>1 DEF OwnershipInv, BuildingInv
<1>3. \A a \in HeapAddresses : heap[a].owner # building.runtime
  BY <1>1, <1>2, NoRuntimeAssumption DEF OwnershipInv, HeapInv
<1>4. Built \cap orphans = {}
  BY <1>2 DEF OwnershipInv, ObjectsInv, Built
<1>5. \A a \in HeapAddresses : Built \cap heap[a].objects = {}
  BY <1>3 DEF OwnershipInv, HeapInv, Built
<1>6. /\ building.done \in 0 .. 9
      /\ java[building.runtime] \in JavaRuntimes
  BY <1>1, CallsInOrder DEF OwnershipInv, BoundaryTypeOK
<1>7. \A t \in Runtimes : java[t].status = "creating" => t = building.runtime
  BY DEF OwnershipInv, BuildingInv
<1> QED BY <1>1, <1>2, <1>3, <1>4, <1>5, <1>6, <1>7 DEF Built

LEMMA CallSucceedsStep ==
    ASSUME OwnershipInv, CallSucceeds
    PROVE  OwnershipInv'
<1> DEFINE r == building.runtime
           i == building.done + 1
<1>1. /\ building # NotBuilding
      /\ i \in 1 .. 9
      /\ building' = [runtime |-> r, done |-> i]
      /\ objects' = objects \cup {Object(r, name) : name \in {Calls[i]} \cap Names}
      /\ UNCHANGED <<java, heap, orphans>>
  BY CallsInOrder DEF OwnershipInv, BoundaryTypeOK, CallSucceeds, IsCalling, NextCall
<1>2. /\ r \in Runtimes
      /\ java[r].status = "creating"
      /\ \A t \in Runtimes : java[t].status = "creating" => t = r
  BY <1>1, Creating
<1> HIDE DEF r, i
<1>3. objects' \subseteq VulkanObjects
  BY <1>1, <1>2, ObjectsAreRecords DEF OwnershipInv, BoundaryTypeOK
<1>4. BoundaryTypeOK'
  BY <1>1, <1>2, <1>3, CallsInOrder DEF OwnershipInv, BoundaryTypeOK
<1>5. BuildingInv'
  <2>1. \A name \in Names :
            Object(r, name) \in objects' <=> Object(r, name) \in objects \/ Calls[i] = name
    BY <1>1, <1>2, ObjectsAreRecords
  <2>2. \A name \in Names :
            Object(r, name) \in objects <=> \E j \in 1 .. building.done : Calls[j] = name
    BY <1>2 DEF OwnershipInv, BuildingInv, r
  <2>3. \A j : j \in 1 .. i <=> j \in 1 .. building.done \/ j = i
    BY <1>1 DEF i, OwnershipInv, BoundaryTypeOK
  <2>4. building'.runtime = r /\ building'.done = i
    BY <1>1
  <2> QED BY <1>1, <1>2, <2>1, <2>2, <2>3, <2>4, NoRuntimeAssumption DEF OwnershipInv, BuildingInv
<1>6. OpenInv' /\ HeapInv'
  BY <1>1 DEF OwnershipInv, OpenInv, HeapInv
<1>7. ObjectsInv'
  BY <1>1, <1>2, ObjectsAreRecords DEF OwnershipInv, ObjectsInv
<1> QED BY <1>4, <1>5, <1>6, <1>7 DEF OwnershipInv

\* A create that ends without a runtime: what it has built is destroyed, or is
\* left to nobody.
LEMMA CreateEndsStep ==
    ASSUME OwnershipInv, building # NotBuilding,
           building' = NotBuilding,
           java' = Failed(building.runtime),
           UNCHANGED heap,
           \/ objects' = objects \ Built /\ UNCHANGED orphans
           \/ UNCHANGED objects /\ orphans' = orphans \cup Built
    PROVE  OwnershipInv'
<1> DEFINE r == building.runtime
<1>1. /\ r \in Runtimes
      /\ java[r].status = "creating"
      /\ \A t \in Runtimes : java[t].status = "creating" => t = r
      /\ java[r] \in JavaRuntimes
      /\ Built \subseteq objects
      /\ Built \cap orphans = {}
      /\ \A a \in HeapAddresses : Built \cap heap[a].objects = {}
      /\ \A a \in HeapAddresses : heap[a].owner # r
  BY Creating
<1>2. /\ java' \in [Runtimes -> JavaRuntimes]
      /\ java'[r].status = "failed"
      /\ \A t \in Runtimes : t # r => java'[t] = java[t]
  BY <1>1 DEF OwnershipInv, BoundaryTypeOK, Failed, JavaRuntimes, Statuses
<1>3. \A object \in objects : object \in Built <=> object.runtime = r
  BY DEF Built
<1> HIDE DEF r
<1>4. BoundaryTypeOK'
  BY <1>1, <1>2, CallsInOrder DEF OwnershipInv, BoundaryTypeOK, NotBuilding
<1>5. BuildingInv'
  BY <1>1, <1>2, NoRuntimeAssumption DEF OwnershipInv, BuildingInv, NotBuilding
<1>6. OpenInv'
  BY <1>1, <1>2 DEF OwnershipInv, OpenInv
<1>7. HeapInv'
  BY <1>1, <1>2 DEF OwnershipInv, BoundaryTypeOK, HeapRuntimes, HeapInv
<1>8. ObjectsInv'
  BY <1>1, <1>2, <1>3, ObjectsAreRecords DEF OwnershipInv, BoundaryTypeOK, ObjectsInv
<1> QED BY <1>4, <1>5, <1>6, <1>7, <1>8 DEF OwnershipInv

\* The rollback of a failing call takes everything: there is no pool before the
\* command buffers are allocated.
LEMMA RollbackIsComplete ==
    ASSUME OwnershipInv, IsCalling
    PROVE  RolledBack(NextCall) = Built
<1>1. building # NotBuilding /\ building.done < 9
  BY CallsInOrder DEF IsCalling
<1>2. building.runtime \in Runtimes /\ building.done \in 0 .. 9
  BY <1>1, Creating
<1>3. CASE building.done = 8
  BY <1>3, CallsInOrder DEF NextCall, RolledBack
<1>4. CASE building.done < 8
  <2>1. \A i \in 1 .. building.done : Calls[i] # "pool"
    BY <1>2, <1>4, CallsInOrder
  <2>2. \A object \in Built : object.name # "pool"
    <3> TAKE object \in Built
    <3>1. /\ object \in objects
          /\ object.runtime = building.runtime
          /\ object.name \in Names
          /\ object = Object(object.runtime, object.name)
      BY ObjectsAreRecords DEF Built, OwnershipInv, BoundaryTypeOK
    <3>2. \E i \in 1 .. building.done : Calls[i] = object.name
      BY <1>2, <3>1 DEF OwnershipInv, BuildingInv
    <3> QED BY <2>1, <3>2
  <2> QED BY <2>2 DEF RolledBack
<1> QED BY <1>1, <1>2, <1>3, <1>4

LEMMA FinishCreateStep ==
    ASSUME OwnershipInv, NEW address \in HeapAddresses, FinishCreate(address)
    PROVE  OwnershipInv'
<1> DEFINE r == building.runtime
           new == [owner |-> r, objects |-> Built, isFrameOpen |-> FALSE]
<1>1. /\ building # NotBuilding
      /\ ~IsCalling
      /\ heap[address] = Unused
      /\ heap' = [heap EXCEPT ![address] = new]
      /\ java' = [java EXCEPT ![r].status = "open", ![r].address = address]
      /\ building' = NotBuilding
      /\ UNCHANGED <<objects, orphans>>
  BY DEF FinishCreate
<1>2. /\ r \in Runtimes
      /\ java[r].status = "creating"
      /\ \A t \in Runtimes : java[t].status = "creating" => t = r
      /\ java[r] \in JavaRuntimes
      /\ building.done = 9
      /\ \A a \in HeapAddresses : heap[a].owner # r
  BY <1>1, Creating, CallsInOrder DEF IsCalling
<1>3. /\ java' \in [Runtimes -> JavaRuntimes]
      /\ java'[r].status = "open"
      /\ java'[r].address = address
      /\ java'[r].isArenaAlive = java[r].isArenaAlive
      /\ \A t \in Runtimes : t # r => java'[t] = java[t]
  BY <1>1, <1>2 DEF OwnershipInv, BoundaryTypeOK, JavaRuntimes, Statuses
<1>4. /\ heap' \in [HeapAddresses -> HeapRuntimes]
      /\ heap'[address].owner = r
      /\ heap'[address].objects = Built
      /\ \A a \in HeapAddresses : a # address => heap'[a] = heap[a]
  <2>1. new \in HeapRuntimes
    BY <1>2 DEF OwnershipInv, BoundaryTypeOK, HeapRuntimes, Built
  <2> QED BY <1>1, <2>1 DEF OwnershipInv, BoundaryTypeOK
<1>5. java[r].isArenaAlive
  BY <1>2 DEF OwnershipInv, BuildingInv
<1>6. \A name \in Names : Object(r, name) \in Built
  <2>1. \A name \in Names : Object(r, name) \in objects
    BY <1>2, CallsInOrder DEF OwnershipInv, BuildingInv
  <2> QED BY <1>2, <2>1, ObjectsAreRecords DEF Built
<1>7. \A object \in Built : object \in objects /\ object.runtime = r
  BY DEF Built
<1> HIDE DEF r, new
<1>8. BoundaryTypeOK'
  BY <1>1, <1>3, <1>4, CallsInOrder DEF OwnershipInv, BoundaryTypeOK, NotBuilding
<1>9. BuildingInv'
  BY <1>1, <1>2, <1>3, NoRuntimeAssumption DEF OwnershipInv, BuildingInv, NotBuilding
<1>10. OpenInv'
  <2>1. \A t \in Runtimes \ {r} : java[t].status = "open" => java[t].address # address
    BY <1>1, NoRuntimeAssumption DEF OwnershipInv, OpenInv, Unused
  <2> SUFFICES ASSUME NEW t \in Runtimes, java'[t].status = "open"
               PROVE  /\ java'[t].address \in HeapAddresses
                      /\ heap'[java'[t].address].owner = t
                      /\ \A name \in Names :
                            Object(t, name) \in heap'[java'[t].address].objects
                      /\ java'[t].isArenaAlive
    BY DEF OpenInv
  <2>2. CASE t = r
    BY <1>3, <1>4, <1>5, <1>6, <2>2
  <2>3. CASE t # r
    BY <1>3, <1>4, <2>1, <2>3 DEF OwnershipInv, OpenInv
  <2> QED BY <2>2, <2>3
<1>11. HeapInv'
  BY <1>1, <1>2, <1>3, <1>4, <1>7, NoRuntimeAssumption
     DEF OwnershipInv, BoundaryTypeOK, HeapRuntimes, HeapInv
<1>12. ObjectsInv'
  BY <1>1, <1>2, <1>3, ObjectsAreRecords DEF OwnershipInv, BoundaryTypeOK, ObjectsInv
<1> QED BY <1>8, <1>9, <1>10, <1>11, <1>12 DEF OwnershipInv

LEMMA CreateStep ==
    ASSUME OwnershipInv, CreateSteps
    PROVE  OwnershipInv'
<1>1. CASE CallSucceeds
  BY <1>1, CallSucceedsStep
<1>2. CASE CallFails
  <2>1. IsCalling
    BY <1>2 DEF CallFails
  <2>2. RolledBack(NextCall) = Built
    BY <2>1, RollbackIsComplete
  <2> QED BY <1>2, <2>1, <2>2, CreateEndsStep DEF CallFails, IsCalling
<1>3. CASE AllocationThrows
  BY <1>3, CreateEndsStep DEF AllocationThrows, IsCalling
<1>4. CASE \E address \in HeapAddresses : FinishCreate(address)
  BY <1>4, FinishCreateStep
<1>5. CASE HeapIsExhausted
  BY <1>5, CreateEndsStep DEF HeapIsExhausted
<1> QED BY <1>1, <1>2, <1>3, <1>4, <1>5 DEF CreateSteps

\* A frame call changes no owner.
LEMMA FrameCallStep ==
    ASSUME OwnershipInv, NEW r \in Runtimes, IsOpen(r),
           NEW results \in Results, NEW handedOut, NEW isFrameOpen \in BOOLEAN,
           FrameCall(r, results, handedOut, isFrameOpen)
    PROVE  OwnershipInv'
<1>1. /\ java[r] \in JavaRuntimes
      /\ java[r].address \in HeapAddresses
      /\ heap[java[r].address] \in HeapRuntimes
      /\ heap[java[r].address].owner = r
  BY DEF IsOpen, OwnershipInv, BoundaryTypeOK, OpenInv
<1>2. /\ java' \in [Runtimes -> JavaRuntimes]
      /\ \A t \in Runtimes : /\ java'[t].status = java[t].status
                             /\ java'[t].address = java[t].address
                             /\ java'[t].isArenaAlive = java[t].isArenaAlive
  BY <1>1 DEF FrameCall, OwnershipInv, BoundaryTypeOK, JavaRuntimes
<1>3. /\ heap' \in [HeapAddresses -> HeapRuntimes]
      /\ \A a \in HeapAddresses : /\ heap'[a].owner = heap[a].owner
                                  /\ heap'[a].objects = heap[a].objects
                                  /\ a # java[r].address => heap'[a] = heap[a]
  BY <1>1 DEF FrameCall, OwnershipInv, BoundaryTypeOK, HeapRuntimes
<1>4. UNCHANGED <<building, objects, orphans>>
  BY DEF FrameCall
<1>5. BoundaryTypeOK'
  BY <1>2, <1>3, <1>4 DEF OwnershipInv, BoundaryTypeOK
<1>6. BuildingInv'
  BY <1>2, <1>4 DEF OwnershipInv, BuildingInv
<1>7. OpenInv'
  BY <1>2, <1>3 DEF OwnershipInv, OpenInv
<1>8. HeapInv'
  BY <1>1, <1>2, <1>3, <1>4, NoRuntimeAssumption
     DEF OwnershipInv, BoundaryTypeOK, HeapRuntimes, HeapInv
<1>9. ObjectsInv'
  BY <1>2, <1>4, ObjectsAreRecords DEF OwnershipInv, BoundaryTypeOK, ObjectsInv
<1> QED BY <1>5, <1>6, <1>7, <1>8, <1>9 DEF OwnershipInv

\* The segments keep their type.
LEMMA ClearedIsTyped ==
    ASSUME NEW results \in Results, NEW segments, NEW v \in BOOLEAN
    PROVE  /\ Cleared(Aged(results), segments) \in Results
           /\ BeginWritten(Cleared(Aged(results), segments), v) \in Results
           /\ [Cleared(Aged(results), segments) EXCEPT !.submit = "fresh"] \in Results
           /\ [BeginWritten(Cleared(Aged(results), segments), v)
                    EXCEPT !.submit = "fresh"] \in Results
<1>1. Aged(results) \in Results
  BY DEF Aged, Older, Results, Ages
<1>2. Cleared(Aged(results), segments) \in Results
  BY <1>1 DEF Cleared, Results, Ages
<1>3. BeginWritten(Cleared(Aged(results), segments), v) \in Results
  BY <1>2 DEF BeginWritten, Results, Ages
<1> QED BY <1>2, <1>3 DEF Results, Ages

LEMMA CloseStep ==
    ASSUME OwnershipInv, NEW r \in Runtimes, Close(r)
    PROVE  OwnershipInv'
<1> DEFINE a == java[r].address
<1>1. /\ java[r] \in JavaRuntimes
      /\ java[r].status = "open"
      /\ a \in HeapAddresses
      /\ heap[a] \in HeapRuntimes
      /\ heap[a].owner = r
      /\ \A name \in Names : Object(r, name) \in heap[a].objects
  BY DEF Close, IsOpen, OwnershipInv, BoundaryTypeOK, OpenInv
<1>2. /\ java' = [java EXCEPT ![r].isArenaAlive = FALSE, ![r].status = "closed"]
      /\ UNCHANGED building
      /\ \/ /\ objects' = objects \ heap[a].objects
            /\ heap' = [heap EXCEPT ![a] = Unused]
            /\ UNCHANGED orphans
         \/ /\ orphans' = orphans \cup heap[a].objects
            /\ UNCHANGED <<heap, objects>>
  <2>1. java' = [[java EXCEPT ![r].isArenaAlive = FALSE] EXCEPT ![r].status = "closed"]
    BY DEF Close, ClosedFirst
  <2>2. java' = [java EXCEPT ![r].isArenaAlive = FALSE, ![r].status = "closed"]
    BY <2>1
  <2> QED BY <2>2 DEF Close
<1>3. /\ java' \in [Runtimes -> JavaRuntimes]
      /\ java'[r].status = "closed"
      /\ \A t \in Runtimes : t # r => java'[t] = java[t]
  BY <1>1, <1>2 DEF OwnershipInv, BoundaryTypeOK, JavaRuntimes, Statuses
<1>4. /\ \A object \in heap[a].objects : object \in objects /\ object.runtime = r
      /\ \A object \in objects : object.runtime = r <=> object \in heap[a].objects
  <2>1. \A object \in heap[a].objects : object \in objects /\ object.runtime = r
    BY <1>1 DEF OwnershipInv, HeapInv
  <2>2. \A object \in objects : object.runtime = r => object \in heap[a].objects
    <3> SUFFICES ASSUME NEW object \in objects, object.runtime = r
                 PROVE  object \in heap[a].objects
      OBVIOUS
    <3>1. object.name \in Names /\ object = Object(r, object.name)
      BY ObjectsAreRecords DEF OwnershipInv, BoundaryTypeOK
    <3> QED BY <1>1, <3>1
  <2> QED BY <2>1, <2>2
<1>5. \A b \in HeapAddresses : b # a => heap[b].owner # r
  BY <1>1, NoRuntimeAssumption DEF OwnershipInv, HeapInv
<1>6. \A object \in orphans : object.runtime # r
  BY <1>1 DEF OwnershipInv, ObjectsInv
<1>7. \/ /\ objects' = objects \ heap[a].objects
         /\ heap' \in [HeapAddresses -> HeapRuntimes]
         /\ heap'[a] = Unused
         /\ \A b \in HeapAddresses : b # a => heap'[b] = heap[b]
         /\ UNCHANGED orphans
      \/ /\ orphans' = orphans \cup heap[a].objects
         /\ UNCHANGED <<heap, objects>>
  <2>1. Unused \in HeapRuntimes
    BY DEF Unused, HeapRuntimes
  <2> QED BY <1>1, <1>2, <2>1 DEF OwnershipInv, BoundaryTypeOK
<1> HIDE DEF a
<1>8. BoundaryTypeOK'
  BY <1>2, <1>3, <1>4, <1>6, <1>7 DEF OwnershipInv, BoundaryTypeOK
<1>9. BuildingInv'
  <2>1. building.runtime # r
    BY <1>1 DEF OwnershipInv, BuildingInv
  <2>2. \A t \in Runtimes, name \in Names :
            t # r => (Object(t, name) \in objects' <=> Object(t, name) \in objects)
    BY <1>4, <1>7, ObjectsAreRecords
  <2> QED BY <1>2, <1>3, <2>1, <2>2 DEF OwnershipInv, BuildingInv
<1>10. OpenInv'
  BY <1>1, <1>3, <1>7 DEF OwnershipInv, OpenInv
<1>11. HeapInv'
  <2>1. CASE orphans' = orphans \cup heap[a].objects /\ UNCHANGED <<heap, objects>>
    BY <1>1, <1>3, <1>5, <1>7, <2>1
       DEF OwnershipInv, BoundaryTypeOK, HeapRuntimes, HeapInv
  <2>2. CASE /\ objects' = objects \ heap[a].objects
             /\ heap'[a] = Unused
             /\ \A b \in HeapAddresses : b # a => heap'[b] = heap[b]
             /\ UNCHANGED orphans
    <3>1. Unused.owner = NoRuntime /\ Unused.objects = {}
      BY DEF Unused
    <3> QED BY <1>1, <1>3, <1>4, <1>5, <2>2, <3>1
            DEF OwnershipInv, BoundaryTypeOK, HeapRuntimes, HeapInv
  <2> QED BY <1>7, <2>1, <2>2
<1>12. ObjectsInv'
  BY <1>1, <1>3, <1>4, <1>6, <1>7, ObjectsAreRecords
     DEF OwnershipInv, BoundaryTypeOK, ObjectsInv
<1> QED BY <1>8, <1>9, <1>10, <1>11, <1>12 DEF OwnershipInv

LEMMA UseStep ==
    ASSUME OwnershipInv, NEW r \in Runtimes, UseRuntime(r)
    PROVE  OwnershipInv'
<1>1. CASE Close(r)
  BY <1>1, CloseStep
<1>2. CASE ~Close(r)
  <2>1. /\ IsOpen(r)
        /\ java[r].results \in Results
        /\ IsFrameOpen(r) \in BOOLEAN
    <3>1. IsOpen(r)
      BY <1>2 DEF UseRuntime, BeginFrame, SubmitFrame, PresentClearFrame
    <3> QED BY <3>1 DEF IsOpen, IsFrameOpen, OwnershipInv, BoundaryTypeOK, OpenInv,
                        JavaRuntimes, HeapRuntimes
  <2>2. \E results \in Results, isFrameOpen \in BOOLEAN :
            \E handedOut : FrameCall(r, results, handedOut, isFrameOpen)
    <3>1. CASE BeginFrame(r)
      <4> DEFINE results == Cleared(Aged(java[r].results), {"begin"})
      <4>1. /\ results \in Results
            /\ \A v \in BOOLEAN : BeginWritten(results, v) \in Results
        BY <2>1, ClearedIsTyped
      <4> HIDE DEF results
      <4> QED BY <2>1, <3>1, <4>1 DEF BeginFrame, results
    <3>2. CASE SubmitFrame(r)
      <4> DEFINE results == Cleared(Aged(java[r].results), {"submit"})
      <4>1. results \in Results /\ [results EXCEPT !.submit = "fresh"] \in Results
        BY <2>1, ClearedIsTyped
      <4>2. \A isStillOpen \in BOOLEAN : (IsFrameOpen(r) /\ isStillOpen) \in BOOLEAN
        OBVIOUS
      <4> HIDE DEF results
      <4> QED BY <2>1, <3>2, <4>1, <4>2 DEF SubmitFrame, results
    <3>3. CASE PresentClearFrame(r)
      <4> DEFINE results == Cleared(Aged(java[r].results), {"begin", "submit"})
      <4>1. /\ results \in Results
            /\ \A v \in BOOLEAN :
                [BeginWritten(results, v) EXCEPT !.submit = "fresh"] \in Results
        BY <2>1, ClearedIsTyped
      <4> HIDE DEF results
      <4> QED BY <3>3, <4>1 DEF PresentClearFrame, results
    <3> QED BY <1>2, <3>1, <3>2, <3>3 DEF UseRuntime
  <2> QED BY <2>1, <2>2, FrameCallStep
<1> QED BY <1>1, <1>2

LEMMA OwnershipInvariant == Spec => []OwnershipInv
<1>1. OwnershipInv /\ [BoundaryNext]_boundaryVars => OwnershipInv'
  <2>1. OwnershipInv /\ BoundaryNext => OwnershipInv'
    BY StartStep, UseStep, CreateStep DEF BoundaryNext
  <2>2. OwnershipInv /\ UNCHANGED boundaryVars => OwnershipInv'
    BY DEF OwnershipInv, BoundaryTypeOK, BuildingInv, OpenInv, HeapInv, ObjectsInv,
           boundaryVars
  <2> QED BY <2>1, <2>2
<1> QED BY <1>1, InitOwns, BootstrapUsesRuntimes, PTL DEF BoundarySpec

\* Every Vulkan object and every heap runtime has one owner, for any number of
\* creations and addresses: a runtime that is being created, an open one that
\* knows where it is, or nobody, behind a failed allocation or destroy call.
\* (VulkanPresentationRuntime::create, the boundary and NativePresentationRuntime)
THEOREM EverythingIsOwned == Spec => []EverythingHasOneOwner
<1>1. OwnershipInv => EverythingHasOneOwner
  <2> SUFFICES ASSUME OwnershipInv PROVE EverythingHasOneOwner
    OBVIOUS
  <2>1. ASSUME NEW r \in Runtimes, IsOpen(r)
        PROVE  /\ heap[java[r].address].owner = r
               /\ heap[java[r].address].objects = {Object(r, name) : name \in Names}
               /\ java[r].isArenaAlive
    <3> DEFINE a == java[r].address
    <3>1. /\ a \in HeapAddresses
          /\ heap[a].owner = r
          /\ \A name \in Names : Object(r, name) \in heap[a].objects
          /\ java[r].isArenaAlive
      BY <2>1 DEF IsOpen, OwnershipInv, OpenInv
    <3>2. \A object \in heap[a].objects : object \in VulkanObjects /\ object.runtime = r
      BY <3>1 DEF OwnershipInv, BoundaryTypeOK, HeapInv
    <3> HIDE DEF a
    <3>3. heap[a].objects = {Object(r, name) : name \in Names}
      BY <3>1, <3>2, ObjectsAreRecords
    <3> QED BY <3>1, <3>3 DEF a
  <2>2. ASSUME NEW a \in HeapAddresses, heap[a] # Unused
        PROVE  /\ heap[a].objects \subseteq objects
               /\ \/ IsOpen(heap[a].owner) /\ java[heap[a].owner].address = a
                  \/ heap[a].objects \subseteq orphans
    BY <2>2 DEF IsOpen, OwnershipInv, HeapInv
  <2>3. objects = Built \cup orphans \cup UNION {heap[a].objects : a \in HeapAddresses}
    <3>1. ASSUME NEW object \in objects, object \notin orphans
          PROVE  object \in Built \cup UNION {heap[a].objects : a \in HeapAddresses}
      <4>1. /\ object.runtime \in Runtimes
            /\ object.name \in Names
            /\ object = Object(object.runtime, object.name)
            /\ java[object.runtime].status \in {"creating", "open"}
        BY <3>1, ObjectsAreRecords DEF OwnershipInv, BoundaryTypeOK, ObjectsInv
      <4>2. CASE java[object.runtime].status = "creating"
        BY <4>1, <4>2 DEF OwnershipInv, BuildingInv, Built
      <4>3. CASE java[object.runtime].status = "open"
        BY <4>1, <4>3 DEF OwnershipInv, OpenInv
      <4> QED BY <4>1, <4>2, <4>3
    <3>2. Built \cup orphans \cup UNION {heap[a].objects : a \in HeapAddresses} \subseteq objects
      BY DEF OwnershipInv, BoundaryTypeOK, HeapInv, Built
    <3> QED BY <3>1, <3>2
  <2> QED BY <2>1, <2>2, <2>3 DEF EverythingHasOneOwner
<1> QED BY <1>1, OwnershipInvariant, PTL

-----------------------------------------------------------------------------
(* What a runtime stands on, across the three parts.                       *)

Started(r) == java[r].status \in {"loaded", "creating", "open"}

\* A runtime from the loading of the library to its close finds the whole
\* library at the path, and the device it borrowed alive and created with
\* bufferDeviceAddress, whatever other devices have had its address.
\* (CorePresentationRuntimeFactory.create behind the readiness holder, the
\* device capability state and VulkanGpuSurfaceMixin's close)
RuntimesFit ==
    \A r \in Runtimes :
        Started(r) =>
            /\ library = "complete"
            /\ deviceOf[r] \in Using("live")
            /\ devices[deviceOf[r]].hasFeature

FitInv == deviceOf \in [Runtimes -> Devices \cup {NoDevice}] /\ RuntimesFit

Known == ExtractionInv /\ DeviceInv /\ OwnershipInv /\ scenario \in Scenarios

\* A complete library stays: it is replaced by complete ones only, and nobody
\* is copying into it.
LEMMA CompleteStays ==
    ASSUME ExtractionInv, library = "complete", ExtractionNext
    PROVE  library' = "complete"
<1>1. ASSUME NEW c \in Callers, Extract(c)
      PROVE  library' = "complete"
  BY <1>1 DEF ExtractionInv, Extract, CheckExisting, Verify, WriteTemporary,
              ThrowIOException, MoveAtomically, MoveWithoutReplacement, FinishCopy
<1>2. KillProcess => library' = "complete"
  BY DEF KillProcess
<1> QED BY <1>1, <1>2 DEF ExtractionNext

\* A live device is left alone by everything but its own close.
LEMMA LiveStays ==
    ASSUME DeviceInv, NEW d \in Devices, CreateOrCloseDevice(d),
           NEW e \in Using("live"),
           e # d \/ devices'[d].status # "closing"
    PROVE  devices'[e] = devices[e]
<1>1. /\ devices \in [Devices -> [status : DeviceStatuses,
                                  address : Addresses \cup {NoAddress},
                                  hasFeature : BOOLEAN]]
      /\ e \in Devices
      /\ devices[e].status = "live"
  BY DEF DeviceInv, DeviceTypeOK, Using
<1>2. CASE e # d
  BY <1>1, <1>2 DEF CreateOrCloseDevice, Negotiate, CreateDeviceFails, CreateDeviceReturns,
                    BeginClose, ReadCapability, CompareAndClear, DestroyDevice
<1>3. CASE e = d
  <2>1. BeginClose(d)
    BY <1>1, <1>3 DEF CreateOrCloseDevice, Negotiate, CreateDeviceFails,
                      CreateDeviceReturns, ReadCapability, CompareAndClear, DestroyDevice
  <2>2. devices'[d].status = "closing"
    BY <1>1, <1>3, <2>1 DEF BeginClose
  <2> QED BY <1>3, <2>2
<1> QED BY <1>2, <1>3

\* Only the loading starts a runtime.
LEMMA NobodyElseStarts ==
    ASSUME OwnershipInv,
           \/ \E r \in Runtimes : CreateRefused(r) \/ BeginCreate(r) \/ UseRuntime(r)
           \/ CreateSteps,
           NEW t \in Runtimes, Started(t)'
    PROVE  Started(t)
<1>1. java \in [Runtimes -> JavaRuntimes]
  BY DEF OwnershipInv, BoundaryTypeOK
<1>2. ASSUME NEW r \in Runtimes, CreateRefused(r) \/ BeginCreate(r)
      PROVE  Started(t)
  BY <1>1, <1>2 DEF CreateRefused, BeginCreate, Failed, Started, JavaRuntimes
<1>3. ASSUME NEW r \in Runtimes, UseRuntime(r)
      PROVE  Started(t)
  <2>1. CASE Close(r)
    BY <1>1, <2>1 DEF Close, ClosedFirst, Started, JavaRuntimes
  <2>2. CASE BeginFrame(r) \/ SubmitFrame(r) \/ PresentClearFrame(r)
    <3>1. \E results : java' = [java EXCEPT ![r].results = results]
      BY <2>2 DEF BeginFrame, SubmitFrame, PresentClearFrame, FrameCall
    <3>2. java'[t].status = java[t].status
      BY <1>1, <3>1 DEF JavaRuntimes
    <3> QED BY <3>2 DEF Started
  <2> QED BY <1>3, <2>1, <2>2 DEF UseRuntime
<1>4. ASSUME CreateSteps
      PROVE  Started(t)
  <2>1. CASE UNCHANGED java
    BY <2>1 DEF Started
  <2>2. CASE building # NotBuilding /\ java' = Failed(building.runtime)
    BY <1>1, <2>2 DEF Failed, Started, JavaRuntimes
  <2>3. CASE \E address \in HeapAddresses : FinishCreate(address)
    <3>1. PICK address \in HeapAddresses : FinishCreate(address)
      BY <2>3
    <3>2. java[building.runtime].status = "creating"
      BY <3>1, Creating DEF FinishCreate
    <3> QED BY <1>1, <3>1, <3>2 DEF FinishCreate, Started, JavaRuntimes
  <2> QED BY <1>4, <2>1, <2>2, <2>3
          DEF CreateSteps, CallSucceeds, CallFails, AllocationThrows, HeapIsExhausted, IsCalling
<1> QED BY <1>2, <1>3, <1>4

\* The device and the library are what they are when a runtime is started.
LEMMA StartedFits ==
    ASSUME Known, FitInv, NEW r \in Runtimes, CreateRuntime(r),
           UNCHANGED <<deviceVars, extractionVars>>
    PROVE  FitInv'
<1>1. PICK d \in Devices, isLoadable \in BOOLEAN :
        /\ HandlesAreBorrowed(d)
        /\ isLoadable => library = "complete"
        /\ Load(r, isLoadable)
        /\ deviceOf' = [deviceOf EXCEPT ![r] = d]
  BY DEF CreateRuntime
<1>2. java \in [Runtimes -> JavaRuntimes]
  BY DEF Known, OwnershipInv, BoundaryTypeOK
<1>3. /\ deviceOf' \in [Runtimes -> Devices \cup {NoDevice}]
      /\ deviceOf'[r] = d
      /\ \A t \in Runtimes : t # r => deviceOf'[t] = deviceOf[t]
  BY <1>1 DEF FitInv
<1>4. /\ Started(r)' => library = "complete"
      /\ \A t \in Runtimes : t # r => (Started(t)' <=> Started(t))
  BY <1>1, <1>2 DEF Load, Started, JavaRuntimes
<1>5. d \in Using("live") /\ devices[d].hasFeature
  BY <1>1, DeviceInvImplies DEF Known, HandlesAreBorrowed, CapabilityIsTheNewestDevices
<1>6. UNCHANGED <<library, devices>>
  BY DEF deviceVars, extractionVars
<1> QED BY <1>3, <1>4, <1>5, <1>6 DEF FitInv, RuntimesFit, Using

\* A device is closed behind its runtimes.
LEMMA DevicesStayUnderRuntimes ==
    ASSUME Known, FitInv, ChangeDevices
    PROVE  FitInv'
<1>1. PICK d \in scenario.devices :
        /\ CreateOrCloseDevice(d)
        /\ Running(d) # {} => devices'[d].status # "closing"
  BY DEF ChangeDevices
<1>2. d \in Devices
  BY ScenariosAssumption DEF Known
<1>3. UNCHANGED <<java, library, deviceOf>>
  BY DEF ChangeDevices, extractionVars, boundaryVars
<1>4. ASSUME NEW r \in Runtimes, Started(r)
      PROVE  devices'[deviceOf[r]] = devices[deviceOf[r]]
  <2>1. deviceOf[r] \in Using("live")
    BY <1>4 DEF FitInv, RuntimesFit
  <2>2. deviceOf[r] = d => r \in Running(d)
    BY <1>4 DEF Running, Started
  <2> QED BY <1>1, <1>2, <2>1, <2>2, LiveStays DEF Known
<1> QED BY <1>3, <1>4 DEF FitInv, RuntimesFit, Started, Using

LEMMA FitStep ==
    ASSUME Known, FitInv, [Next]_vars
    PROVE  FitInv'
<1>1. CASE ExtractLibrary
  <2>1. ExtractionNext
    BY <1>1, ScenariosAssumption DEF Known, ExtractLibrary, ExtractionNext
  <2>2. library = "complete" => library' = "complete"
    BY <2>1, CompleteStays DEF Known
  <2>3. UNCHANGED <<java, devices, deviceOf>>
    BY <1>1 DEF ExtractLibrary, deviceVars, boundaryVars, bootstrapVars
  <2> QED BY <2>2, <2>3 DEF FitInv, RuntimesFit, Started, Using
<1>2. CASE ChangeDevices
  BY <1>2, DevicesStayUnderRuntimes
<1>3. CASE StepRuntimes
  <2>1. scenario.runtimes \subseteq Runtimes
    BY ScenariosAssumption DEF Known
  <2>2. UNCHANGED <<deviceVars, extractionVars>>
    BY <1>3 DEF StepRuntimes
  <2>3. CASE \E r \in scenario.runtimes : CreateRuntime(r)
    BY <2>1, <2>2, <2>3, StartedFits
  <2>4. CASE ~ \E r \in scenario.runtimes : CreateRuntime(r)
    <3>1. /\ \/ \E r \in Runtimes : CreateRefused(r) \/ BeginCreate(r) \/ UseRuntime(r)
             \/ CreateSteps
          /\ UNCHANGED bootstrapVars
      BY <1>3, <2>1, <2>4 DEF StepRuntimes
    <3>2. \A t \in Runtimes : Started(t)' => Started(t)
      BY <3>1, NobodyElseStarts DEF Known
    <3>3. UNCHANGED <<library, devices, deviceOf>>
      BY <2>2, <3>1 DEF deviceVars, extractionVars, bootstrapVars
    <3> QED BY <3>2, <3>3 DEF FitInv, RuntimesFit, Using
  <2> QED BY <2>3, <2>4
<1>4. CASE UNCHANGED vars
  BY <1>4 DEF vars, deviceVars, extractionVars, boundaryVars, bootstrapVars,
              FitInv, RuntimesFit, Started, Using
<1> QED BY <1>1, <1>2, <1>3, <1>4 DEF Next

\* No runtime is started on a library that is not whole, or on a device that
\* lacks the feature or goes before it, for any number of callers, devices and
\* runtimes, and whoever wins which race.
\* (CorePresentationRuntimeFactory.create, and the three parts below it)
THEOREM RuntimesFitTheirDevices == Spec => []RuntimesFit
<1>1. Init => FitInv
  BY DEF Init, InitBoundary, NewRuntime, FitInv, RuntimesFit, Started
<1>2. Known /\ FitInv /\ [Next]_vars => FitInv'
  BY FitStep
<1>3. FitInv => RuntimesFit
  BY DEF FitInv
<1> QED BY <1>1, <1>2, <1>3, ExtractionInvariant, DeviceInvariant, OwnershipInvariant,
           ScenarioIsFixed, PTL DEF Spec, Known
=============================================================================
