------------------------ MODULE PresentationBootstrap ------------------------
(***************************************************************************)
(* From the start of the client to a runtime: the library is extracted     *)
(* once, Minecraft creates its devices and closes them, and a runtime is   *)
(* created, used and closed for a surface on the device of the moment,     *)
(* provided that there is a library path and that the device has been      *)
(* published as one with bufferDeviceAddress.                              *)
(***************************************************************************)
EXTENDS DeviceCapability, LibraryExtraction, PresentationBoundary

CONSTANTS
    Holder,         \* the caller whose path NativeLibraryReadinessHolder keeps
    Scenarios       \* bounds: which callers, devices and runtimes take part

ASSUME ScenariosAssumption ==
    \A s \in Scenarios :
        s.callers \subseteq Callers /\ s.devices \subseteq Devices /\ s.runtimes \subseteq Runtimes

VARIABLES
    scenario,
    renderDevice,   \* the device RenderSystem has
    deviceOf        \* the device whose handles a runtime was created with

bootstrapVars == <<scenario, renderDevice, deviceOf>>

vars == <<deviceVars, extractionVars, boundaryVars, bootstrapVars>>

\* Callers that take no part have returned before.
Init ==
    /\ scenario \in Scenarios
    /\ InitDevices
    /\ InitExtraction
    /\ scenario.callers = {} => library = "complete" /\ movesAtomically
    /\ InitBoundary
    /\ renderDevice = NoDevice
    /\ deviceOf = [r \in Runtimes |-> NoDevice]

NativeLibraryPathIsPresent == scenario.callers = {} \/ HasReturned(Holder)

\* The class of the holder is initialised once, and a process is only killed
\* here before it has created anything on a device.
ExtractLibrary ==
    /\ \/ \E c \in scenario.callers : Extract(c)
       \/ renderDevice = NoDevice /\ Using("creating") = {} /\ KillProcess
    /\ UNCHANGED <<deviceVars, boundaryVars, bootstrapVars>>

Running(d) ==
    {r \in Runtimes : deviceOf[r] = d /\ java[r].status \in {"loaded", "creating", "open"}}

\* Minecraft closes a device behind its surfaces, and these close their runtimes.
ChangeDevices ==
    /\ \E d \in scenario.devices :
        /\ CreateOrCloseDevice(d)
        /\ Running(d) # {} => devices'[d].status # "closing"
        /\ renderDevice' = IF newest' # newest THEN d ELSE renderDevice
    /\ UNCHANGED <<extractionVars, boundaryVars, scenario, deviceOf>>

\* extractBorrowedHandles: the handles of a surface's device, if RenderSystem
\* has the same one and it is the published one.
HandlesAreBorrowed(d) ==
    /\ d = renderDevice
    /\ d \in Using("live")
    /\ IsBufferDeviceAddressEnabled(devices[d].address)

\* CorePresentationRuntimeFactory.create, as far as the library.
CreateRuntime(r) ==
    \E d \in Devices, isLoadable \in BOOLEAN :
        /\ NativeLibraryPathIsPresent
        /\ HandlesAreBorrowed(d)
        /\ isLoadable => library = "complete"
        /\ Load(r, isLoadable)
        /\ deviceOf' = [deviceOf EXCEPT ![r] = d]
        /\ UNCHANGED <<scenario, renderDevice>>

StepRuntimes ==
    /\ \/ \E r \in scenario.runtimes : CreateRuntime(r)
       \/ /\ \/ \E r \in scenario.runtimes :
                    CreateRefused(r) \/ BeginCreate(r) \/ UseRuntime(r)
             \/ CreateSteps
          /\ UNCHANGED bootstrapVars
    /\ UNCHANGED <<deviceVars, extractionVars>>

Next == ExtractLibrary \/ ChangeDevices \/ StepRuntimes

Spec == Init /\ [][Next]_vars
=============================================================================
