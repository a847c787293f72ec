--------------------------- MODULE DeviceCapability ---------------------------
(***************************************************************************)
(* VulkanDeviceCapabilityState: which logical device has been created with *)
(* bufferDeviceAddress.  One device at a time is created (negotiation in   *)
(* VulkanBackendMixin, publication when the factory returns), while        *)
(* devices created earlier close on their own (VulkanDeviceMixin clears at *)
(* the head of close).  Addresses of destroyed devices are used again.     *)
(***************************************************************************)
EXTENDS Integers

CONSTANTS
    Devices,        \* the VulkanDevice objects of a session
    Addresses,      \* the addresses their VkDevices can have
    NoAddress,
    NoDevice

ASSUME NullAssumption == NoAddress \notin Addresses /\ NoDevice \notin Devices

VARIABLES
    devices,        \* each device: how far it is, its address, its feature
    backendFlag,    \* VulkanBackendMixin.m_isBufferDeviceAddressNegotiated
    capability,     \* s_deviceCapability
    captured,       \* what each closing device has read in clearIfOwned
    newest          \* history: the device published last

deviceVars == <<devices, backendFlag, capability, captured, newest>>

\* A DeviceCapability.  The device that published it tells one record object
\* from another, as compareAndSet does.
Published(d, address, isEnabled) ==
    [publisher |-> d, address |-> address, isEnabled |-> isEnabled]

\* s_emptyDeviceCapability
Empty == Published(NoDevice, NoAddress, FALSE)

NotRead == Published(NoDevice, NoAddress, TRUE)

InitDevices ==
    /\ devices = [d \in Devices |->
                    [status |-> "absent", address |-> NoAddress, hasFeature |-> FALSE]]
    /\ backendFlag = FALSE
    /\ capability = Empty
    /\ captured = [d \in Devices |-> NotRead]
    /\ newest = NoDevice

Using(status) == {d \in Devices : devices[d].status = status}

Queries == {"supported", "unsupported", "throws"}

\* negotiate: the feature is added to the set the device is created with, and
\* reported, only behind dynamicRendering and when the query says so.
Negotiation(isDynamicRenderingReady, query) ==
    IF isDynamicRenderingReady /\ query = "supported"
    THEN [hasFeature |-> TRUE, isNegotiated |-> TRUE]
    ELSE [hasFeature |-> FALSE, isNegotiated |-> FALSE]

\* The arguments of the logical-device factory are modified.
Negotiate(d) ==
    /\ devices[d].status = "absent"
    /\ Using("creating") = {}
    /\ \E isReady \in BOOLEAN, query \in Queries :
        LET result == Negotiation(isReady, query)
        IN  /\ backendFlag' = result.isNegotiated
            /\ devices' = [devices EXCEPT ![d].status = "creating",
                                          ![d].hasFeature = result.hasFeature]
    /\ UNCHANGED <<capability, captured, newest>>

\* The factory throws, or returns a device of another backend.
CreateDeviceFails(d) ==
    /\ devices[d].status = "creating"
    /\ devices' = [devices EXCEPT ![d].status = "destroyed"]
    /\ UNCHANGED <<backendFlag, capability, captured, newest>>

\* The factory returns, and the capability is published.
CreateDeviceReturns(d) ==
    /\ devices[d].status = "creating"
    /\ \E address \in Addresses \ {devices[e].address : e \in Devices} :
        /\ devices' = [devices EXCEPT ![d].status = "live", ![d].address = address]
        /\ capability' = Published(d, address, backendFlag)
    /\ newest' = d
    /\ UNCHANGED <<backendFlag, captured>>

BeginClose(d) ==
    /\ devices[d].status = "live"
    /\ devices' = [devices EXCEPT ![d].status = "closing"]
    /\ UNCHANGED <<backendFlag, capability, captured, newest>>

\* clearIfOwned reads the reference; someone else's is left alone.
ReadCapability(d) ==
    /\ devices[d].status = "closing"
    /\ captured[d] = NotRead
    /\ IF capability.address # devices[d].address
       THEN /\ devices' = [devices EXCEPT ![d].status = "cleared"]
            /\ UNCHANGED captured
       ELSE /\ captured' = [captured EXCEPT ![d] = capability]
            /\ UNCHANGED devices
    /\ UNCHANGED <<backendFlag, capability, newest>>

\* A clear that sets what it should compare first.
AlwaysSwaps(d) == captured[d] # NotRead

Swaps(d) == captured[d] = capability

\* compareAndSet, and the way back to the read when it fails.
CompareAndClear(d) ==
    /\ devices[d].status = "closing"
    /\ captured[d] # NotRead
    /\ captured' = [captured EXCEPT ![d] = NotRead]
    /\ IF Swaps(d)
       THEN /\ capability' = Empty
            /\ devices' = [devices EXCEPT ![d].status = "cleared"]
       ELSE UNCHANGED <<capability, devices>>
    /\ UNCHANGED <<backendFlag, newest>>

\* Minecraft's close goes on to destroy the VkDevice.
DestroyDevice(d) ==
    /\ devices[d].status = "cleared"
    /\ devices' = [devices EXCEPT ![d].status = "destroyed", ![d].address = NoAddress]
    /\ UNCHANGED <<backendFlag, capability, captured, newest>>

CreateOrCloseDevice(d) ==
    \/ Negotiate(d)
    \/ CreateDeviceFails(d)
    \/ CreateDeviceReturns(d)
    \/ BeginClose(d)
    \/ ReadCapability(d)
    \/ CompareAndClear(d)
    \/ DestroyDevice(d)

\* isBufferDeviceAddressEnabled
IsBufferDeviceAddressEnabled(address) ==
    /\ address # NoAddress
    /\ capability.address = address
    /\ capability.isEnabled

DeviceSpec == InitDevices /\ [][\E d \in Devices : CreateOrCloseDevice(d)]_deviceVars

-----------------------------------------------------------------------------
(* Properties.                                                             *)

\* A device published last and not closing is what the state says, whichever
\* older device closes meanwhile; and no answer is given for a device that was
\* created without the feature, its address having belonged to one or not.
\* (publish, clearIfOwned and isBufferDeviceAddressEnabled)
CapabilityIsTheNewestDevices ==
    /\ newest \in Using("live") =>
        capability = Published(newest, devices[newest].address, devices[newest].hasFeature)
    /\ \A d \in Devices :
        IsBufferDeviceAddressEnabled(devices[d].address) =>
            devices[d].status \in {"live", "closing"} /\ devices[d].hasFeature
=============================================================================
