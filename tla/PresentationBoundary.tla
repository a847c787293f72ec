------------------------- MODULE PresentationBoundary -------------------------
(***************************************************************************)
(* The presentation boundary: NativePresentationRuntime (Java) creates,    *)
(* calls and destroys a Native runtime through six C functions.  Java keeps *)
(* the runtime's address in a long; native allocates the runtime on the    *)
(* heap, where addresses are used again, and it owns Vulkan objects.       *)
(*                                                                         *)
(* Both sides run on the render thread: a downcall is one step, but for    *)
(* create, whose Vulkan calls are steps of their own.  What a frame is and *)
(* how it is paced is another module's matter; a frame call here opens or  *)
(* closes a frame, or throws.                                              *)
(***************************************************************************)
EXTENDS Integers, Sequences

CONSTANTS
    Runtimes,       \* the creation attempts, each by one Java object
    HeapAddresses,  \* where make_unique can put a Native runtime
    NoRuntime

ASSUME NoRuntimeAssumption == NoRuntime \notin Runtimes

VARIABLES
    java,           \* the NativePresentationRuntime objects
    heap,           \* the VulkanPresentationRuntime objects
    building,       \* the create that is running, and how far it is
    objects,        \* the Vulkan objects that exist, by attempt and name
    orphans,        \* history: those nothing will ever destroy
    reported        \* history: the age of what the last frame call handed out

boundaryVars == <<java, heap, building, objects, orphans, reported>>

\* A result segment is zeroed, written by the call that is running, or stale.
ZeroedResults == [begin |-> "zero", isMetricsValid |-> FALSE, metrics |-> "zero",
                  submit |-> "zero"]

NewRuntime ==
    [status |-> "absent", address |-> NoRuntime, isArenaAlive |-> FALSE,
     results |-> ZeroedResults]

Unused == [owner |-> NoRuntime, objects |-> {}, isFrameOpen |-> FALSE]

NotBuilding == [runtime |-> NoRuntime, done |-> 0]

InitBoundary ==
    /\ java = [r \in Runtimes |-> NewRuntime]
    /\ heap = [a \in HeapAddresses |-> Unused]
    /\ building = NotBuilding
    /\ objects = {}
    /\ orphans = {}
    /\ reported = {}

Object(r, name) == [runtime |-> r, name |-> name]

\* The Vulkan calls of VulkanPresentationRuntime::create that can fail, for two
\* images and one frame slot.
Calls == <<"swapchain", "images", "view1", "view2", "imageAvailable",
           "renderFinished", "inFlight", "pool", "commandBuffers">>

\* Calls before which create allocates.
AllocatesBefore == {"images", "view1", "imageAvailable", "commandBuffers"}

\* Images belong to the swapchain and command buffers to their pool.
Names == {Calls[i] : i \in DOMAIN Calls} \ {"images", "commandBuffers"}

Built == {object \in objects : object.runtime = building.runtime}

-----------------------------------------------------------------------------
(* create.                                                                 *)

\* The library or one of its symbols is missing: the arena is closed again.
Load(r, isLoadable) ==
    /\ java[r].status = "absent"
    /\ java' = [java EXCEPT ![r].status = IF isLoadable THEN "loaded" ELSE "failed",
                            ![r].isArenaAlive = isLoadable]
    /\ UNCHANGED <<heap, building, objects, orphans, reported>>

Failed(r) == [java EXCEPT ![r].status = "failed", ![r].isArenaAlive = FALSE]

\* The invocation throws, an argument is refused or the surface unsupported:
\* nothing has been created.
CreateRefused(r) ==
    /\ java[r].status = "loaded"
    /\ building = NotBuilding
    /\ java' = Failed(r)
    /\ UNCHANGED <<heap, building, objects, orphans, reported>>

BeginCreate(r) ==
    /\ java[r].status = "loaded"
    /\ building = NotBuilding
    /\ building' = [runtime |-> r, done |-> 0]
    /\ java' = [java EXCEPT ![r].status = "creating"]
    /\ UNCHANGED <<heap, objects, orphans, reported>>

IsCalling == building # NotBuilding /\ building.done < Len(Calls)

NextCall == Calls[building.done + 1]

CallSucceeds ==
    /\ IsCalling
    /\ building' = [building EXCEPT !.done = @ + 1]
    /\ objects' = objects \cup {Object(building.runtime, name) : name \in {NextCall} \cap Names}
    /\ UNCHANGED <<java, heap, orphans, reported>>

\* failAfterSwapchain, and the pool that its caller destroys first.
RolledBack(call) ==
    {object \in Built : object.name # "pool" \/ call = "commandBuffers"}

CallFails ==
    /\ IsCalling
    /\ objects' = objects \ RolledBack(NextCall)
    /\ building' = NotBuilding
    /\ java' = Failed(building.runtime)
    /\ UNCHANGED <<heap, orphans, reported>>

\* std::bad_alloc leaves create by way of no rollback, and the boundary's
\* catch-all only zeroes the result.
AllocationThrows ==
    /\ IsCalling
    /\ NextCall \in AllocatesBefore
    /\ orphans' = orphans \cup Built
    /\ building' = NotBuilding
    /\ java' = Failed(building.runtime)
    /\ UNCHANGED <<heap, objects, reported>>

\* The result is moved into a heap object whose address Java gets.  The runtime
\* that it is moved from keeps nothing that its destructor could destroy.
FinishCreate(address) ==
    LET r == building.runtime
    IN  /\ building # NotBuilding
        /\ ~IsCalling
        /\ heap[address] = Unused
        /\ heap' = [heap EXCEPT ![address] =
                        [owner |-> r, objects |-> Built, isFrameOpen |-> FALSE]]
        /\ java' = [java EXCEPT ![r].status = "open", ![r].address = address]
        /\ building' = NotBuilding
        /\ UNCHANGED <<objects, orphans, reported>>

\* make_unique throws, and the runtime is destroyed where create returned it.
HeapIsExhausted ==
    /\ building # NotBuilding
    /\ ~IsCalling
    /\ objects' = objects \ Built
    /\ java' = Failed(building.runtime)
    /\ building' = NotBuilding
    /\ UNCHANGED <<heap, orphans, reported>>

-----------------------------------------------------------------------------
(* The frame calls.                                                        *)

Older(age) == IF age = "zero" THEN "zero" ELSE "stale"

Aged(results) ==
    [results EXCEPT !.begin = Older(@), !.metrics = Older(@), !.submit = Older(@)]

\* A boundary that leaves the segments alone until it has something to write.
Untouched(results, segments) == results

\* Every boundary function clears its results first.
Cleared(results, segments) ==
    [begin |-> IF "begin" \in segments THEN "zero" ELSE results.begin,
     isMetricsValid |-> results.isMetricsValid /\ "begin" \notin segments,
     metrics |-> IF "begin" \in segments THEN "zero" ELSE results.metrics,
     submit |-> IF "submit" \in segments THEN "zero" ELSE results.submit]

BeginWritten(results, isMetricsValid) ==
    [results EXCEPT !.begin = "fresh",
                    !.isMetricsValid = isMetricsValid,
                    !.metrics = IF isMetricsValid THEN "fresh" ELSE @]

\* A downcall on a runtime: what it leaves in the segments, which of them Java
\* hands out, in a result or an exception, and whether a frame is open then.
FrameCall(r, results, handedOut, isFrameOpen) ==
    /\ java' = [java EXCEPT ![r].results = results]
    /\ reported' = handedOut
    /\ heap' = [heap EXCEPT ![java[r].address].isFrameOpen = isFrameOpen]
    /\ UNCHANGED <<building, objects, orphans>>

IsOpen(r) == java[r].status = "open"

IsFrameOpen(r) == heap[java[r].address].isFrameOpen

WithMetrics(results) ==
    {results.begin} \cup IF results.isMetricsValid THEN {results.metrics} ELSE {}

\* beginFrame and beginFrameStatus, which does not look at the metrics.  Begin
\* may throw (InternalFailure) and then both results are zeroed.
BeginFrame(r) ==
    LET results == Cleared(Aged(java[r].results), {"begin"})
    IN  /\ IsOpen(r)
        /\ \/ \E isFrameOpen, isMetricsValid \in BOOLEAN :
                LET written == BeginWritten(results, isMetricsValid)
                IN  \/ FrameCall(r, written, WithMetrics(written), isFrameOpen)
                    \/ FrameCall(r, written, {written.begin}, isFrameOpen)
           \/ FrameCall(r, results, {results.begin}, IsFrameOpen(r))

\* submitAndPresentFrame and submitAndPresentClearFrame: InvalidArgument without
\* an open frame (or for a color outside 0 to 1), InternalFailure when native
\* throws.
SubmitFrame(r) ==
    LET results == Cleared(Aged(java[r].results), {"submit"})
    IN  /\ IsOpen(r)
        /\ \/ /\ IsFrameOpen(r)
              /\ FrameCall(r, [results EXCEPT !.submit = "fresh"], {"fresh"}, FALSE)
           \/ \E isStillOpen \in BOOLEAN :
                FrameCall(r, results, {results.submit}, IsFrameOpen(r) /\ isStillOpen)

\* presentClearFrame begins and submits in one downcall; its failure reports the
\* one Vulkan result that is not zero.
PresentClearFrame(r) ==
    LET results == Cleared(Aged(java[r].results), {"begin", "submit"})
    IN  /\ IsOpen(r)
        /\ \/ \E isMetricsValid \in BOOLEAN :
                LET written == [BeginWritten(results, isMetricsValid)
                                    EXCEPT !.submit = "fresh"]
                IN  FrameCall(r, written, WithMetrics(written) \cup {written.submit},
                              FALSE)
           \/ \E isFrameOpen \in BOOLEAN :
                FrameCall(r, results, {results.begin, results.submit}, isFrameOpen)

-----------------------------------------------------------------------------
(* close.                                                                  *)

\* A close that a failed destruction leaves to be tried again.
ClosedOnSuccess(isThrown) == ~isThrown

\* m_isClosed is set before the only attempt.
ClosedFirst(isThrown) == TRUE

\* The downcall runs, whether or not it then throws, or throws before it runs.
Close(r) ==
    LET address == java[r].address
        closed == [java EXCEPT ![r].isArenaAlive = FALSE]
    IN  /\ IsOpen(r)
        /\ \E isExecuted, isThrown \in BOOLEAN :
            /\ isExecuted \/ isThrown
            /\ java' = IF ClosedFirst(isThrown)
                       THEN [closed EXCEPT ![r].status = "closed"] ELSE closed
            /\ IF isExecuted
               THEN /\ objects' = objects \ heap[address].objects
                    /\ heap' = [heap EXCEPT ![address] = Unused]
                    /\ UNCHANGED orphans
               ELSE /\ orphans' = orphans \cup heap[address].objects
                    /\ UNCHANGED <<heap, objects>>
        /\ UNCHANGED <<building, reported>>

CreateSteps ==
    \/ CallSucceeds
    \/ CallFails
    \/ AllocationThrows
    \/ \E address \in HeapAddresses : FinishCreate(address)
    \/ HeapIsExhausted

\* Everything but the start, which depends on a library and a device.
UseRuntime(r) == BeginFrame(r) \/ SubmitFrame(r) \/ PresentClearFrame(r) \/ Close(r)

-----------------------------------------------------------------------------
(* Properties.                                                             *)

\* Vulkan objects and heap runtimes have one owner each at any time: the create
\* that is running, or the open Java runtime that knows the address and whose
\* objects are all there.  What is left behind is what a throwing allocation or
\* a destroy downcall that never ran leaves, and nothing else; and no close
\* takes what belongs to another runtime at the same address.
\* (create's rollback, the move constructor, the boundary and close)
EverythingHasOneOwner ==
    /\ \A r \in Runtimes :
        IsOpen(r) =>
            /\ heap[java[r].address].owner = r
            /\ heap[java[r].address].objects = {Object(r, name) : name \in Names}
            /\ java[r].isArenaAlive
    /\ \A a \in HeapAddresses :
        heap[a] # Unused =>
            /\ heap[a].objects \subseteq objects
            /\ \/ IsOpen(heap[a].owner) /\ java[heap[a].owner].address = a
               \/ heap[a].objects \subseteq orphans
    /\ objects = Built \cup orphans \cup UNION {heap[a].objects : a \in HeapAddresses}

\* Whatever a frame call hands out, a status, metrics or the Vulkan result of an
\* exception, has been written by that very call: the result segments are used
\* for all calls of a runtime and never show an earlier one.
\* (the boundary functions and the decoding in NativePresentationRuntime)
ReportedByThisCall == "stale" \notin reported
=============================================================================
