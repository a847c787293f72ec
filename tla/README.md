# Verification of Barri-Eww

TLA+ models of the parts of Barri-Eww whose correctness depends on the order in
which things happen, or on two languages agreeing on bytes: the frame loops of
the Native Vulkan layer, the policy by which the Minecraft mod hands a window
surface to Native and back, the way from the start of the client to a running
Native runtime, the command stream format with its writers in Java and its
validators in C++, the materialisation of its tables, and the recorder that
turns a stream into a Vulkan command buffer. TLC checks the models on small
instances; TLAPS proves every invariant and every refinement that a passing run
checks, for every number of frame slots, images, swapchain generations, devices,
callers and runtimes, and for streams, files and tables of any length. What stays
with TLC is liveness.

Run everything from this directory: `tlc -config X.cfg M` for a run listed
below, `tlapm M_proofs.tla` for the proofs. `PROJECT.json` maps every definition
to the source lines it stands for.

## 1. Inventory

Paths are under `src/`.

| Component | State it keeps | Operations | What is hard | Modelled in |
|---|---|---|---|---|
| **Presentation runtime** `Native/.../VulkanPresentationRuntime.cpp` | per slot: fence, two binary semaphores, command buffer, metrics; per image: the fence of its last frame; current slot, open flag, acquired image | `create`, `beginFrame`, `submitAndPresentFrame`, `submitAndPresentClearFrame`, `presentClearFrame`, destructor | three blocking waits in one call, two queues and a presentation engine that reorders images, no check of the call order; a creation that fails at any of its calls | `PresentationRuntime`; `create` in `PresentationBoundary` |
| **Frame loop** `Native/.../VulkanFrameLoop.cpp` | a fence per slot, current slot, open flag | `create`, `beginFrame`, `submitFrame`, destructor | reuse of mapped per-slot memory, failed submissions, creation that fails half-way | `FrameLoop` |
| **Takeover coordinator** `Mod/.../PresentationTakeoverCoordinator.java` | the runtime it owns, seven flags | `configure`, `beginFrame`, `presentFrame`, `close` | every Native call can fail; a surface takes one swapchain; a failed destroy leaves ownership unknown | `PresentationTakeover` |
| **Surface mixin** `Mod/.../mixin/VulkanGpuSurfaceMixin.java` and its inputs | the coordinator reference, the mirrored `swapchainSuboptimal` | hooks on construction, `configure`, `acquireNextTexture`, `blitFromTexture`, `present`, `close` | which host calls are cancelled, and what the host then believes it has; which device's handles a runtime gets | `PresentationTakeover`, `PresentationBootstrap` |
| **Device capability** `Mod/.../VulkanDeviceCapabilityState.java`, `VulkanDeviceFeatureNegotiation.java`, two mixins | one atomic reference, one flag between two hooks | negotiation, `publish`, `isBufferDeviceAddressEnabled`, `clearIfOwned` | a late clear of an old device against the publication of a new one; addresses that come back | `DeviceCapability` |
| **Library extraction** `Mod/.../NativeLibraryExtractor.java` | files in a directory named after the process | `extract`, publication by move, verification | competing publishers, leftovers of a killed process, the non-atomic fallback | `LibraryExtraction` |
| **Presentation FFM boundary** `NativePresentationRuntime.java`, `NativePresentationRuntimeBoundary.cpp` | the Native address, the arena and its result segments | create, begin, submit, present clear, destroy | an address consumed by one destroy attempt and used again by the heap; failures that are neither status nor result; segments reused by every call | `PresentationBoundary` |
| **BECS writers** `Core/.../commandstream/*Writer.java` | segments, sections and entries under construction | one append per command, `addSection`, one add per table, `writeTo` | an append that fails half-way, identities consumed by a failed call, layout arithmetic | `CommandStream`, `CommandStreamModule`, `CommandStreamTables` |
| **BECS validators** `Native/src/CommandStream/*Validator.cpp` and the views | none | one pass over a module, a stream, each table | wraparound in range checks, agreement with a writer in another language | the same three |
| **Resource tables** `Native/src/Vulkan/Vulkan*Table.cpp` | the created resources | `createFromTable`, destructor | failure of one call after others, shared ownership of images, objects held in local variables | `ResourceTables` |
| **Command recorder** `CommandBufferRecorder.cpp` | bound pipeline, open scope, position in the stream | `record`: one case per opcode | which state survives the end of a scope, one push target for two kinds of pipeline, range tests that wrap | `CommandRecorder` |
| **Module validation boundary** | none | one FFM call | the mapping of error codes | not modelled |

The Java demo (`VisibleClearDemo`) is the second caller of the presentation
runtime; `CallerMayBegin` is its loop. The Editor, the render graph compiler and
the other graphics back ends are announced in the repository and have no code.
`VulkanContext`, the disassembler, the build files and the enumerations keep no
state that changes.

How the modelled parts interact: Minecraft calls the mixin, the mixin calls the
coordinator and mirrors its `requiresReconfiguration`, the coordinator owns at
most one Native runtime and calls it through the FFM boundary, and the runtime
drives the device queues and the presentation engine. All of this runs on the
render thread. The concurrency is between the render thread and the device. Before
that, the client initialiser extracts the Native library, and the device mixins
publish which device has `bufferDeviceAddress`; without both no runtime is
created. Extraction can be called from several threads, and a device can close
while another is created.

A graph goes another way: the Java writers produce a module file, Native
validates it, decodes it through views, turns the resource tables into Vulkan
objects and gives these, with a lane's stream, to the recorder.

What makes each component correct:

* runtime and frame loop: nothing the device may still use (command buffer,
  image, semaphore, fence, mapped memory) is reused or destroyed, every call
  that waits comes back, the CPU stays at most `FramesInFlight` frames ahead;
* recorder: whatever the stream, a recording it calls successful is one in which
  every call finds what it needs recorded before it and stays inside the buffers
  and images of the tables;
* writers and validators: what a writer completes is accepted and decodes to what
  was added; what is accepted, whatever happened to the bytes, is consistent and
  could have been written;
* resource tables: the driver has the objects that the tables hold and no others,
  after any failure, and no view outlives its image;
* bootstrap: the library path leads to a complete file, the capability is that of
  the newest device, every Vulkan object has an owner, and what a frame call
  reports is its own;
* takeover: no second swapchain on a surface beside a Native runtime, one owner per runtime, a host that always
  has somewhere to draw, a coordinator that never uses the runtime in a way that
  would block it, and a way back to Minecraft after a failure.

## 2. Modules

| Module | What it is |
|---|---|
| `FramePacing` | abstract: what any loop over frame slots promises its driver |
| `PresentationRuntime` | one swapchain generation of `VulkanPresentationRuntime`, with the device |
| `FrameLoop` | `VulkanFrameLoop`, with the device and the caller's slot memory |
| `SurfaceOwnership` | abstract: who may own the swapchain of a surface, and in which order |
| `PresentationTakeover` | coordinator, mixin, host surface and the generations of runtimes |
| `CommandRecorder` | `CommandBufferRecorder::record`, one walk over a stream |
| `CommandStream` | a lane: its writer, its validator, the iteration over it |
| `CommandStreamModule` | the module file: sections over the lanes of `CommandStream` |
| `CommandStreamTables` | the eight tables: writers, validators, views |
| `ResourceTables` | `createFromTable` of five tables over `CommandStreamTables`, with the driver |
| `LibraryExtraction`, `DeviceCapability`, `PresentationBoundary` | the three parts of the bootstrap |
| `PresentationBootstrap` | their composition, from the start of the client to an open runtime |
| `MC*` | constant values for TLC |
| `*_proofs` | theorems about the module they extend |

`PresentationRuntime` and `FrameLoop` both implement `FramePacing` (`PacesFrames`
in each); `PresentationTakeover` implements `SurfaceOwnership` (`OwnsInTurn`).
`PresentationTakeover` and `PresentationRuntime` meet at one contract: the guard
`CallerMayBegin`, on which all the results about the runtime rest, is what
`RuntimeMayBegin` shows the coordinator to respect for each of its runtimes.
`PresentationBoundary` is about the same runtimes with a different question, who
owns which object, and leaves their frames to `PresentationRuntime`.

### PresentationRuntime

The state carries the source's names without the `m_`: `currentFrameSlot`,
`isFrameOpen`, `acquiredImage`, `frameSequence`; `imageFence[i]` is the slot
whose fence `m_imageInFlightFences[i]` refers to; `completedMetrics[s]` and
`priorMetrics` keep of the metrics only the frame they describe.
`beginFrame` blocks in `vkWaitForFences`, `vkAcquireNextImageKHR` and again in
`vkWaitForFences`, so it is `BeginFrame`, `SlotFenceWaited`, `AcquireNextImage`
and `OpenFrame`, with `call` saying where the thread stands and an action for
each early return. `submitAndPresentFrame` does not block and is one action,
whose argument is what `vkQueuePresentKHR` reports; `submitAndPresentClearFrame`
and `presentClearFrame` are the same calls in the same order, and the command
buffer they record is the one `CommandBufferNotInUse` is about.

The device is external. `jobs` are unfinished batches, `presents` are presents
whose semaphore wait has not executed. Two facts about Vulkan matter and are in
the model: an acquired image may still be in use by an earlier frame, and the
fence of a slot says nothing about the present of its frame. Presents may go to a
queue of their own (cpp 103), so in the model they lag behind the batches by any
number of frames; an image is only available again once its own earlier presents
have executed.

With more images than slots that is far enough for a batch to signal a slot's
`renderFinished` while the signal before it has not been consumed. Two signals are
then consumed by one wait, and the second present waits for ever: `SignalLost`.
The model does not exclude this. `RenderFinishedAwaited` says what holds all the
same, that a signal left over always has its present queued behind it (so it is
never one of a refused present), and the two liveness properties name `SignalLost`
as the one way in which a call may not come back.

The three waits of `beginFrame` can fail on a lost device, an out-of-date surface,
or for lack of memory at any time. The first two failures return. The result of the
wait for the image is ignored (cpp 373-376), so `OpenFrame` opens the frame also
when the image is not idle, and `unwaited` remembers that frame. It is a history
variable: `ImageHasOneWriter` uses it to say that such a frame is the only one that
can share its image.

Calls that only return an error (`submitAndPresentFrame` without an open frame)
change nothing and have no action. Durations, the surface format and the clear
colour are left out.

### FrameLoop

`create` makes one fence per step and can fail at each; the caller is free to
call `beginFrame` and `submitFrame` in any order, because the loop checks the
order itself. `WriteParameters` is the caller writing the mapped memory of the
slot it was given, at any time while the frame is open; a submission remembers
in `reads` what it was meant to find there.

### PresentationTakeover

`configure` is cut at its Native calls (drain, create, begin, submit, and the
destroy of a rejected candidate), since each of them changes which swapchains
exist; `step` is what it does next and `candidate` its local variable. The
mixin's part of a hook is in the same action as the coordinator's. There are two ways
for `create` to fail: `CreateCandidateFails` leaves nothing behind, and
`CreateCandidateThrows` is `std::bad_alloc` after `vkCreateSwapchainKHR`, which leaves
an `"orphaned"` swapchain that the coordinator does not know of. Native calls
report `SUCCESS`, `SUBOPTIMAL`, `RECREATE_REQUIRED` or fail with an exception, in
which case nothing is known of the runtime's open frame. `SURFACE_UNAVAILABLE` is
reported only for a zero extent, which `PresentationGenerationInputs.isReady`
rejects. The model contains checked exceptions only; an unchecked exception
leaves the mixin and ends the game.

The outer `GpuSurface` of Minecraft is external: it acquires, blits and presents
in that order, configures between frames, and does not acquire from a surface
whose `swapchainSuboptimal` is set. `close` may come in the middle of a frame.

### CommandRecorder

The stream is not a constant: the walk reads it while it is chosen, so a
behaviour stands for one stream, one set of tables (`inputs`, the
`recordingInputs`) and one outcome of `vkBeginCommandBuffer` and
`vkEndCommandBuffer`. A table is a function from its slots, or `NoTable` when the
caller supplied none. The walk's locals carry the source's names;
`pushTargetPipelineLayout` and `pushTargetStageFlags`, which are only assigned
together, are `pushTarget`. They are cleared when `record` returns.

Each opcode has an operator `...Error` with its tests in the order of the code
(`??` is "the first that fails"). `RefuseCommand` is every failing return;
`RecordStateless` and one action for each of six opcodes are the successful cases. `recorded`
is the history of Vulkan calls with the push target each was made for; the
properties read that history and not the walk's flags, so a flag that is not
reset, or reset too much, shows. Sums and products wrap at `Modulus32` and
`Modulus64`, which stand for 2^32 and 2^64.

The stream and the tables have passed their validators: a template has at least
one attachment, a batch's records are inside its table, a presence field is 0 or 1.
Values that are only copied into a Vulkan structure (masks, clear values,
viewports, group and vertex counts) are left out; a layout, an aspect or a mask
is reduced to the outcome of the test on it.

### CommandStream and CommandStreamModule

A lane's segment is memory in words of eight bytes, a word being a command header
or a payload. `AppendCommand` is one append; `AppendOverflows` is one whose payload
does not fit, which throws after its command has been counted. `StreamError` is the
validator's walk, `Iterator` the position of the view's iterator after each
increment, `Iterated` what it yields. `AddSection`, `WriteTo` and `ModuleError` are
their counterparts for the file, whose sections are the lanes of the first module and
tables of a given size. A section borrows its content, which is read when the file is
written; `EmittedFile` is what `writeTo` puts there. `ChangeFile` damages one field
of the header or of a directory entry; sums of them would wrap at `Modulus`. A
`sectionCount` that is too large makes the validator read entries behind the
directory: `StrayEntry` is what it finds there.

The validator sorts the entries by offset and compares neighbours. Entries with the
same offset stay in the order of the directory, as a short range does in the
library's sort; a long one may be left otherwise, and which of an empty section and
another one at its offset comes first decides whether they overlap. The proof of
`AcceptedFilesAreConsistent` uses of that order only that it is one.

### CommandStreamTables and ResourceTables

An entry is a record of the fields either side tests, and its `Writable` operator
holds the argument checks in Java, its `Error` operator the tests in C++. They are
translated separately, since the code shares nothing between the two. `AddEntry` is
an add followed by a `writeTo`; `ChangeTable` damages one field, with values on
both sides of every test. The regions that three of the tables keep
behind their directory are written where a cursor stands (`Cursor`) and read at the
offset a record names: `PartAt` is the part placed there and, where a damaged offset
or count leads elsewhere, the words of `Stray`.

`ResourceTables` takes accepted tables and makes one Vulkan call per step.
`CallSucceeds` and `CreateFails` cover every call of every slot, `Steps` names the
calls of each kind. `live` is what the driver has and `slots` what the table knows,
`scratch` is the shader modules in local variables. The image table is shared
between its caller and the view table, so `Release` and `CreateFails` destroy it
with the last of the two. A creation runs to its end before the next call.

### LibraryExtraction

Every file operation of `extract` is a step of its own. The file at the published
path is absent, partial or complete; `movesAtomically` is the answer of the file
system to `ATOMIC_MOVE`. Without it the copy creates the target and fills it
later, and a second caller meets a partial file, which verification refuses.
`KillProcess` ends the process at any step, and the next one has the same
directory.

### DeviceCapability

Negotiation, creation, publication, the read and the compare-and-set of
`clearIfOwned` and the destruction are steps of their own, so that devices overlap.
A capability is an object: `Published` names the device whose publication created
it, because `compareAndSet` compares references. An address is free again when its
device is destroyed, which is after the clear.

### PresentationBoundary

`create` makes the Vulkan calls in `Calls` one by one; at each it can fail, with the
rollback of the code, or an allocation can throw. `FinishCreate` is the move out of
`create` into a heap object, at an address that an earlier runtime may have had.
A frame call is one downcall: `results` holds the age of what is in the result
segments, `reported` what Java hands out. `orphans` are the objects that nothing
can destroy any more; the property says how they come about and forbids any other.

### PresentationBootstrap

The three parts side by side: `ExtractLibrary`, `ChangeDevices` and `StepRuntimes` take
a step of one part and keep the others, under the conditions that join them: a
runtime is created only with a published library path and with the handles of
RenderSystem's device if the capability names that device, and Minecraft closes a
device after the runtimes of its surfaces. A scenario says which callers, devices
and runtimes take part.

### Definitions marked `mutant`

Next to a definition a module may hold a second one with a plausible mistake (a
dropped wait, a missing reset, a wrong slot), in the newer modules described as
what it would be ("the range test by the sum"). They are not part of the model.
Substituting one for its neighbour makes TLC report the property named in
`PROJECT.json`, which shows that the property depends on that line of the code.

## 3. Runs

| Run | Module, cfg | Checks |
|---|---|---|
| `runtime_frames` | `MCPresentationRuntime`, `MCPresentationRuntime.cfg` | `TypeOK`, `CommandBufferNotInUse`, `ImageHasOneWriter`, `AcquireSemaphoreUnused`, `RenderFinishedAwaited`, `PriorMetricsOfSlot`, `PacesFrames`, `BeginFrameReturns`, `DestroyReturns` |
| `runtime_metrics` | `MCPresentationRuntime`, `MCPresentationRuntimeMetrics.cfg` | `PriorMetricsOfCompletedFrame`, which is violated |
| `frame_loop` | `MCFrameLoop`, `MCFrameLoop.cfg` | `TypeOK`, `ParametersKept`, `FencesOutliveJobs`, `PacesFrames`, `BeginFrameReturns` |
| `takeover_policy` | `MCPresentationTakeover`, `MCPresentationTakeover.cfg` | `TypeOK`, `SwapchainExclusive`, `OwnsWhatLives`, `RuntimeMayBegin`, `FrameFlagsAgree`, `HostHasSwapchain`, `OwnsInTurn`, `FailureFallsBack` |
| `takeover_output` | `MCPresentationTakeover`, `MCPresentationTakeoverOutput.cfg` | `TakenOverHasRuntime`, which is violated |
| `takeover_orphan` | `MCPresentationTakeover`, `MCPresentationTakeoverOrphan.cfg` | `VanillaOnlyWithoutNative`, which is violated |
| `recorder_calls` | `MCCommandRecorder`, `MCCommandRecorder.cfg` | `TypeOK`, `ScopesAlternate`, `DrawsAreComplete`, `BindsMatchScope`, `PushesReachBoundPipeline`, `RangesInside` |
| `recorder_scopes` | `MCCommandRecorder`, `MCCommandRecorderScopes.cfg` | `DrawsMatchScope`, which is violated |
| `recorder_usage` | `MCCommandRecorder`, `MCCommandRecorderUsage.cfg` | `UploadsHaveUsage`, which is violated |
| `command_modules` | `MCCommandStreamModule`, `MCCommandStreamModule.cfg` | `AcceptedStreamsReplayAppends`, `UndisturbedStreamsAreAccepted`, `WrittenModulesAreAccepted`, `AcceptedModulesAreConsistent` |
| `resource_tables` | `MCResourceTables`, `MCResourceTables.cfg` | `WrittenTablesAreAccepted`, `AcceptedTablesCouldBeWritten`, `NothingLeaks`, `ViewsOfLiveImages` |
| `presentation_bootstrap` | `MCPresentationBootstrap`, `MCPresentationBootstrap.cfg` | `CapabilityIsTheNewestDevices`, `ReturnedIsComplete`, `EverythingHasOneOwner`, `ReportedByThisCall` |

### Bounds

* `runtime_frames`: two slots, as both callers configure; three images, more
  images than slots, so that an image can come back under a slot other than the
  one that drew into it, and a present can fall behind by a turn of the slots; five
  frames, so that every slot is used twice and one a third time. The images are not
  declared symmetric, which is unsound for liveness.
* `runtime_metrics`: two images and three frames, where the failing wait is found.
* `frame_loop`: three slots and seven frames.
* `takeover_*`: three generations: one, its replacement, and one that could
  follow a wrong second.
* `recorder_calls`: streams of five commands, the length of the shortest complete
  draw (begin, bind, viewport, scissor, draw), so that every draw that lacks one
  part is reached too; about sixty commands with all opcodes, each slot in, at the end
  of and beyond its table, bound and unbound, each offset on both sides of its
  limit; all tables, no buffer table, and only buffers and templates. Moduli of
  8 and 64 let bases, counts and offsets wrap.
* `recorder_scopes`: the graphics opcodes and seven commands, which a second
  scope needs. `recorder_usage`: two commands.
* `command_modules`: two lanes of up to two appends each. The first has segments of 24,
  48 or 64 bytes (no room for the header; room for one command; for two), the second
  one of 32 bytes with the right or a foreign graph hash. Two tables, one of
  20 bytes, which needs padding; sections in any order; targets too small, exact and
  too large; one changed field, with values that wrap at 1024. `MCStrayEntry` is an
  empty section that would pass, so that an entry behind the directory is not refused
  for what it holds.
* `resource_tables`: two entries per table, which is what a second slot's failure and
  a second slot's view need. A plan offers the tables that depend on each other
  together; damaged tables (`isDamaged`) are validated and not materialised. Every
  tested field is damaged to zero, its neighbours, the value behind its last
  enumerant, the sign bit and all bits; every region to the directory, a misaligned
  offset, the end and beyond; `MCStray` makes what lies elsewhere look sound. The
  field width is 2^10 instead of 2^32, its upper half negative in Java.
* `presentation_bootstrap`: four scenarios. Two callers, one device and one runtime
  from a directory in any state; three devices, for a clear that is late by two
  publications; one device and two runtimes, for an address that comes back;
  one runtime that may get either of two devices. Two device and two heap
  addresses.
* `MaxCommands`, `MaxFrames` and `MaxGenerations` occur only in the guards of the actions that
  record or refuse a command, begin or submit a frame and create a runtime. The
  proofs do not depend on their values.

### Fairness

The render thread is weakly fair once it is inside a call (`WaitEnds`): a wait whose
condition holds returns, and one on a lost device or an out-of-date surface fails.
That a wait fails for another reason is possible and never forced, so no liveness
result relies on it. A device that is not lost finishes what is queued and
the engine signals what it promised, each under weak fairness. Nothing forces a
caller to call, a surface to change or a device to be lost. The waits in the
code have no timeout, so these are the assumptions under which Vulkan promises
that they end. For the takeover, Minecraft's loop finishes a frame and a
configure it has started and answers a suboptimal surface by configuring it,
which is what the outer `GpuSurface` requires before the next acquire; it is
never forced to start a frame, resize or close. The other modules state no
fairness: their loops are bounded by their input, or, like `clearIfOwned`, promise
nothing under contention.

### What the violated runs show

* `runtime_metrics`. `beginFrame` copies the metrics of the slot's previous
  frame before it waits for that frame, and returns them also when that wait
  fails. ADR-0004 (lines 88-89) promises metrics of a completed
  frame. On an opened frame they are (`PriorMetricsOfSlot`, proved).
* `takeover_output`. After a failed destroy the coordinator keeps intercepting
  without a runtime. ADR-0006 (lines 312-313 and 549) forbids a taken-over
  surface without a runtime; lines 109-112 ask for interception when ownership
  is uncertain. The code follows the second, and output is frozen until close.
* `takeover_orphan`. `create` can throw `std::bad_alloc` after it has made the
  swapchain (`VulkanPresentationRuntime.cpp` 129-130; 167, 174, 193, 221). The boundary
  reports `InternalFailure`, the coordinator (112-115) takes it for a failed creation
  and lets Minecraft configure the same surface. The comment of `configure` (55-56) and
  ADR-0006 (109-112) rule out a second swapchain while Native ownership is uncertain.
  What does hold is `SwapchainExclusive` (proved): Minecraft's swapchain is never made
  beside a live runtime or one whose destroy failed, and no further Native one is made
  beside an orphan.
* `recorder_scopes`. `EndRendering` leaves the pipeline bound, and formats are
  compared only when a pipeline is bound. A draw in a second scope with other
  formats is recorded, where `CommandBufferRecordingError.hpp` (line 80) has an
  error for a bound pipeline that does not match the open scope. At the bind
  itself they do match (`BindsMatchScope`, proved). `CommandStreamFormat.md`
  (lines 384-387) speaks of the check at the bind only.
* `recorder_usage`. `CommandStreamFormat.md` (lines 398-399) requires buffer
  TransferSource and image TransferDestination for `CopyBufferToImage`; the code
  looks at usage bits for indirect commands only. The run fails on the buffer.

## 4. Proofs

The constants are arbitrary within named assumptions, which TLC evaluates for the
values of the runs:

* `RuntimeAssumption`, `FrameLoopAssumption` and `TakeoverAssumption` make counts
  numbers, with at least one slot and image;
* `NullAssumption`, `NoRuntimeAssumption`, `LeftoversAssumption` and
  `ScenariosAssumption` only say that the constants of the bootstrap fit together;
* `RecorderAssumption` and `FieldsAssumption` give payloads and tables the types their
  validators leave them with: unsigned sizes, offsets and counts, formats in a
  sequence. They say nothing of the values;
* `RecordingsAssumption`, `CommandsAssumption`, `TablesAssumption`, `IndicesAssumption`,
  `StrayEntryAssumption` and the `ModulusAssumption` of `CommandStreamModule`: segments
  have a size, an append has an opcode of the writer, no table is empty (each has a
  header), indices, offsets and the modulus are numbers;
* `PlansAssumption`, `StrayAssumption` and `DamageAssumption`: an entry has the fields of
  its kind, and a field holds a word, damaged or not. The `ModulusAssumption` of
  `CommandStreamTables` asks for words of more than three bits, without which the
  enumerants have no room.

| Module | Theorems |
|---|---|
| `PresentationRuntime_proofs` | `TypeCorrect`, `CommandBufferSafe`, `ImageSafe`, `AcquireSafe`, `RenderFinishedSafe`, `MetricsOfSlot`, `Refinement` |
| `FrameLoop_proofs` | `LoopTypeCorrect`, `ParametersSafe`, `FencesSafe`, `LoopRefinement` |
| `PresentationTakeover_proofs` | `TakeoverTypeCorrect`, `OneSwapchain`, `NoRuntimeLeaks`, `HostCanDraw`, `FrameFlags`, `KeepsRuntimeContract`, `OwnershipRefinement` |
| `CommandRecorder_proofs` | `RecorderTypeCorrect`, `RecorderScopesAlternate`, `RecorderDrawsComplete`, `RecorderBindsMatch`, `RecorderPushesReach`, `RecorderRangesInside` |
| `CommandStreamModule_proofs` | `StreamsReplayAppends`, `CompleteStreamsPass`, `AcceptedFilesAreConsistent`, `WrittenFilesAreAccepted` |
| `ResourceTables_proofs`, on the lemmas of `CommandStreamTables_proofs` | `EmittedTablesPass`, `AcceptedTablesAreWritable`, `NothingIsLeaked`, `ViewsHaveImages` |
| `PresentationBootstrap_proofs` | `ReturnedLibraryIsComplete`, `CapabilityIsTrueOfDevices`, `EverythingIsOwned`, `ResultsAreReportedByTheirCall`, `RuntimesFitTheirDevices` |

Each module defines an inductive invariant as a conjunction of named parts and
shows `Init => IInv` and `IInv /\ [Next]_vars => IInv'`, one step per action.

* **Runtime.** None of the safety properties is inductive. What carries them is
  the relation between a slot's fence and the device: a signalled fence means no
  unfinished batch of the slot, an unsignalled one means either an unfinished
  batch, or the frame that is open, or a failed submit (after which the status
  is `RecreateRequired` and no caller begins again). `SequenceInv` adds the order of
  sequence numbers among the jobs, and `ImageInv` that the fence remembered for an image
  is that of the last unfinished batch that writes it, which is why only an ignored
  wait lets two of them meet. `AwaitInv` follows a `renderFinished` signal from the
  batch to its present: while callers go on, every batch has had its present queued. The
  results that need slots to be reused in turn (`RingInvariance`,
  `MetricsOfSlot`, `Refinement`) rest on a second invariant: the slot of frame
  `n` is `n % FramesInFlight`, so the unfinished frames are at most the last
  `FramesInFlight` ones.
* **Frame loop.** The same shape, without the caller's contract: since a failed
  submission keeps the frame open, a reset fence always has a submission or an
  open frame behind it.
* **Takeover.** The invariant relates the steps of `configure`, the candidate,
  the published runtime and the state of all generations: generations are
  created in order, at most one is live, an uncertain one is the last and implies
  terminal interception or a closed surface, an orphan is the last too and implies that
  the takeover is disabled, so that no candidate follows it, and vanilla presentation exists only
  once the takeover is disabled for good.
* **Recorder.** The properties speak of the recorded history and the guards of the
  walk's flags, so the invariant says what each flag means in the history: a
  scope is open exactly when there is a begin without an end after it, and then
  the remembered template is that of the begin; a flag that is set has its call
  in the history; the push target and range are those of the last bind. Appending
  a call keeps what was true of the earlier ones.
* **Ranges of the recorder.** `InsideInv` says of every recorded call that it stays
  inside the tables, which do not change while calls are recorded. An accepted call
  has passed the tests of its opcode, so what is to be shown is what these say: a sum
  below the modulus is not changed by the wrap (`SumWithin`), and a difference of
  which the subtrahend was tested does not wrap at all.
* **Streams.** The invariant of a writer says where each append that returned lies:
  `LaidOut` names the offsets, at which the memory has the header and the payload of
  the append, and everything up to `currentByteOffset` is such a command. An append
  that failed half-way makes the count exceed the appends for ever
  (`WriterConsistent`); this is what the validator can see of it. `StreamDecision`
  follows the walk along these offsets and finds that a finished stream is accepted
  if and only if it has room for its header and no append failed half-way;
  `StreamReplayed` follows the iterator. Between them they give both theorems.
* **Files.** The sections are those whose identities were taken, lanes are verified
  ones, and a lane once verified is sealed and so stays what it was
  (`VerifiedIsSealed`); an undamaged file is still what `writeTo` would emit now.
  `ModuleDecision` takes the validator apart: a file is accepted if and only if
  none of its tests fails, wherever in the sequence of tests that is. From there,
  no overlap of neighbours means no overlap (`NeighboursSuffice`, by the least
  successor), and lanes that each stand at their position are 0 to N - 1, and the
  converse (`PositionsAreContiguous`, `ContiguousArePositions`, by counting). What
  `writeTo` emits passes since its offsets only grow and are aligned (`OffsetFacts`).
* **Tables.** For each kind, the checks of the writer imply the tests of the validator
  (`TakenPasses`), and these imply the checks again, up to the differences that the
  property names (`...Agree`, `AcceptedEntryWritable`). Where the regions lie is the
  same for both: the cursor of the writer is where the view looks
  (`ViewFollowsCursor`), and parts are apart, so what is found there is what was put
  there (`PartsAreApart`, `PartAtCursor`). `TablesFormed` says that a table is what a
  writer emitted, or that with words in some fields replaced.
* **Resources.** `NothingLeaks` becomes inductive with what ties the driver's objects
  to the calls made: a slot's handles are those of the calls before `done`, only the
  slot in progress has shader modules in local variables, an image is bound after its
  memory. `ViewsOfLiveImages` rests on who holds the image table (`ViewsHoldImages`)
  and on the preflight, which covers all views before the first call (`ViewsFit`).
* **Bootstrap.** Every step of the composition is shown to be a step or a stutter of
  each of its three parts (`BootstrapExtracts`, `BootstrapChangesDevices`,
  `BootstrapUsesRuntimes`); the invariants then concern one part each.
  *Extraction*: what is moved is complete, and a copy that is under way is the only
  one and has a partial target, so nobody has been given the path.
  *Capability*: devices that exist have different addresses, so a closing device
  that reads a capability with its address reads its own; a captured value is that
  of the device itself, and the newest device's cannot be swapped out by another.
  *Boundary*: the runtime that is being created has the objects of the calls made
  so far; an open one knows its address and the heap object there has all of its
  objects; a heap object belongs to the open runtime that knows it or holds only
  orphans. That a rollback takes everything rests on the order of `Calls`: the pool
  is created last but one, and only the failure of the last call destroys it.
* **What a runtime stands on.** `RuntimesFit` joins the three parts and is stated in
  the proof module, since no run is about it alone: from the loading of the library to
  the close, the library at the path is whole and the borrowed device is live and has
  the feature. It follows from the three invariants together: a complete library is
  only ever replaced by a complete one (`CompleteStays`), a live device is changed by
  nothing but its own close (`LiveStays`), which Minecraft does not begin before its
  surfaces have closed their runtimes, and the answer on which the handles were
  borrowed was true (`CapabilityIsTrueOfDevices`).

The properties of streams, files and tables compare two walks over the same data,
each a recursive function of the input. The provers have no induction rule for such
functions; the lemmas use instead that a set of numbers that is not empty has a least
member (`LeastNumber`, from the well-foundedness of Nat), for the set of steps
at which a statement fails. That a recursive function is what its definition says is
shown the same way (`WalkExists`, `IteratorExists`, `OffsetsExist`, `EntriesEndExists`,
`PartsSumExists`).

### Only model-checked

`BeginFrameReturns`, `DestroyReturns` and `FailureFallsBack` are liveness
properties under fairness, out of the prover's reach. The five violated properties
have counterexamples and no proofs. Every other property of a run is a theorem.

`RangesInside` says what the tests of the recorder achieve when the end of a range
fits its field: their sums wrap, and a range that ends beyond the modulus is
outside what it claims, in the run and in the theorem.

## 5. Not modelled

* Inside the modelled components: the choice of format, present mode and extent;
  durations in the metrics; the extraction of handles by reflection; logging and
  suppressed exceptions; the mapping of neutral enumerants to Vulkan's
  (`VulkanFormatMapping.hpp`), which is a table. The
  results of `vkResetFences` and of the destructor's `vkQueueWaitIdle`, which the code
  ignores, are in the model for a lost device (the frame opens, the objects are
  destroyed); a failure of either on a healthy device is not.
* In the stream and table modules: base addresses that are not aligned and inputs
  shorter than their header, whose tests are the first lines of each validator; the
  offsets of fields inside a record, which static assertions fix; reserved fields
  beyond one per record. An exhausted heap while a table is materialised.
* In the recorder: everything that is only passed on to Vulkan, such as the
  layouts of images, the masks of a barrier, coordinates and colours. Imported
  slots are unbound, as in this version of the tables.
* The module validation boundary, which copies a verdict; the disassembler, which
  prints; `VulkanContext`, which holds borrowed handles; windowing and statistics of
  the demo. None has state that changes.
* `PresentationTakeover` and `PresentationBootstrap` are not composed with each other:
  the first has generations of runtimes on one device, the second devices and
  runtimes without a surface policy.

What the models show of the code beyond the properties, and no document of the
repository contradicts:

* With more images than slots, and presents that lag by a turn of the slots, a slot's
  `renderFinished` semaphore is signalled twice and waited for once (`SignalLost`);
  a semaphore per image would not have this.
* `addSection` takes a section's identity before it verifies a lane, so a lane that
  was refused because it was unfinished cannot be added again.
* An append that fails half-way and is caught leaves a stream that `finish`
  completes and the validator refuses.
* `std::bad_alloc` inside `VulkanPresentationRuntime::create` leaves the objects
  created so far to nobody (`AllocationThrows`; what this means for the surface is the
  run `takeover_orphan`), and so does a destroy downcall that
  never runs, since `close` makes one attempt.
* Where `ATOMIC_MOVE` is not supported, a second caller, or a later process with the
  identifier of a killed one, can meet a partial file and is refused.
* The barrier-batch writer takes layouts and aspect masks that the validator
  refuses (`UnknownToValidator`); validators accept fields that Java would call
  negative, and a size or usage of an imported buffer.

## 6. Order of work so far

Runtime and its refinement first, since it holds the concurrency; then the
policy above it, which discharges the runtime's contract; then the frame loop,
which shares the abstract specification; then the command recorder, the largest
state machine that is not about frames. After these the command stream format on
both sides, the materialisation of its tables, and the bootstrap with its proofs;
then the proofs of tables, resources, streams, files and of the recorder's ranges.

## 7. Plan

What is left to prove joins the format and the recorder: that the tables which
`ResourceTables` makes of accepted ones satisfy what `RecorderAssumption` and
`FieldsAssumption` ask for, which the decoding operators of `CommandStreamTables`
would have to be related to.
