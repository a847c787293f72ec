--------------------------- MODULE CommandRecorder ---------------------------
(***************************************************************************)
(* CommandBufferRecorder::record                                           *)
(* (Native/src/Vulkan/CommandBufferRecorder.cpp): one walk over a validated *)
(* command stream that translates every command into a Vulkan call, or     *)
(* refuses the stream at the first command its tables or its own state     *)
(* cannot carry.                                                           *)
(*                                                                         *)
(* The stream is chosen command by command while the walk reads it.  A     *)
(* payload keeps the fields that the walk compares or remembers; a         *)
(* `knownLayout' or a `mappable' mask stands for the outcome of the test   *)
(* on that field.  Sums and products wrap at the width of their C++ type.  *)
(*                                                                         *)
(* Definitions marked `mutant' are plausible mistakes, not model.          *)
(***************************************************************************)
EXTENDS Integers, Sequences

CONSTANTS
    Commands,               \* the commands a stream may hold
    Inputs,                 \* the recordingInputs a caller may pass
    NoTable,                \* a table that was not supplied
    Modulus32, Modulus64,   \* 2^32 and 2^64
    MaxCommands             \* bound: length of a stream

\* Payloads and tables as their validators leave them.
ASSUME RecorderAssumption ==
    /\ MaxCommands \in Nat
    /\ Modulus32 \in Nat
    /\ Modulus64 \in Nat
    /\ \A c \in Commands :
         c.op \in {"BindComputePipeline", "BindGraphicsPipeline",
                  "BeginRendering"} => c.slot \in Nat
    /\ \A given \in Inputs :
         /\ given.templates # NoTable =>
              \A s \in DOMAIN given.templates :
                 /\ given.templates[s].colors \in Seq(Nat)
                 /\ given.templates[s].depth \in Seq(Nat)
         /\ given.graphicsPipelines # NoTable =>
              \A s \in DOMAIN given.graphicsPipelines :
                 /\ given.graphicsPipelines[s].colors \in Seq(STRING)
                 /\ given.graphicsPipelines[s].depth \in Seq(STRING)

\* Sizes, offsets and counts are unsigned; a batch is a sequence.
ASSUME FieldsAssumption ==
    /\ \A c \in Commands :
         /\ c.op = "CopyBuffer" =>
              {c.sourceOffset, c.destinationOffset, c.count} \subseteq Nat
         /\ c.op \in {"DispatchIndirect", "DrawIndirect"} => c.offset \in Nat
         /\ c.op = "ClearColorImage" =>
              {c.mip, c.mips, c.layer, c.layers} \subseteq Nat
         /\ c.op \in {"CopyBufferToImage", "CopyImageToBuffer"} =>
              {c.mip, c.layer, c.layers, c.offset,
               c.extent[1], c.extent[2], c.extent[3]} \subseteq Nat
    /\ \A given \in Inputs :
         /\ given.buffers # NoTable =>
              \A s \in DOMAIN given.buffers : given.buffers[s].byteSize \in Nat
         /\ given.images # NoTable =>
              \A s \in DOMAIN given.images :
                 {given.images[s].mips, given.images[s].layers,
                  given.images[s].texelByteSize} \subseteq Nat
         /\ given.batches # NoTable =>
              \A s \in DOMAIN given.batches :
                 LET batch == given.batches[s]
                 IN  /\ Len(batch) \in Nat /\ DOMAIN batch = 1 .. Len(batch)
                     /\ \A i \in DOMAIN batch :
                          {batch[i].offset, batch[i].count} \subseteq Nat

AddressByteSize           == 8          \* sizeof(VkDeviceAddress)
DispatchArgumentsByteSize == 12
DrawArgumentsByteSize     == 16         \* sizeof(VkDrawIndirectCommand)

RemainingCount == Modulus32 - 1         \* s_remainingCount
NoCommandIndex == Modulus32 - 1         \* noCommandIndex
WholeByteCount == Modulus64 - 1         \* s_wholeByteCount

Targets  == {"none", "compute", "graphics"} \X Nat
NoTarget == <<"none", 0>>

\* A Vulkan call: the command it was made for and its push target.
Calls == [command : Commands, target : Targets]

NoFailure == [error |-> "none", index |-> 0]

VARIABLES
    phase,                  \* of the Vulkan command buffer
    inputs,                 \* recordingInputs
    recorded,               \* the calls recorded: command, push target
    failure,                \* CommandBufferRecordingFailure
    hasBoundComputePipeline,
    hasOpenRenderingScope,
    openRenderingTemplateSlot,
    hasBoundGraphicsPipeline,
    hasSetViewport,
    hasSetScissor,
    pushTarget,             \* layout and stages of the last pipeline bound
    boundPushConstantByteSize

flags == <<hasBoundComputePipeline, hasOpenRenderingScope,
           openRenderingTemplateSlot, hasBoundGraphicsPipeline,
           hasSetViewport, hasSetScissor>>

walk == <<flags, pushTarget, boundPushConstantByteSize>>

vars == <<phase, inputs, recorded, failure, walk>>

Phases == {"initial", "recording", "executable", "failed"}

Init ==
    /\ phase = "initial"
    /\ inputs \in Inputs
    /\ recorded = <<>>
    /\ failure = NoFailure
    /\ hasBoundComputePipeline = FALSE
    /\ hasOpenRenderingScope = FALSE
    /\ openRenderingTemplateSlot = 0
    /\ hasBoundGraphicsPipeline = FALSE
    /\ hasSetViewport = FALSE
    /\ hasSetScissor = FALSE
    /\ pushTarget = NoTarget
    /\ boundPushConstantByteSize = 0

-----------------------------------------------------------------------------
(***************************************************************************)
(* Refusals.  The error of a command is the one of its first test that     *)
(* fails, and "none" when all tests pass.                                  *)
(***************************************************************************)

Refuse(condition, error) == IF condition THEN error ELSE "none"

first ?? second == IF first = "none" THEN second ELSE first

SlotError(table, slot, missing, outOfRange) ==
    IF table = NoTable THEN missing
                       ELSE Refuse(slot \notin DOMAIN table, outOfRange)

BufferError(slot) ==
       Refuse(slot \notin DOMAIN inputs.buffers, "BufferSlotOutOfRange")
    ?? Refuse(~inputs.buffers[slot].isBound, "UnboundImportedBuffer")

ImageError(slot) ==
       SlotError(inputs.images, slot, "MissingImageTable",
                 "ImageSlotOutOfRange")
    ?? Refuse(~inputs.images[slot].isBound, "UnboundImportedImage")

IgnoresCount(slot, offset, count) ==                             \* mutant
    offset > inputs.buffers[slot].byteSize

LeavesBuffer(slot, offset, count) ==
    (offset + count) % Modulus64 > inputs.buffers[slot].byteSize

CopyBufferError(c) ==
       Refuse({c.source, c.destination} \ DOMAIN inputs.buffers # {},
              "BufferSlotOutOfRange")
    ?? BufferError(c.source)
    ?? BufferError(c.destination)
    ?? Refuse(\/ LeavesBuffer(c.source, c.sourceOffset, c.count)
              \/ LeavesBuffer(c.destination, c.destinationOffset, c.count),
              "CopyRangeOutOfBounds")

\* A batch is the sequence of its global, buffer and image records, in the
\* order the walk visits them.
BarrierError(b) ==
       Refuse(~b.mappable, "UnmappableSynchronizationScope")
    ?? CASE b.kind = "global" -> "none"
         [] b.kind = "image"  -> ImageError(b.slot)
         [] b.kind = "buffer" ->
                   BufferError(b.slot)
                ?? Refuse(IF b.count = WholeByteCount
                             THEN b.offset >= inputs.buffers[b.slot].byteSize
                             ELSE LeavesBuffer(b.slot, b.offset, b.count),
                          "BarrierRangeOutOfBounds")

BatchError(batch) ==
    IF \A i \in DOMAIN batch : BarrierError(batch[i]) = "none"
       THEN "none"
       ELSE BarrierError(batch[CHOOSE i \in DOMAIN batch :
                /\ BarrierError(batch[i]) # "none"
                /\ \A j \in 1 .. i - 1 : BarrierError(batch[j]) = "none"])

ExecuteBarrierBatchError(c) ==
       SlotError(inputs.batches, c.slot, "MissingBarrierBatchTable",
                 "BarrierBatchSlotOutOfRange")
    ?? BatchError(inputs.batches[c.slot])

BindComputePipelineError(c) ==
    SlotError(inputs.pipelines, c.slot, "MissingPipelineTable",
              "PipelineSlotOutOfRange")

PushBufferDeviceAddressError(c) ==
       Refuse(pushTarget = NoTarget, "NoBoundComputePipeline")
    ?? BufferError(c.slot)
    ?? Refuse(~inputs.buffers[c.slot].hasAddress,
              "MissingBufferDeviceAddress")
    ?? Refuse(c.offset + AddressByteSize > boundPushConstantByteSize,
              "PushConstantRangeExceeded")

ComputeError ==
    Refuse(~hasBoundComputePipeline, "NoBoundComputePipeline")

IndirectError(c, byteSize) ==
       BufferError(c.slot)
    ?? Refuse("Indirect" \notin inputs.buffers[c.slot].usage,
              "MissingIndirectUsage")
    ?? Refuse(c.offset % 4 # 0, "MisalignedIndirectOffset")
    ?? Refuse(LeavesBuffer(c.slot, c.offset, byteSize),
              "IndirectArgumentsOutOfBounds")

-----------------------------------------------------------------------------
FormatError(c) ==
       Refuse(~c.knownLayout, "UnknownImageLayoutValue")
    ?? Refuse(~c.usableAspect, "UnknownImageAspectMask")

\* A counted range that leaves the image; RemainingCount reaches its end.
LeavesCount(base, count, limit) ==
    \/ count = 0
    \/ base >= limit
    \/ count # RemainingCount /\ (base + count) % Modulus32 > limit

ClearColorImageError(c) ==
       ImageError(c.image)
    ?? FormatError(c)
    ?? Refuse(\/ LeavesCount(c.mip, c.mips, inputs.images[c.image].mips)
              \/ LeavesCount(c.layer, c.layers,
                             inputs.images[c.image].layers),
              "ImageSubresourceOutOfRange")

MipExtent(image, mip, axis) ==
    LET halved == image.extent[axis] \div 2 ^ mip
    IN  IF halved = 0 THEN 1 ELSE halved

\* The copies do not test the base layer by itself, and know no sentinel.
\* The code shifts by the mip before it tests it: what a shift beyond the width
\* yields is undefined, and unused, since such a mip is out of range.
LeavesImage(c, image) ==
    \/ c.mip >= image.mips
    \/ c.layers = 0
    \/ (c.layer + c.layers) % Modulus32 > image.layers
    \/ \E axis \in 1 .. 3 :
         c.extent[axis] \notin 1 .. MipExtent(image, c.mip, axis)

TexelRangeByteSize(c, image) ==
    image.texelByteSize * c.extent[1] * c.extent[2] * c.extent[3] * c.layers

\* CopyBufferToImage and CopyImageToBuffer run the same tests; neither looks
\* at the usage of the buffer or the image.
ImageCopyError(c) ==
       ImageError(c.image)
    ?? BufferError(c.buffer)
    ?? FormatError(c)
    ?? Refuse(LeavesImage(c, inputs.images[c.image]),
              "ImageSubresourceOutOfRange")
    ?? Refuse(LeavesBuffer(c.buffer, c.offset,
                           TexelRangeByteSize(c, inputs.images[c.image])
                             % Modulus64),
              "CopyRangeOutOfBounds")

-----------------------------------------------------------------------------
Attachments(template) == template.colors \o template.depth

BeginRenderingError(c) ==
       Refuse(hasOpenRenderingScope, "NestedRenderingScope")
    ?? SlotError(inputs.templates, c.slot, "MissingRenderingTemplateTable",
                 "RenderingTemplateSlotOutOfRange")
    ?? Refuse(inputs.views = NoTable, "MissingImageViewTable")
    ?? LET attachments == Attachments(inputs.templates[c.slot])
       IN  Refuse(\E i \in DOMAIN attachments :
                    attachments[i] \notin DOMAIN inputs.views,
                  "ImageViewSlotOutOfRange")

EndRenderingError == Refuse(~hasOpenRenderingScope, "RenderingScopeNotOpen")

ScopeError ==
    Refuse(~hasOpenRenderingScope, "GraphicsCommandOutsideRenderingScope")

\* The colour formats are compared, the depth format is not.
ColorsDiffer(pipeline, template) ==                              \* mutant
    \/ Len(pipeline.colors) # Len(template.colors)
    \/ \E i \in DOMAIN template.colors :
         inputs.views[template.colors[i]] # pipeline.colors[i]

\* A depth attachment, or a depth format, is a sequence of at most one.
FormatsDiffer(pipeline, template) ==
    \/ Len(pipeline.colors) # Len(template.colors)
    \/ Len(pipeline.depth) # Len(template.depth)
    \/ \E i \in DOMAIN Attachments(template) :
         inputs.views[Attachments(template)[i]]
            # (pipeline.colors \o pipeline.depth)[i]

BindGraphicsPipelineError(c) ==
       ScopeError
    ?? SlotError(inputs.graphicsPipelines, c.slot,
                 "MissingGraphicsPipelineTable",
                 "GraphicsPipelineSlotOutOfRange")
    ?? Refuse(FormatsDiffer(inputs.graphicsPipelines[c.slot],
                            inputs.templates[openRenderingTemplateSlot]),
              "AttachmentFormatMismatch")

DrawErrorForEither ==                                            \* mutant
       ScopeError
    ?? Refuse(~hasBoundGraphicsPipeline, "NoBoundGraphicsPipeline")
    ?? Refuse(~hasSetViewport /\ ~hasSetScissor, "ViewportOrScissorNotSet")

DrawError ==
       ScopeError
    ?? Refuse(~hasBoundGraphicsPipeline, "NoBoundGraphicsPipeline")
    ?? Refuse(~hasSetViewport \/ ~hasSetScissor, "ViewportOrScissorNotSet")

DrawIndirectError(c) ==
       DrawError
    ?? Refuse(c.draws # 1, "UnsupportedIndirectDrawCount")
    ?? Refuse(c.stride # DrawArgumentsByteSize, "InvalidIndirectDrawStride")
    ?? IndirectError(c, c.draws * DrawArgumentsByteSize)

CommandError(c) ==
    CASE c.op = "CopyBuffer"              -> CopyBufferError(c)
      [] c.op = "ExecuteBarrierBatch"     -> ExecuteBarrierBatchError(c)
      [] c.op = "BindComputePipeline"     -> BindComputePipelineError(c)
      [] c.op = "PushBufferDeviceAddress" -> PushBufferDeviceAddressError(c)
      [] c.op = "Dispatch"                -> ComputeError
      [] c.op = "DispatchIndirect"        ->
             ComputeError ?? IndirectError(c, DispatchArgumentsByteSize)
      [] c.op = "ClearColorImage"         -> ClearColorImageError(c)
      [] c.op = "CopyBufferToImage"       -> ImageCopyError(c)
      [] c.op = "CopyImageToBuffer"       -> ImageCopyError(c)
      [] c.op = "BeginRendering"          -> BeginRenderingError(c)
      [] c.op = "EndRendering"            -> EndRenderingError
      [] c.op = "BindGraphicsPipeline"    -> BindGraphicsPipelineError(c)
      [] c.op = "SetViewport"             -> ScopeError
      [] c.op = "SetScissor"              -> ScopeError
      [] c.op = "Draw"                    -> DrawError
      [] c.op = "DrawIndirect"            -> DrawIndirectError(c)
      [] OTHER                            -> "UnsupportedOpcode"

-----------------------------------------------------------------------------
\* Without a buffer table the command buffer is not even begun.
BeginRecording ==
    /\ phase = "initial"
    /\ inputs.buffers # NoTable
    /\ phase' = "recording"
    /\ UNCHANGED <<inputs, recorded, failure, walk>>

ClearWalk ==
    /\ hasBoundComputePipeline' = FALSE
    /\ hasOpenRenderingScope' = FALSE
    /\ openRenderingTemplateSlot' = 0
    /\ hasBoundGraphicsPipeline' = FALSE
    /\ hasSetViewport' = FALSE
    /\ hasSetScissor' = FALSE
    /\ pushTarget' = NoTarget
    /\ boundPushConstantByteSize' = 0

\* The walk's variables are locals of record(): they end with the call, and
\* what was recorded up to there is of no use to anybody.
FailWith(error, index) ==
    /\ phase' = "failed"
    /\ recorded' = <<>>
    /\ failure' = [error |-> error, index |-> index]
    /\ ClearWalk
    /\ UNCHANGED inputs

BeginRecordingFails ==
    /\ phase = "initial"
    /\ IF inputs.buffers = NoTable
          THEN FailWith("MissingBufferTable", NoCommandIndex)
          ELSE FailWith("CommandBufferBeginFailed", NoCommandIndex)

RefuseCommand(c) ==
    /\ phase = "recording"
    /\ Len(recorded) < MaxCommands
    /\ CommandError(c) # "none"
    /\ FailWith(CommandError(c), Len(recorded))

\* The Vulkan call for command c, with the push target it is made for.
Record(c) ==
    /\ phase = "recording"
    /\ Len(recorded) < MaxCommands
    /\ CommandError(c) = "none"
    /\ recorded' = Append(recorded, [command |-> c, target |-> pushTarget])
    /\ UNCHANGED <<phase, inputs, failure>>

\* Commands that leave the walk's state alone.
Stateless == {"CopyBuffer", "ExecuteBarrierBatch", "PushBufferDeviceAddress",
              "Dispatch", "DispatchIndirect", "ClearColorImage",
              "CopyBufferToImage", "CopyImageToBuffer", "Draw",
              "DrawIndirect"}

RecordStateless(c) ==
    /\ c.op \in Stateless
    /\ Record(c)
    /\ UNCHANGED walk

BindComputePipeline(c) ==
    /\ c.op = "BindComputePipeline"
    /\ Record(c)
    /\ hasBoundComputePipeline' = TRUE
    /\ pushTarget' = <<"compute", c.slot>>
    /\ boundPushConstantByteSize' = inputs.pipelines[c.slot]
    /\ UNCHANGED <<hasOpenRenderingScope, openRenderingTemplateSlot,
                   hasBoundGraphicsPipeline, hasSetViewport, hasSetScissor>>

BeginRendering(c) ==
    /\ c.op = "BeginRendering"
    /\ Record(c)
    /\ hasOpenRenderingScope' = TRUE
    /\ openRenderingTemplateSlot' = c.slot
    /\ UNCHANGED <<hasBoundComputePipeline, hasBoundGraphicsPipeline,
                   hasSetViewport, hasSetScissor, pushTarget,
                   boundPushConstantByteSize>>

EndRenderingKeepsScope(c) ==                                     \* mutant
    /\ c.op = "EndRendering"
    /\ Record(c)
    /\ UNCHANGED walk

\* The pipeline, viewport and scissor stay set for a later scope.
EndRendering(c) ==
    /\ c.op = "EndRendering"
    /\ Record(c)
    /\ hasOpenRenderingScope' = FALSE
    /\ UNCHANGED <<hasBoundComputePipeline, openRenderingTemplateSlot,
                   hasBoundGraphicsPipeline, hasSetViewport, hasSetScissor,
                   pushTarget, boundPushConstantByteSize>>

BindGraphicsAsCompute(c) ==                                      \* mutant
    /\ c.op = "BindGraphicsPipeline"
    /\ Record(c)
    /\ hasBoundGraphicsPipeline' = TRUE
    /\ pushTarget' = <<"compute", c.slot>>
    /\ boundPushConstantByteSize' = inputs.graphicsPipelines[c.slot].pushSize
    /\ UNCHANGED <<hasBoundComputePipeline, hasOpenRenderingScope,
                   openRenderingTemplateSlot, hasSetViewport, hasSetScissor>>

BindGraphicsKeepsRange(c) ==                                     \* mutant
    /\ c.op = "BindGraphicsPipeline"
    /\ Record(c)
    /\ hasBoundGraphicsPipeline' = TRUE
    /\ pushTarget' = <<"graphics", c.slot>>
    /\ UNCHANGED <<hasBoundComputePipeline, hasOpenRenderingScope,
                   openRenderingTemplateSlot, hasSetViewport, hasSetScissor,
                   boundPushConstantByteSize>>

BindGraphicsPipeline(c) ==
    /\ c.op = "BindGraphicsPipeline"
    /\ Record(c)
    /\ hasBoundGraphicsPipeline' = TRUE
    /\ pushTarget' = <<"graphics", c.slot>>
    /\ boundPushConstantByteSize' = inputs.graphicsPipelines[c.slot].pushSize
    /\ UNCHANGED <<hasBoundComputePipeline, hasOpenRenderingScope,
                   openRenderingTemplateSlot, hasSetViewport, hasSetScissor>>

SetViewport(c) ==
    /\ c.op = "SetViewport"
    /\ Record(c)
    /\ hasSetViewport' = TRUE
    /\ UNCHANGED <<hasBoundComputePipeline, hasOpenRenderingScope,
                   openRenderingTemplateSlot, hasBoundGraphicsPipeline,
                   hasSetScissor, pushTarget, boundPushConstantByteSize>>

SetScissor(c) ==
    /\ c.op = "SetScissor"
    /\ Record(c)
    /\ hasSetScissor' = TRUE
    /\ UNCHANGED <<hasBoundComputePipeline, hasOpenRenderingScope,
                   openRenderingTemplateSlot, hasBoundGraphicsPipeline,
                   hasSetViewport, pushTarget, boundPushConstantByteSize>>

\* The stream is at its end, whether a scope is open or not.
EndRecording ==
    /\ phase = "recording"
    /\ phase' = "executable"
    /\ ClearWalk
    /\ UNCHANGED <<inputs, recorded, failure>>

EndRecordingFails ==
    /\ phase = "recording"
    /\ FailWith("CommandBufferEndFailed", NoCommandIndex)

\* The caller resets the command buffer, and may record again with other
\* inputs.
ResetCommandBuffer ==
    /\ phase \in {"executable", "failed"}
    /\ phase' = "initial"
    /\ inputs' \in Inputs
    /\ recorded' = <<>>
    /\ failure' = NoFailure
    /\ UNCHANGED walk

-----------------------------------------------------------------------------
RecordCommand(c) ==
    \/ RefuseCommand(c)
    \/ RecordStateless(c)
    \/ BindComputePipeline(c)
    \/ BeginRendering(c)
    \/ EndRendering(c)
    \/ BindGraphicsPipeline(c)
    \/ SetViewport(c)
    \/ SetScissor(c)

Next ==
    \/ BeginRecording
    \/ BeginRecordingFails
    \/ \E c \in Commands : RecordCommand(c)
    \/ EndRecording
    \/ EndRecordingFails
    \/ ResetCommandBuffer

Spec == Init /\ [][Next]_vars

-----------------------------------------------------------------------------
(***************************************************************************)
(* Properties.  They judge the recorded calls by what comes before each of *)
(* them, without the walk's flags.                                         *)
(***************************************************************************)

Op(i) == recorded[i].command.op

Binds == {"BindComputePipeline", "BindGraphicsPipeline"}
Draws == {"Draw", "DrawIndirect"}

\* The rendering scope begun by call b is open when call i is made.
ScopeAt(b, i) ==
    /\ Op(b) = "BeginRendering"
    /\ \A j \in b + 1 .. i - 1 : Op(j) # "EndRendering"

\* Call b is the last one with an operation in ops before call i.
LastBefore(b, i, ops) ==
    /\ Op(b) \in ops
    /\ \A j \in b + 1 .. i - 1 : Op(j) \notin ops

PipelineOf(c) == inputs.graphicsPipelines[c.slot]
TemplateOf(c) == inputs.templates[c.slot]

\* The attachment formats of a template, resolved through its image views.
Formats(attachments) ==
    [i \in DOMAIN attachments |-> inputs.views[attachments[i]]]

Compatible(pipeline, template) ==
    /\ Formats(template.colors) = pipeline.colors
    /\ Formats(template.depth) = pipeline.depth

Slots(table) == IF table = NoTable THEN {} ELSE DOMAIN table

\* The type invariant.
TypeOK ==
    /\ phase \in Phases
    /\ inputs \in Inputs
    /\ recorded \in Seq(Calls)
    /\ Len(recorded) <= MaxCommands
    /\ failure.index \in (0 .. MaxCommands) \cup {NoCommandIndex}
    /\ (phase = "failed") <=> (failure.error # "none")
    /\ hasBoundComputePipeline \in BOOLEAN
    /\ hasOpenRenderingScope \in BOOLEAN
    /\ hasBoundGraphicsPipeline \in BOOLEAN
    /\ hasSetViewport \in BOOLEAN
    /\ hasSetScissor \in BOOLEAN
    /\ hasOpenRenderingScope =>
         openRenderingTemplateSlot \in Slots(inputs.templates)
    /\ pushTarget \in Targets
    /\ pushTarget[1] = "none" => pushTarget = NoTarget
    /\ pushTarget[1] = "compute" => pushTarget[2] \in Slots(inputs.pipelines)
    /\ pushTarget[1] = "graphics" =>
         pushTarget[2] \in Slots(inputs.graphicsPipelines)

\* Rendering scopes never nest and are only ended when open, over the whole
\* recorded sequence.
ScopesAlternate ==
    \A i \in DOMAIN recorded :
        /\ Op(i) = "BeginRendering" => ~\E b \in 1 .. i - 1 : ScopeAt(b, i)
        /\ Op(i) = "EndRendering"   =>  \E b \in 1 .. i - 1 : ScopeAt(b, i)

\* What a device needs to execute a draw was recorded before it: a scope still
\* open, a graphics pipeline, a viewport and a scissor, in whatever order.
DrawsAreComplete ==
    \A i \in DOMAIN recorded : Op(i) \in Draws =>
        /\ \E b \in 1 .. i - 1 : ScopeAt(b, i)
        /\ {"BindGraphicsPipeline", "SetViewport", "SetScissor"}
              \subseteq {Op(j) : j \in 1 .. i - 1}

\* A graphics pipeline is only bound in a scope that renders to its formats:
\* the scope open at that call, not one ended before.
BindsMatchScope ==
    \A i \in DOMAIN recorded : Op(i) = "BindGraphicsPipeline" =>
        \E b \in 1 .. i - 1 :
            /\ ScopeAt(b, i)
            /\ Compatible(PipelineOf(recorded[i].command),
                          TemplateOf(recorded[b].command))

\* The layout a bind makes pushes go to, and the range its pipeline declares.
TargetOf(bind) ==
    IF bind.op = "BindComputePipeline" THEN <<"compute", bind.slot>>
                                       ELSE <<"graphics", bind.slot>>

PushRangeOf(bind) ==
    IF bind.op = "BindComputePipeline" THEN inputs.pipelines[bind.slot]
                                       ELSE PipelineOf(bind).pushSize

\* A push reaches the pipeline bound last, of either kind, with the layout and
\* stages of that pipeline and inside the range it declares.
PushesReachBoundPipeline ==
    \A i \in DOMAIN recorded : Op(i) = "PushBufferDeviceAddress" =>
        \E b \in 1 .. i - 1 :
            /\ LastBefore(b, i, Binds)
            /\ recorded[i].target = TargetOf(recorded[b].command)
            /\ ~(recorded[i].command.offset + AddressByteSize
                   > PushRangeOf(recorded[b].command))

\* The byte ranges <<offset, count, limit>> that a recorded call touches.  A
\* whole-size barrier reaches from its offset to the end of the buffer.
ByteRanges(c) ==
    LET range(slot, offset, count) ==
            <<offset, count, inputs.buffers[slot].byteSize>>
    IN  CASE c.op = "CopyBuffer" ->
                 {range(c.source, c.sourceOffset, c.count),
                  range(c.destination, c.destinationOffset, c.count)}
          [] c.op = "ExecuteBarrierBatch" ->
                 LET batch == inputs.batches[c.slot]
                 IN  {range(batch[i].slot, batch[i].offset,
                            IF batch[i].count = WholeByteCount
                               THEN 1 ELSE batch[i].count) :
                        i \in {j \in DOMAIN batch : batch[j].kind = "buffer"}}
          [] c.op = "DispatchIndirect" ->
                 {range(c.slot, c.offset, DispatchArgumentsByteSize)}
          [] c.op = "DrawIndirect" ->
                 {range(c.slot, c.offset, DrawArgumentsByteSize)}
          [] c.op \in {"CopyBufferToImage", "CopyImageToBuffer"} ->
                 {range(c.buffer, c.offset,
                        TexelRangeByteSize(c, inputs.images[c.image]))}
          [] OTHER -> {}

\* The mip and layer ranges that a recorded call touches.
SubresourceRanges(c) ==
    IF c.op = "ClearColorImage"
       THEN LET counted(base, count, limit) ==
                    <<base, IF count = RemainingCount THEN 1 ELSE count, limit>>
                image == inputs.images[c.image]
            IN  {counted(c.mip, c.mips, image.mips),
                 counted(c.layer, c.layers, image.layers)}
    ELSE IF c.op \in {"CopyBufferToImage", "CopyImageToBuffer"}
       THEN {<<c.mip, 1, inputs.images[c.image].mips>>,
             <<c.layer, c.layers, inputs.images[c.image].layers>>}
    ELSE {}

\* The tests on ranges are made on wrapped sums: a range whose end does not
\* fit the field's width is beyond what they decide.
Within(r, modulus) == r[1] + r[2] <= r[3] \/ r[1] + r[2] >= modulus

\* Every recorded call stays inside the buffers and images it names, for each
\* of the range tests the walk has: copies, indirect arguments, barriers,
\* clears and texel ranges, provided the range ends below the modulus.
RangesInside ==
    \A i \in DOMAIN recorded :
        /\ \A r \in ByteRanges(recorded[i].command) : Within(r, Modulus64)
        /\ \A r \in SubresourceRanges(recorded[i].command) :
             Within(r, Modulus32)

\* The formats of a draw's pipeline are those of the scope it draws in
\* (CommandBufferRecordingError.hpp, AttachmentFormatMismatch).
DrawsMatchScope ==
    \A i \in DOMAIN recorded : Op(i) \in Draws =>
        \E b, g \in 1 .. i - 1 :
            /\ ScopeAt(b, i)
            /\ LastBefore(g, i, {"BindGraphicsPipeline"})
            /\ Compatible(PipelineOf(recorded[g].command),
                          TemplateOf(recorded[b].command))

\* A recorded upload reads a buffer with the TransferSource usage and writes
\* an image with TransferDestination (CommandStreamFormat.md, 9.11).
UploadsHaveUsage ==
    \A i \in DOMAIN recorded : Op(i) = "CopyBufferToImage" =>
        LET c == recorded[i].command
        IN  /\ "TransferSource" \in inputs.buffers[c.buffer].usage
            /\ "TransferDestination" \in inputs.images[c.image].usage
=============================================================================
