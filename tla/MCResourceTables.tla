--------------------------- MODULE MCResourceTables ---------------------------
(* Plans: tables to materialise, per group of tables that depend on each     *)
(* other, and tables of every kind to damage in one field.                   *)
EXTENDS ResourceTables, TLC

MCModulus == 1024
Half == MCModulus \div 2

Whole(fields) == [fields |-> fields, parts |-> <<>>]

BufferOf(size, usage, memoryKind, import) ==
    Whole([byteSize |-> size, usageFlags |-> usage, memoryKind |-> memoryKind,
           importIdentifier |-> import, reservedFlags |-> 0])
Buffers == {BufferOf(16, 1, 1, 0), BufferOf(16, 128, 3, 0), BufferOf(0, 0, 0, 7)}

ImageOf(kind, format, mips, layers, usage, import) ==
    Whole([imageKind |-> kind, format |-> format, width |-> 4, height |-> 4, depth |-> 1,
           mipLevelCount |-> mips, arrayLayerCount |-> layers, sampleCount |-> 1,
           usageFlags |-> usage, importIdentifier |-> import])
Images == {ImageOf(2, 1, 2, 1, 4, 0), ImageOf(2, 6, 1, 2, 32, 0),
           ImageOf(2, 1, 2, 1, 2, 0), ImageOf(2, 1, 2, 1, 4, 7)}

ViewOf(slot, format, aspects, base, mips, layer) ==
    Whole([imageSlot |-> slot, imageViewKind |-> 2, format |-> format,
           aspectMask |-> aspects, baseMipLevel |-> base, mipLevelCount |-> mips,
           baseArrayLayer |-> layer, arrayLayerCount |-> 1])
Views == {ViewOf(0, 1, 1, 1, 1, 0), ViewOf(1, 6, 2, 0, 1, 1), ViewOf(0, 1, 1, 1, 2, 0)}

Pipelines == {Whole([pipelineKind |-> 1, shaderModuleSlot |-> slot,
                     pushConstantByteSize |-> 4, reservedFlags |-> 0]) : slot \in 0 .. 1}

GraphicsOf(slot, colorCount, depthFormat, test) ==
    Whole([vertexShaderModuleSlot |-> 0, fragmentShaderModuleSlot |-> slot,
           pushConstantByteSize |-> 128, topology |-> 4, cullMode |-> 1, frontFace |-> 1,
           colorCount |-> colorCount, colorFormat |-> colorCount,
           depthFormat |-> depthFormat, depthTest |-> test, depthWrite |-> test,
           depthCompare |-> 2 * test, reservedFlags |-> 0])
Graphics == {GraphicsOf(0, 1, 0, 0), GraphicsOf(1, 0, 5, 1)}

Shaders == {[fields |-> [byteSize |-> size], parts |-> <<[isSpirv |-> 1]>>] :
                size \in {20, 24}}

Attachment == [layout |-> 2, loadOp |-> 1, storeOp |-> 1]
Templates == {[fields |-> [colorCount |-> colors, depthPresent |-> depth,
                           width |-> 4, height |-> 4, layerCount |-> 1],
               parts |-> [i \in 1 .. colors + depth |-> Attachment]] :
                <<colors, depth>> \in {<<0, 1>>, <<1, 0>>, <<2, 1>>}}

Global == [sourceStages |-> 1, destinationStages |-> 1]
BufferBarrier == Global @@ [reservedFlags |-> 0, bufferSlot |-> 1]
ImageBarrier(layout) ==
    Global @@ [imageSlot |-> 0, aspectMask |-> 1, oldLayout |-> 0, newLayout |-> layout,
               mipCount |-> 1, layerCount |-> MCModulus - 1]
BatchOf(globals, buffers, images) ==
    [fields |-> [globalCount |-> Len(globals), bufferCount |-> Len(buffers),
                 imageCount |-> Len(images), reservedFlags |-> 0],
     parts |-> globals \o buffers \o images]
Batches == {BatchOf(<<>>, <<>>, <<>>), BatchOf(<<Global>>, <<BufferBarrier>>, <<ImageBarrier(7)>>),
            BatchOf(<<>>, <<BufferBarrier>>, <<ImageBarrier(8)>>)}

AllOffered == [Buffer |-> Buffers, Image |-> Images, ImageView |-> Views,
               Pipeline |-> Pipelines, GraphicsPipeline |-> Graphics,
               ShaderModule |-> Shaders, RenderingTemplate |-> Templates,
               BarrierBatch |-> Batches]

Offer(kinds, isDamaged) ==
    [offered |-> [kind \in kinds |-> AllOffered[kind]], isDamaged |-> isDamaged]

MCPlans ==
    {Offer({"Buffer"}, FALSE), Offer({"Image", "ImageView"}, FALSE),
     Offer({"ShaderModule", "Pipeline", "GraphicsPipeline"}, FALSE),
     Offer({"RenderingTemplate", "BarrierBatch"}, FALSE)}
    \cup {Offer({kind}, TRUE) : kind \in Kinds}

\* What damage leaves in a field: nothing, a neighbouring value, the value past
\* the last enumerant, the sign bit, all bits.
Damage == {0, 1, 2, 8, 9, Half, MCModulus - 1}
On(fields) == [field \in fields |-> Damage]

MCFieldValues ==
    [Buffer |-> On({"byteSize", "memoryKind", "importIdentifier", "reservedFlags"})
                @@ [usageFlags |-> {0, 255, 256}],
     Image |-> On({"imageKind", "format", "width", "height", "depth", "mipLevelCount",
                   "arrayLayerCount", "sampleCount", "importIdentifier"})
               @@ [usageFlags |-> {0, 63, 64}],
     ImageView |-> On({"imageSlot", "imageViewKind", "format", "aspectMask", "baseMipLevel",
                       "mipLevelCount", "baseArrayLayer", "arrayLayerCount"}),
     Pipeline |-> On({"pipelineKind", "shaderModuleSlot", "reservedFlags"})
                  @@ [pushConstantByteSize |-> {0, 2, 128, 132}],
     GraphicsPipeline |->
        On({"topology", "cullMode", "frontFace", "colorCount", "colorFormat", "depthFormat",
            "depthTest", "depthWrite", "depthCompare", "reservedFlags"})
        @@ [pushConstantByteSize |-> {0, 2, 128, 132}],
     ShaderModule |-> [byteSize |-> {16, 20, 22, 32}],
     RenderingTemplate |->
        On({"width", "height", "layerCount"})
        @@ [colorCount |-> {0, 1, 2, 3, Half}, depthPresent |-> {0, 1, 2}],
     BarrierBatch |->
        [field \in {"globalCount", "bufferCount", "imageCount"} |-> {0, 1, 2, Half}]
        @@ [reservedFlags |-> {1}]]

\* Words that make a part look sound.
MCStray == [field \in PartFieldNames |-> IF field = "reservedFlags" THEN 0 ELSE 1]

MCPartValues ==
    [ShaderModule |-> [isSpirv |-> {0}],
     RenderingTemplate |-> On({"layout", "loadOp", "storeOp"}),
     BarrierBatch |->
        On({"sourceStages", "destinationStages", "reservedFlags", "bufferSlot", "imageSlot",
            "aspectMask", "oldLayout", "newLayout", "mipCount", "layerCount"})]
=============================================================================
