-------------------------- MODULE MCCommandRecorder --------------------------
(***************************************************************************)
(* CommandRecorder for TLC.  Offsets, counts and slots are chosen at both  *)
(* sides of every test of the walk, and some sums wrap at the moduli.      *)
(***************************************************************************)
EXTENDS CommandRecorder

CONSTANT Stream             \* which commands: "mixed" or "graphics"

Buffer(isBound, byteSize, hasAddress, usage) ==
    [isBound |-> isBound, byteSize |-> byteSize, hasAddress |-> hasAddress,
     usage |-> usage]

Image(isBound, mips, layers) ==
    [isBound |-> isBound, mips |-> mips, layers |-> layers,
     extent |-> <<4, 2, 1>>, texelByteSize |-> 2,
     usage |-> {"TransferSource", "TransferDestination"}]

Template(colors, depth) == [colors |-> colors, depth |-> depth]

Pipeline(colors, depth, pushSize) ==
    [colors |-> colors, depth |-> depth, pushSize |-> pushSize]

Barrier(kind, mappable, slot, offset, count) ==
    [kind |-> kind, mappable |-> mappable, slot |-> slot, offset |-> offset,
     count |-> count]

AllTables ==
    [buffers   |-> [s \in 0 .. 2 |->
                      <<Buffer(TRUE, 32, TRUE, {"Indirect", "TransferSource"}),
                        Buffer(FALSE, 0, FALSE, {}),
                        Buffer(TRUE, 16, FALSE, {"TransferDestination"})>>[s + 1]],
     batches   |-> [s \in 0 .. 3 |->
                      <<<<Barrier("global", TRUE, 0, 0, 0),
                          Barrier("buffer", TRUE, 0, 16, 63),
                          Barrier("buffer", TRUE, 2, 0, 16),
                          Barrier("image", TRUE, 0, 0, 0)>>,
                        <<Barrier("buffer", TRUE, 0, 16, 20)>>,
                        <<Barrier("buffer", TRUE, 2, 16, 63),
                          Barrier("image", FALSE, 1, 0, 0)>>,
                        <<Barrier("global", FALSE, 0, 0, 0),
                          Barrier("image", TRUE, 1, 0, 0)>>>>[s + 1]],
     pipelines |-> [s \in {0} |-> 8],
     images    |-> [s \in 0 .. 1 |->
                      <<Image(TRUE, 2, 2), Image(FALSE, 0, 0)>>[s + 1]],
     views     |-> [s \in 0 .. 1 |-> <<"color", "depth">>[s + 1]],
     templates |-> [s \in 0 .. 2 |->
                      <<Template(<<0>>, <<>>), Template(<<0>>, <<1>>),
                        Template(<<2>>, <<>>)>>[s + 1]],
     graphicsPipelines |->
                   [s \in 0 .. 1 |->
                      <<Pipeline(<<"color">>, <<>>, 16),
                        Pipeline(<<"color">>, <<"depth">>, 0)>>[s + 1]]]

MCInputs ==
    LET without(fields) ==
            [f \in DOMAIN AllTables |->
                IF f \in fields THEN NoTable ELSE AllTables[f]]
    IN  IF Stream = "graphics"
           THEN {AllTables}
           ELSE {AllTables,
                 without({"buffers"}),
                 without(DOMAIN AllTables \ {"buffers", "templates"})}

CopyBuffer(source, destination, sourceOffset, destinationOffset, count) ==
    [op |-> "CopyBuffer", source |-> source, destination |-> destination,
     sourceOffset |-> sourceOffset, destinationOffset |-> destinationOffset,
     count |-> count]

Clear(image, knownLayout, usableAspect, mip, mips, layer, layers) ==
    [op |-> "ClearColorImage", image |-> image, knownLayout |-> knownLayout,
     usableAspect |-> usableAspect, mip |-> mip, mips |-> mips,
     layer |-> layer, layers |-> layers]

ImageCopy(op, buffer, image, mip, layer, layers, offset, extent) ==
    [op |-> op, buffer |-> buffer, image |-> image, knownLayout |-> TRUE,
     usableAspect |-> TRUE, mip |-> mip, layer |-> layer, layers |-> layers,
     offset |-> offset, extent |-> extent]

Slotted(op, slots) == [op : {op}, slot : slots]

Graphics ==
         Slotted("BeginRendering", 0 .. 1)
    \cup Slotted("BindGraphicsPipeline", 0 .. 1)
    \cup {[op |-> "EndRendering"], [op |-> "SetViewport"],
          [op |-> "SetScissor"], [op |-> "Draw"]}

Mixed ==
         Graphics
    \cup Slotted("BeginRendering", 2 .. 3)
    \cup Slotted("BindGraphicsPipeline", {2})
    \cup Slotted("BindComputePipeline", 0 .. 1)
    \cup Slotted("ExecuteBarrierBatch", 0 .. 4)
    \cup [op : {"PushBufferDeviceAddress"}, slot : {0, 2}, offset : {0, 8, 9}]
    \cup [op : {"DispatchIndirect"}, slot : {0}, offset : {20, 22, 24, 60}]
    \cup [op : {"DispatchIndirect"}, slot : {2}, offset : {0}]
    \cup [op : {"DrawIndirect"}, slot : {0}, draws : 1 .. 2,
          offset : {16, 20}, stride : {16, 20}]
    \cup {CopyBuffer(0, 2, 16, 0, 16), CopyBuffer(0, 2, 17, 0, 16),
          CopyBuffer(0, 2, 0, 1, 16), CopyBuffer(0, 1, 0, 0, 4),
          CopyBuffer(3, 0, 0, 0, 4), CopyBuffer(0, 2, 60, 0, 8),
          Clear(0, TRUE, TRUE, 1, 7, 0, 2), Clear(0, TRUE, TRUE, 1, 2, 0, 2),
          Clear(0, TRUE, TRUE, 0, 1, 1, 2), Clear(0, FALSE, TRUE, 0, 1, 0, 1),
          Clear(0, TRUE, FALSE, 0, 1, 0, 1), Clear(1, TRUE, TRUE, 0, 1, 0, 1),
          ImageCopy("CopyBufferToImage", 0, 0, 0, 0, 2, 0, <<4, 2, 1>>),
          ImageCopy("CopyBufferToImage", 0, 0, 0, 0, 2, 1, <<4, 2, 1>>),
          ImageCopy("CopyBufferToImage", 2, 0, 1, 1, 1, 12, <<2, 1, 1>>),
          ImageCopy("CopyImageToBuffer", 2, 0, 1, 1, 1, 12, <<2, 1, 1>>),
          ImageCopy("CopyImageToBuffer", 2, 0, 1, 1, 1, 0, <<4, 1, 1>>),
          ImageCopy("CopyImageToBuffer", 2, 0, 1, 1, 2, 0, <<1, 1, 1>>),
          ImageCopy("CopyImageToBuffer", 2, 2, 0, 0, 1, 0, <<1, 1, 1>>),
          [op |-> "Dispatch"], [op |-> "DrawIndexed"]}

MCCommands == IF Stream = "graphics" THEN Graphics ELSE Mixed
=============================================================================
