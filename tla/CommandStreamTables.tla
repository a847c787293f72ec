------------------------- MODULE CommandStreamTables -------------------------
(***************************************************************************)
(* The eight tables a module file carries: a writer per kind of table      *)
(* (Java) emits them, a validator per kind (native) checks the bytes and a *)
(* view decodes their slots.  The two sides share a format and no code.    *)
(*                                                                         *)
(* An entry is a record of 32-bit fields; entries of three kinds have      *)
(* parts behind the directory (attachments, barriers, a shader's blob),    *)
(* records of fields as well.  A field holds what its 32 bits are read as  *)
(* without a sign, modulo Modulus: Java sees the upper half as negative.   *)
(* Enumerants, masks and formats are the values of the format.  Fields     *)
(* that neither side looks at are left out.                                *)
(***************************************************************************)
EXTENDS Integers, Sequences, Functions

CONSTANTS
    Plans,          \* what a run authors: the entries offered for each kind
                    \* and whether tables are damaged
    MaxEntries,     \* bound on the entries of one table
    FieldValues,    \* for each kind and field, what damage can leave there
    PartValues,     \* the same for the fields of the parts
    Stray,          \* what a field of a part reads as where no part was placed
    Modulus         \* stands for 2^32

VARIABLES
    plan,
    pending,        \* m_pendingEntries and its like: what each writer has taken
    tables          \* what writeTo emits, and damage does to it

tableVars == <<plan, pending, tables>>

EntryByteSize ==
    [Buffer |-> 24, Image |-> 40, ImageView |-> 32, Pipeline |-> 16,
     GraphicsPipeline |-> 80, ShaderModule |-> 16, RenderingTemplate |-> 40,
     BarrierBatch |-> 24]

Kinds == DOMAIN EntryByteSize
RegionKinds == {"ShaderModule", "RenderingTemplate", "BarrierBatch"}

\* The fields of an entry, record for record.
EntryFields ==
    [Buffer |-> {"byteSize", "usageFlags", "memoryKind", "importIdentifier", "reservedFlags"},
     Image |-> {"imageKind", "format", "width", "height", "depth", "mipLevelCount",
                "arrayLayerCount", "sampleCount", "usageFlags", "importIdentifier"},
     ImageView |-> {"imageSlot", "imageViewKind", "format", "aspectMask", "baseMipLevel",
                    "mipLevelCount", "baseArrayLayer", "arrayLayerCount"},
     Pipeline |-> {"pipelineKind", "shaderModuleSlot", "pushConstantByteSize",
                   "reservedFlags"},
     GraphicsPipeline |->
        {"vertexShaderModuleSlot", "fragmentShaderModuleSlot", "pushConstantByteSize",
         "topology", "cullMode", "frontFace", "colorCount", "colorFormat", "depthFormat",
         "depthTest", "depthWrite", "depthCompare", "reservedFlags"},
     ShaderModule |-> {"byteSize"},
     RenderingTemplate |-> {"colorCount", "depthPresent", "width", "height", "layerCount"},
     BarrierBatch |-> {"globalCount", "bufferCount", "imageCount", "reservedFlags"}]

Word == 0 .. Modulus - 1

IsGlobal(f, i) == i <= f.globalCount
IsBuffer(f, i) == ~IsGlobal(f, i) /\ i <= f.globalCount + f.bufferCount
IsImage(f, i) == i > f.globalCount + f.bufferCount

\* The fields of the parts of an entry: of its blob, attachments or barriers.
BarrierFields == {"sourceStages", "destinationStages"}
PartFields(kind, f, i) ==
    CASE kind = "ShaderModule" -> {"isSpirv"}
      [] kind = "RenderingTemplate" -> {"layout", "loadOp", "storeOp"}
      [] kind = "BarrierBatch" /\ IsGlobal(f, i) -> BarrierFields
      [] kind = "BarrierBatch" /\ IsBuffer(f, i) ->
            BarrierFields \cup {"reservedFlags", "bufferSlot"}
      [] kind = "BarrierBatch" /\ IsImage(f, i) ->
            BarrierFields \cup {"imageSlot", "aspectMask", "oldLayout", "newLayout",
                                "mipCount", "layerCount"}

PartFieldNames ==
    BarrierFields \cup
    {"isSpirv", "layout", "loadOp", "storeOp", "reservedFlags", "bufferSlot", "imageSlot",
     "aspectMask", "oldLayout", "newLayout", "mipCount", "layerCount"}

ASSUME ModulusAssumption == Modulus \in Nat /\ Modulus > 8

IsEntry(kind, entry) ==
    /\ entry = [fields |-> entry.fields, parts |-> entry.parts]
    /\ entry.fields \in [EntryFields[kind] -> Word]
    /\ entry.parts \in Seq(Range(entry.parts))
    /\ kind \notin RegionKinds => entry.parts = <<>>
    /\ kind = "ShaderModule" => Len(entry.parts) = 1
    /\ \A i \in DOMAIN entry.parts :
        entry.parts[i] \in [PartFields(kind, entry.fields, i) -> Word]

\* What is offered to a writer has the fields of its kind.
ASSUME PlansAssumption ==
    \A p \in Plans : \A kind \in DOMAIN p.offered :
        kind \in Kinds /\ \A entry \in p.offered[kind] : IsEntry(kind, entry)

\* Damage leaves words, and whatever is read is words.
ASSUME StrayAssumption == Stray \in [PartFieldNames -> Word]
ASSUME DamageAssumption ==
    \A kind \in Kinds :
        /\ \A field \in DOMAIN FieldValues[kind] :
            field \in EntryFields[kind] /\ FieldValues[kind][field] \subseteq Word
        /\ kind \in RegionKinds =>
            \A field \in DOMAIN PartValues[kind] : PartValues[kind][field] \subseteq Word

Negative(field) == field >= Modulus \div 2
Positive(field) == field # 0 /\ ~Negative(field)

-----------------------------------------------------------------------------
(* What a writer takes: its argument checks, and the values its parameter  *)
(* types leave room for.                                                   *)

BufferWritable(f) ==
    /\ f.reservedFlags = 0
    /\ f.memoryKind \in 0 .. 3
    /\ IF f.importIdentifier = 0
       THEN /\ Positive(f.byteSize)
            /\ f.usageFlags \in 1 .. 255
            /\ f.memoryKind # 0
       ELSE f.byteSize = 0 /\ f.usageFlags = 0 /\ f.memoryKind = 0

ImageWritable(f) ==
    /\ f.imageKind \in 1 .. 3
    /\ f.format \in 1 .. 6
    /\ f.importIdentifier = 0 => f.usageFlags # 0
    /\ \A dimension \in {"width", "height", "depth", "mipLevelCount", "arrayLayerCount"} :
            Positive(f[dimension])
    /\ f.imageKind = 3 => f.arrayLayerCount = 1
    /\ f.sampleCount \in {1, 2, 4, 8}
    /\ f.usageFlags \in 0 .. 63

ImageViewWritable(f) ==
    /\ ~Negative(f.imageSlot)
    /\ f.imageViewKind \in 1 .. 3
    /\ f.format \in 1 .. 6
    /\ f.aspectMask \in 1 .. 7
    /\ ~Negative(f.baseMipLevel)
    /\ Positive(f.mipLevelCount)
    /\ ~Negative(f.baseArrayLayer)
    /\ f.imageViewKind = 3 => f.baseArrayLayer = 0
    /\ f.arrayLayerCount = 1

PushConstantByteSizes == {size \in 0 .. 128 : size % 4 = 0}

PipelineWritable(f) ==
    /\ f.reservedFlags = 0
    /\ f.pipelineKind = 1
    /\ ~Negative(f.shaderModuleSlot)
    /\ f.pushConstantByteSize \in PushConstantByteSizes

ColorFormats == 1 .. 4
DepthFormats == 5 .. 6

\* Shader slots are not looked at, and a pipeline has one color format or none.
GraphicsPipelineWritable(f) ==
    /\ f.reservedFlags = 0
    /\ f.pushConstantByteSize \in PushConstantByteSizes
    /\ f.topology \in 1 .. 5 /\ f.cullMode \in 1 .. 4 /\ f.frontFace \in 1 .. 2
    /\ f.colorCount \in 0 .. 1
    /\ f.colorCount = 1 => f.colorFormat \in ColorFormats
    /\ f.colorCount = 0 => f.colorFormat = 0 /\ f.depthFormat # 0
    /\ f.depthFormat \in DepthFormats \cup {0}
    /\ f.depthTest \in 0 .. 1 /\ f.depthWrite \in 0 .. 1
    /\ f.depthFormat = 0 => f.depthTest = 0
    /\ f.depthWrite = 1 => f.depthTest = 1
    /\ IF f.depthTest = 1 THEN f.depthCompare \in 1 .. 8 ELSE f.depthCompare = 0

ShaderModuleWritable(f, parts) ==
    /\ f.byteSize >= 20
    /\ f.byteSize % 4 = 0
    /\ parts[1].isSpirv = 1

RenderingTemplateWritable(f, parts) ==
    /\ Len(parts) = f.colorCount + f.depthPresent
    /\ f.depthPresent \in 0 .. 1
    /\ parts # <<>>
    /\ Positive(f.width) /\ Positive(f.height) /\ Positive(f.layerCount)
    /\ \A i \in DOMAIN parts :
        parts[i].layout \in 0 .. 7 /\ parts[i].loadOp \in 0 .. 2 /\ parts[i].storeOp \in 0 .. 1

StagesGiven(part) == part.sourceStages # 0 /\ part.destinationStages # 0

\* Layouts and aspects are integers, and not looked at.
BarrierBatchWritable(f, parts) ==
    /\ Len(parts) = f.globalCount + f.bufferCount + f.imageCount
    /\ f.reservedFlags = 0
    /\ \A i \in DOMAIN parts :
        /\ StagesGiven(parts[i])
        /\ IsBuffer(f, i) => parts[i].reservedFlags = 0 /\ ~Negative(parts[i].bufferSlot)
        /\ IsImage(f, i) =>
            ~Negative(parts[i].imageSlot) /\ parts[i].mipCount # 0 /\ parts[i].layerCount # 0

Writable(kind, entry) ==
    LET f == entry.fields
    IN  CASE kind = "Buffer" -> BufferWritable(f)
          [] kind = "Image" -> ImageWritable(f)
          [] kind = "ImageView" -> ImageViewWritable(f)
          [] kind = "Pipeline" -> PipelineWritable(f)
          [] kind = "GraphicsPipeline" -> GraphicsPipelineWritable(f)
          [] kind = "ShaderModule" -> ShaderModuleWritable(f, entry.parts)
          [] kind = "RenderingTemplate" -> RenderingTemplateWritable(f, entry.parts)
          [] kind = "BarrierBatch" -> BarrierBatchWritable(f, entry.parts)

-----------------------------------------------------------------------------
(* Where a writer puts things.  Its cursor advances from part to part.     *)

PartByteSize(kind, f, i) ==
    CASE kind = "ShaderModule" -> f.byteSize
      [] kind = "RenderingTemplate" -> 32
      [] kind = "BarrierBatch" /\ IsGlobal(f, i) -> 32
      [] kind = "BarrierBatch" /\ IsBuffer(f, i) -> 56
      [] kind = "BarrierBatch" /\ IsImage(f, i) -> 64

\* Blobs packed without padding between them.
Packed(byteOffset) == byteOffset

AlignUp(byteOffset) == ((byteOffset + 7) \div 8) * 8

DirectoryEnd(kind, count) == 8 + count * EntryByteSize[kind]

\* The cursor advances over the first i parts of an entry.
PartsByteSize(kind, f, i) ==
    LET sum[j \in 0 .. i] == IF j = 0 THEN 0 ELSE sum[j - 1] + PartByteSize(kind, f, j)
    IN  sum[i]

\* Behind entries[1 .. n], their parts included.
EntriesEnd(kind, entries, n) ==
    LET end[m \in 0 .. n] ==
            IF m = 0 THEN DirectoryEnd(kind, Len(entries))
            ELSE AlignUp(end[m - 1] + PartsByteSize(kind, entries[m].fields,
                                                    Len(entries[m].parts)))
    IN  end[n]

\* Behind the first i parts of entries[n].
Cursor(kind, entries, n, i) ==
    EntriesEnd(kind, entries, n - 1) + PartsByteSize(kind, entries[n].fields, i)

Written(kind, entries) ==
    [byteSize |-> EntriesEnd(kind, entries, Len(entries)),
     count |-> Len(entries),
     reservedFlags |-> 0,
     directory |->
        [n \in DOMAIN entries |->
            [fields |-> entries[n].fields,
             byteOffset |-> Cursor(kind, entries, n, 0)]],
     placed |->
        UNION {{[byteOffset |-> Cursor(kind, entries, n, i - 1),
                 part |-> entries[n].parts[i]] :
                    i \in DOMAIN entries[n].parts} : n \in DOMAIN entries}]

\* One add of a writer and the writeTo behind it; the slot it returns is the
\* entry's position.  A refused add throws and leaves no trace.
AddEntry(kind, entry) ==
    /\ Len(pending[kind]) < MaxEntries
    /\ tables[kind] = Written(kind, pending[kind])
    /\ Writable(kind, entry)
    /\ pending' = [pending EXCEPT ![kind] = Append(@, entry)]
    /\ tables' = [tables EXCEPT ![kind] = Written(kind, pending'[kind])]
    /\ UNCHANGED plan

Becomes(kind, table) == tables' = [tables EXCEPT ![kind] = table]

\* Damage to one table, in one field or one part.
ChangeTable(kind) ==
    LET table == tables[kind]
    IN  /\ plan.isDamaged
        /\ pending[kind] # <<>>
        /\ table = Written(kind, pending[kind])
        /\ \/ Becomes(kind, [table EXCEPT !.reservedFlags = 1])
           \/ \E n \in (0 .. table.count - 1) \cup {Modulus \div 2} :
                Becomes(kind, [table EXCEPT !.count = n])
           \/ \E n \in DOMAIN table.directory, field \in DOMAIN FieldValues[kind] :
                \E v \in FieldValues[kind][field] :
                    Becomes(kind, [table EXCEPT !.directory[n].fields[field] = v])
           \/ \E n \in DOMAIN table.directory, v \in {0, 4, table.byteSize, Modulus - 8} :
                /\ kind \in RegionKinds
                /\ Becomes(kind, [table EXCEPT !.directory[n].byteOffset = v])
           \/ \E p \in table.placed : \E field \in DOMAIN PartValues[kind] \cap DOMAIN p.part :
                \E v \in PartValues[kind][field] :
                    Becomes(kind, [table EXCEPT !.placed =
                                        (@ \ {p}) \cup {[p EXCEPT !.part[field] = v]}])
        /\ UNCHANGED <<plan, pending>>

InitTables ==
    /\ plan \in Plans
    /\ pending = [kind \in Kinds |-> <<>>]
    /\ tables = [kind \in Kinds |-> Written(kind, <<>>)]

-----------------------------------------------------------------------------
(* What a validator accepts, and what a view decodes.                      *)

\* Where the view looks for a part, by the counts of the directory record.
PartOffset(kind, record, i) ==
    record.byteOffset +
        IF kind # "BarrierBatch" \/ IsGlobal(record.fields, i) THEN 32 * (i - 1)
        ELSE LET f == record.fields
             IN  IF IsBuffer(f, i)
                 THEN 32 * f.globalCount + 56 * (i - 1 - f.globalCount)
                 ELSE 32 * f.globalCount + 56 * f.bufferCount
                        + 64 * (i - 1 - f.globalCount - f.bufferCount)

PartCount(kind, f) ==
    CASE kind = "ShaderModule" -> 1
      [] kind = "RenderingTemplate" -> f.colorCount + f.depthPresent
      [] kind = "BarrierBatch" -> f.globalCount + f.bufferCount + f.imageCount

RegionByteSize(kind, f) ==
    CASE kind = "ShaderModule" -> f.byteSize
      [] kind = "RenderingTemplate" -> 32 * (f.colorCount + f.depthPresent)
      [] kind = "BarrierBatch" ->
            32 * f.globalCount + 56 * f.bufferCount + 64 * f.imageCount

\* A part that was placed where the view looks; elsewhere, behind a damaged
\* count, its fields are whatever words lie there.
PartAt(table, fields, byteOffset) ==
    LET there == {p \in table.placed : p.byteOffset = byteOffset /\ DOMAIN p.part = fields}
    IN  IF there = {} THEN [field \in fields |-> Stray[field]]
        ELSE (CHOOSE p \in there : TRUE).part

Decoded(kind, table, n) ==
    LET record == table.directory[n]
    IN  [fields |-> record.fields,
         parts |-> IF kind \notin RegionKinds THEN <<>> ELSE
                   [i \in 1 .. PartCount(kind, record.fields) |->
                        PartAt(table, PartFields(kind, record.fields, i),
                               PartOffset(kind, record, i))]]

\* The first of some <<condition, error>> pairs whose condition holds.
FirstOf(tests) ==
    LET failing == {n \in DOMAIN tests : tests[n][1]}
    IN  IF failing = {} THEN "none"
        ELSE tests[CHOOSE n \in failing : \A m \in failing : n <= m][2]

BufferError(f) ==
    FirstOf(<<
        <<f.reservedFlags # 0, "NonZeroReservedFlags">>,
        <<f.usageFlags > 255, "UnknownUsageFlags">>,
        <<f.memoryKind > 3, "UnknownMemoryKind">>,
        <<f.importIdentifier = 0 /\ (f.byteSize = 0 \/ f.usageFlags = 0 \/ f.memoryKind = 0),
          "InvalidCreatedBufferDescription">>,
        <<f.importIdentifier # 0 /\ f.memoryKind # 0, "InvalidImportedBufferDescription">> >>)

ImageError(f) ==
    FirstOf(<<
        <<f.imageKind \notin 1 .. 3, "UnknownImageKind">>,
        <<f.format \notin 1 .. 6, "UnknownImageFormat">>,
        <<f.sampleCount \notin {1, 2, 4, 8}, "UnknownSampleCount">>,
        <<\/ 0 \in {f.width, f.height, f.depth, f.mipLevelCount, f.arrayLayerCount}
          \/ f.imageKind = 3 /\ f.arrayLayerCount # 1, "InvalidImageDimensions">>,
        <<f.usageFlags > 63, "UnknownUsageFlags">>,
        <<f.importIdentifier = 0 /\ f.usageFlags = 0, "InvalidCreatedImageDescription">> >>)

\* A validator for which a view may have any number of layers.
ImageViewErrorOfLayered(f) ==
    FirstOf(<<
        <<f.imageViewKind \notin 1 .. 3, "UnknownImageViewKind">>,
        <<f.format \notin 1 .. 6, "UnknownImageFormat">>,
        <<f.aspectMask \notin 1 .. 7, "UnusableImageAspectMask">>,
        <<\/ f.mipLevelCount \in {0, Modulus - 1}
          \/ f.imageViewKind = 3 /\ f.baseArrayLayer # 0,
          "InvalidImageViewSubresourceCounts">> >>)

ImageViewError(f) ==
    FirstOf(<<
        <<f.imageViewKind \notin 1 .. 3, "UnknownImageViewKind">>,
        <<f.format \notin 1 .. 6, "UnknownImageFormat">>,
        <<f.aspectMask \notin 1 .. 7, "UnusableImageAspectMask">>,
        <<\/ f.mipLevelCount \in {0, Modulus - 1}
          \/ f.arrayLayerCount # 1
          \/ f.imageViewKind = 3 /\ f.baseArrayLayer # 0,
          "InvalidImageViewSubresourceCounts">> >>)

PipelineError(f) ==
    FirstOf(<<
        <<f.reservedFlags # 0, "NonZeroReservedFlags">>,
        <<f.pipelineKind # 1, "UnknownPipelineKind">>,
        <<f.pushConstantByteSize \notin PushConstantByteSizes,
          "InvalidPushConstantByteSize">> >>)

GraphicsPipelineError(f) ==
    FirstOf(<<
        <<f.reservedFlags # 0, "NonZeroRecordReservedFlags">>,
        <<f.topology \notin 1 .. 5, "UnknownTopology">>,
        <<f.cullMode \notin 1 .. 4, "UnknownCullMode">>,
        <<f.frontFace \notin 1 .. 2, "UnknownFrontFace">>,
        <<f.pushConstantByteSize \notin PushConstantByteSizes, "InvalidPushConstantByteSize">>,
        <<f.colorCount > 8, "TooManyColorAttachments">>,
        <<f.colorCount = 0 /\ f.depthFormat = 0, "EmptyAttachmentSet">>,
        <<f.colorCount > 1 \/ (f.colorCount = 1 /\ f.colorFormat \notin ColorFormats),
          "UnknownColorAttachmentFormat">>,
        <<f.colorCount = 0 /\ f.colorFormat # 0, "NonZeroUnusedColorFormat">>,
        <<f.depthFormat \notin DepthFormats \cup {0}, "InvalidDepthAttachmentFormat">>,
        <<f.depthTest > 1 \/ f.depthWrite > 1, "InvalidDepthEnableFlag">>,
        <<f.depthWrite = 1 /\ f.depthTest = 0, "DepthWriteWithoutDepthTest">>,
        <<f.depthTest = 1 /\ f.depthFormat = 0, "DepthStateWithoutDepthAttachment">>,
        <<f.depthTest = 1 /\ f.depthCompare \notin 1 .. 8, "UnknownDepthCompareOperation">>,
        <<f.depthTest = 0 /\ f.depthCompare # 0,
          "NonZeroDisabledDepthCompareOperation">> >>)

RegionMisplaced(kind, table, record) ==
    \/ record.byteOffset < DirectoryEnd(kind, table.count)
    \/ record.byteOffset > table.byteSize
    \/ RegionByteSize(kind, record.fields) > table.byteSize - record.byteOffset

ShaderModuleError(table, n) ==
    LET record == table.directory[n]
    IN  FirstOf(<<
            <<record.byteOffset % 8 # 0, "MisalignedShaderBlob">>,
            <<RegionMisplaced("ShaderModule", table, record), "ShaderBlobOutOfBounds">>,
            <<record.fields.byteSize < 20 \/ record.fields.byteSize % 4 # 0,
              "InvalidShaderBlobByteSize">> >>)

ShaderMagicError(table, n) ==
    IF Decoded("ShaderModule", table, n).parts[1].isSpirv # 1
    THEN "InvalidShaderBlobMagic" ELSE "none"

RenderingTemplateError(table, n) ==
    LET record == table.directory[n]
        f == record.fields
    IN  FirstOf(<<
            <<f.depthPresent > 1, "InvalidDepthAttachmentFlag">>,
            <<f.colorCount + f.depthPresent = 0, "EmptyAttachmentSet">>,
            <<f.width = 0 \/ f.height = 0, "EmptyRenderArea">>,
            <<f.layerCount = 0, "ZeroLayerCount">>,
            <<record.byteOffset % 8 # 0, "MisalignedAttachmentRegion">>,
            <<RegionMisplaced("RenderingTemplate", table, record),
              "AttachmentRegionOutOfBounds">> >>)

AttachmentError(part) ==
    FirstOf(<<
        <<part.layout > 7, "UnknownAttachmentLayout">>,
        <<part.loadOp > 2, "UnknownAttachmentLoadOp">>,
        <<part.storeOp > 1, "UnknownAttachmentStoreOp">> >>)

BarrierBatchError(table, n) ==
    LET record == table.directory[n]
    IN  FirstOf(<<
            <<record.fields.reservedFlags # 0, "NonZeroReservedFlags">>,
            <<record.byteOffset % 8 # 0, "MisalignedBarrierRegion">>,
            <<RegionMisplaced("BarrierBatch", table, record), "BarrierRegionOutOfBounds">> >>)

BarrierError(f, i, part) ==
    FirstOf(<<
        <<IsBuffer(f, i) /\ part.reservedFlags # 0, "NonZeroReservedFlags">>,
        <<~StagesGiven(part), "ZeroStageMask">>,
        <<IsImage(f, i) /\ (part.oldLayout > 7 \/ part.newLayout > 7),
          "UnknownImageLayout">>,
        <<IsImage(f, i) /\ part.aspectMask \notin 1 .. 7, "UnusableImageAspectMask">>,
        <<IsImage(f, i) /\ (part.mipCount = 0 \/ part.layerCount = 0),
          "EmptyImageSubresourceRange">> >>)

FirstError(errors) == FirstOf([n \in DOMAIN errors |-> <<errors[n] # "none", errors[n]>>])

\* One entry of a table, its parts behind it.
EntryError(kind, table, n) ==
    LET f == table.directory[n].fields
        placement == CASE kind = "ShaderModule" -> ShaderModuleError(table, n)
                       [] kind = "RenderingTemplate" -> RenderingTemplateError(table, n)
                       [] kind = "BarrierBatch" -> BarrierBatchError(table, n)
        parts == Decoded(kind, table, n).parts
    IN  CASE kind = "Buffer" -> BufferError(f)
          [] kind = "Image" -> ImageError(f)
          [] kind = "ImageView" -> ImageViewError(f)
          [] kind = "Pipeline" -> PipelineError(f)
          [] kind = "GraphicsPipeline" -> GraphicsPipelineError(f)
          [] OTHER ->
                IF placement # "none" THEN placement
                ELSE CASE kind = "ShaderModule" -> ShaderMagicError(table, n)
                       [] kind = "RenderingTemplate" ->
                            FirstError([i \in DOMAIN parts |-> AttachmentError(parts[i])])
                       [] kind = "BarrierBatch" ->
                            FirstError([i \in DOMAIN parts |-> BarrierError(f, i, parts[i])])

\* The directory does not fit the table, or, without regions, fill it.
DirectoryMisplaced(kind, table) ==
    IF kind \in RegionKinds
    THEN DirectoryEnd(kind, table.count) > table.byteSize
    ELSE DirectoryEnd(kind, table.count) # table.byteSize

\* The validators of the eight tables; the caller aligns the base address, and
\* no table is shorter than its header.
TableError(kind, table) ==
    IF table.reservedFlags # 0 THEN "NonZeroReservedFlags"
    ELSE IF DirectoryMisplaced(kind, table)
    THEN IF kind \in {"RenderingTemplate", "BarrierBatch"}
         THEN "DirectoryOutOfBounds" ELSE "TableSizeMismatch"
    ELSE FirstError([n \in 1 .. table.count |-> EntryError(kind, table, n)])

-----------------------------------------------------------------------------
(* Properties of the two sides together.                                   *)

\* Barriers the writer takes and the validator does not.
UnknownToValidator(kind, entry) ==
    /\ kind = "BarrierBatch"
    /\ \E i \in DOMAIN entry.parts :
        /\ IsImage(entry.fields, i)
        /\ \/ entry.parts[i].oldLayout > 7
           \/ entry.parts[i].newLayout > 7
           \/ entry.parts[i].aspectMask \notin 1 .. 7

\* Every table its writer emits is accepted, and each slot decodes to the entry
\* whose add returned that slot, parts and all; an image barrier with a layout
\* or an aspect mask of its own invention is the one thing the writers let
\* through.  (the table writers' writeTo, the validators and the views)
WrittenTablesAreAccepted ==
    \A kind \in Kinds :
        LET table == tables[kind]
            entries == pending[kind]
        IN  /\ table = Written(kind, entries)
            /\ \A n \in DOMAIN entries : ~UnknownToValidator(kind, entries[n])
            => /\ TableError(kind, table) = "none"
               /\ \A n \in DOMAIN entries : Decoded(kind, table, n) = entries[n]

HasNegative(record) == \E field \in DOMAIN record : Negative(record[field])

\* Whatever happened to a table, an accepted one has its regions behind the
\* directory and inside the table, and every slot holds an entry that the writer
\* would have taken, but for two: fields that Java reads as negative, and a size
\* or usage given to an imported buffer (which nobody reads).
\* (the validators of the eight tables against the argument checks in Java)
AcceptedTablesCouldBeWritten ==
    \A kind \in Kinds :
        LET table == tables[kind]
        IN  TableError(kind, table) = "none" =>
            \A n \in 1 .. table.count :
                LET entry == Decoded(kind, table, n)
                    record == table.directory[n]
                IN  /\ kind \in RegionKinds =>
                        /\ record.byteOffset >= DirectoryEnd(kind, table.count)
                        /\ record.byteOffset + RegionByteSize(kind, record.fields)
                            <= table.byteSize
                    /\ \/ Writable(kind, entry)
                       \/ HasNegative(entry.fields)
                       \/ \E i \in DOMAIN entry.parts : HasNegative(entry.parts[i])
                       \/ kind = "Buffer" /\ entry.fields.importIdentifier # 0
=============================================================================
