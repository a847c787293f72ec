---------------------------- MODULE ResourceTables ----------------------------
(***************************************************************************)
(* Materialisation: the load path turns the tables of a module into Vulkan *)
(* objects, a VulkanBufferTable, VulkanImageTable, VulkanImageViewTable,   *)
(* VulkanPipelineTable and VulkanGraphicsPipelineTable.  A createFromTable *)
(* walks the slots and makes one Vulkan call after the other, each of      *)
(* which can fail (so can the choice of a memory type, taken as part of    *)
(* the allocation); the partial table's destructor then undoes the rest.   *)
(*                                                                         *)
(* An object is named by the table, the slot and the member it is kept in. *)
(* live is what the driver has, held is what the tables know of: only the  *)
(* second tells a destructor what to destroy.                              *)
(***************************************************************************)
EXTENDS CommandStreamTables

VARIABLES
    creating,       \* the createFromTable that is running, if any
    slots,          \* the slots of each table, partial ones included
    exists,         \* the finished tables
    callerHolds,    \* the caller's shared_ptr to the image table
    live,           \* the objects created and not destroyed
    scratch         \* the shader modules in local variables

resourceVars == <<creating, slots, exists, callerHolds, live, scratch>>

ResourceKinds == {"Buffer", "Image", "ImageView", "Pipeline", "GraphicsPipeline"}
PipelineKinds == {"Pipeline", "GraphicsPipeline"}

Idle == [kind |-> "none", slot |-> 0, done |-> 0]

Object(kind, slot, name) == [kind |-> kind, slot |-> slot, name |-> name]

Imported(kind, fields) == kind \in {"Buffer", "Image"} /\ fields.importIdentifier # 0

\* HostVisiblePersistentMapped and HostVisibleReadback memory is mapped.
HostVisibleKinds == {2, 3}

\* The Vulkan calls for one slot, in their order.
Steps(kind, fields) ==
    CASE kind = "Buffer" /\ fields.memoryKind \in HostVisibleKinds
            -> <<"buffer", "memory", "bind", "mapping">>
      [] kind = "Buffer" /\ fields.memoryKind \notin HostVisibleKinds
            -> <<"buffer", "memory", "bind">>
      [] kind = "Image" -> <<"image", "memory", "bind">>
      [] kind = "ImageView" -> <<"view">>
      [] kind = "Pipeline" -> <<"module", "layout", "pipeline">>
      [] kind = "GraphicsPipeline" ->
            <<"vertexModule", "fragmentModule", "layout", "pipeline">>

ShaderModules == {"module", "vertexModule", "fragmentModule"}

NewSlot(fields) == [fields |-> fields, handles |-> {}, isBound |-> FALSE]

Fields(kind, slot) == tables[kind].directory[slot].fields

Held(kind) ==
    UNION {{Object(kind, n, name) : name \in slots[kind][n].handles} :
            n \in DOMAIN slots[kind]}

\* What a creation has to show for it at the end of a slot.
CurrentSteps == Steps(creating.kind, Fields(creating.kind, creating.slot))

-----------------------------------------------------------------------------
(* The check of all views against their images, before the first call.     *)

FormatAspects(format) ==
    CASE format \in ColorFormats -> {1} [] format = 5 -> {2} [] format = 6 -> {2, 4, 6}

\* Sampled, Storage, ColorAttachment, DepthStencilAttachment: all but the two
\* lowest bits.
UsageAllowsViews(usageFlags) == usageFlags >= 4

IsRangeWithinLimit(base, count, limit) == base < limit /\ count <= limit - base

ViewError(view) ==
    LET image == slots["Image"][view.imageSlot + 1].fields
    IN  IF view.imageSlot >= Len(slots["Image"]) THEN "SourceImageSlotOutOfRange" ELSE
        FirstOf(<<
            <<~slots["Image"][view.imageSlot + 1].isBound, "SourceImageSlotUnbound">>,
            <<view.format # image.format, "SourceImageFormatMismatch">>,
            <<view.aspectMask \notin FormatAspects(image.format), "SourceImageAspectMismatch">>,
            <<view.imageViewKind # image.imageKind, "SourceImageKindMismatch">>,
            <<\/ ~IsRangeWithinLimit(view.baseMipLevel, view.mipLevelCount, image.mipLevelCount)
              \/ ~IsRangeWithinLimit(view.baseArrayLayer, view.arrayLayerCount,
                                     image.arrayLayerCount),
              "SourceImageSubresourceRangeOutOfBounds">>,
            <<~UsageAllowsViews(image.usageFlags),
              "SourceImageUsageDoesNotSupportImageViews">> >>)

PreflightError ==
    FirstError([n \in 1 .. tables["ImageView"].count |-> ViewError(Fields("ImageView", n))])

\* A slot is out of range: the check each pipeline makes before its first call.
ShaderSlotOutOfRange(kind, fields) ==
    LET shaderCount == tables["ShaderModule"].count
    IN  IF kind = "Pipeline" THEN fields.shaderModuleSlot >= shaderCount
        ELSE \/ fields.vertexShaderModuleSlot >= shaderCount
             \/ fields.fragmentShaderModuleSlot >= shaderCount

-----------------------------------------------------------------------------
(* The image table is shared: the caller and the view table, also a partial *)
(* one, each hold a pointer, and the last one to go destroys the images.   *)

\* An image table that its caller destroys.
ImagesGoWithCaller(held, viewsRemain) == ~held

ImagesGo(held, viewsRemain) == ~held /\ ~viewsRemain

\* The destructor of a table takes what the table holds.
Destroyed(kinds) == UNION {Held(kind) : kind \in kinds}

Emptied(kinds) == [kind \in ResourceKinds |-> IF kind \in kinds THEN <<>> ELSE slots[kind]]

Remaining(kinds) == [kind \in ResourceKinds |-> exists[kind] /\ kind \notin kinds]

BeginCreate(kind) ==
    /\ creating = Idle
    /\ kind # "ImageView"
    /\ ~exists[kind]
    /\ TableError(kind, tables[kind]) = "none"
    /\ kind \in PipelineKinds => TableError("ShaderModule", tables["ShaderModule"]) = "none"
    /\ creating' = [kind |-> kind, slot |-> 1, done |-> 0]
    /\ UNCHANGED <<slots, exists, callerHolds, live, scratch>>

\* The caller passes a copy of its pointer, or its only one.  A view that does
\* not fit its image ends the creation and drops the pointer it was given.
BeginCreateViews(keeps) ==
    LET kinds == IF ImagesGo(keeps, FALSE) THEN {"Image"} ELSE {}
    IN  /\ creating = Idle
        /\ callerHolds
        /\ ~exists["ImageView"]
        /\ TableError("ImageView", tables["ImageView"]) = "none"
        /\ callerHolds' = keeps
        /\ \/ /\ PreflightError = "none"
              /\ creating' = [kind |-> "ImageView", slot |-> 1, done |-> 0]
              /\ UNCHANGED <<slots, exists, live>>
           \/ /\ PreflightError # "none"
              /\ live' = live \ Destroyed(kinds)
              /\ slots' = Emptied(kinds)
              /\ exists' = Remaining(kinds)
              /\ UNCHANGED creating
        /\ UNCHANGED scratch

InSlot ==
    /\ creating # Idle
    /\ creating.slot <= tables[creating.kind].count

\* An imported slot is a placeholder without objects.
SkipImported ==
    /\ InSlot
    /\ Imported(creating.kind, Fields(creating.kind, creating.slot))
    /\ slots' = [slots EXCEPT ![creating.kind] =
                    Append(@, NewSlot(Fields(creating.kind, creating.slot)))]
    /\ creating' = [creating EXCEPT !.slot = @ + 1]
    /\ UNCHANGED <<exists, callerHolds, live, scratch>>

\* The next call of the slot can be made.
MayCall ==
    LET fields == Fields(creating.kind, creating.slot)
    IN  /\ InSlot
        /\ ~Imported(creating.kind, fields)
        /\ creating.kind \in PipelineKinds /\ creating.done = 0
            => ~ShaderSlotOutOfRange(creating.kind, fields)

\* A slot joins the table with its first handle.
WithCall(table, slot, fields, names, isLast) ==
    LET grown == IF slot <= Len(table) THEN table ELSE Append(table, NewSlot(fields))
    IN  [grown EXCEPT ![slot].handles = @ \cup names, ![slot].isBound = isLast]

\* bind is a call that leaves no object behind, and the last call of a slot binds
\* it.  The call that consumes the shader modules is followed by their destruction.
CallSucceeds ==
    /\ MayCall
    /\ LET kind == creating.kind
           slot == creating.slot
           name == CurrentSteps[creating.done + 1]
           isLast == creating.done + 1 = Len(CurrentSteps)
           names == IF name = "bind" THEN {} ELSE {name}
           objects == {Object(kind, slot, n) : n \in names}
       IN  /\ IF name \in ShaderModules
              THEN /\ scratch' = scratch \cup objects
                   /\ live' = live \cup objects
                   /\ UNCHANGED slots
              ELSE /\ scratch' = IF isLast THEN {} ELSE scratch
                   /\ live' = (live \ IF isLast THEN scratch ELSE {}) \cup objects
                   /\ slots' = [slots EXCEPT ![kind] =
                                    WithCall(@, slot, Fields(kind, slot), names, isLast)]
           /\ creating' = IF isLast
                THEN [creating EXCEPT !.slot = @ + 1, !.done = 0]
                ELSE [creating EXCEPT !.done = @ + 1]
    /\ UNCHANGED <<exists, callerHolds>>

\* A failing call that leaves the shader modules to the table's destructor.
NoScratchDestroyed == {}

\* The shader modules that a failing call destroys on its way out.
ScratchDestroyed == scratch

\* A call fails, or a pipeline names a shader that is not there.  The partial
\* table goes, and with it a view table's hold on the images.
CreateFails ==
    LET kind == creating.kind
        kinds == {kind} \cup
                 IF kind = "ImageView" /\ ImagesGo(callerHolds, FALSE) THEN {"Image"} ELSE {}
    IN  /\ InSlot
        /\ ~Imported(kind, Fields(kind, creating.slot))
        /\ live' = live \ (ScratchDestroyed \cup Destroyed(kinds))
        /\ scratch' = {}
        /\ slots' = Emptied(kinds)
        /\ exists' = Remaining(kinds)
        /\ creating' = Idle
        /\ UNCHANGED callerHolds

\* The partial table is moved into the result, which leaves nothing to destroy.
FinishCreate ==
    /\ creating # Idle
    /\ creating.slot > tables[creating.kind].count
    /\ exists' = [exists EXCEPT ![creating.kind] = TRUE]
    /\ callerHolds' = (callerHolds \/ creating.kind = "Image")
    /\ creating' = Idle
    /\ UNCHANGED <<slots, live, scratch>>

\* The caller lets go of a table.
Release(kind) ==
    LET viewsRemain == exists["ImageView"] /\ kind # "ImageView"
        holds == callerHolds /\ kind # "Image"
        kinds == (IF kind = "Image" THEN {} ELSE {kind})
                    \cup IF ImagesGo(holds, viewsRemain) THEN {"Image"} ELSE {}
    IN  /\ creating = Idle
        /\ IF kind = "Image" THEN callerHolds ELSE exists[kind]
        /\ callerHolds' = holds
        /\ live' = live \ Destroyed(kinds)
        /\ slots' = Emptied(kinds)
        /\ exists' = Remaining(kinds)
        /\ UNCHANGED <<creating, scratch>>

-----------------------------------------------------------------------------

Init ==
    /\ InitTables
    /\ creating = Idle
    /\ slots = [kind \in ResourceKinds |-> <<>>]
    /\ exists = [kind \in ResourceKinds |-> FALSE]
    /\ callerHolds = FALSE
    /\ live = {}
    /\ scratch = {}

\* Tables are written, and damaged, before anything is made of them.
Author ==
    /\ creating = Idle /\ \A kind \in ResourceKinds : ~exists[kind]
    /\ \/ \E kind \in DOMAIN plan.offered : \E entry \in plan.offered[kind] :
            AddEntry(kind, entry)
       \/ \E kind \in Kinds : ChangeTable(kind)
    /\ UNCHANGED resourceVars

\* Bound: damaged tables are validated and not materialised.
Materialise ==
    /\ ~plan.isDamaged
    /\ \/ \E kind \in DOMAIN plan.offered \cap ResourceKinds : BeginCreate(kind)
       \/ \E keeps \in BOOLEAN : BeginCreateViews(keeps)
       \/ SkipImported
       \/ CallSucceeds
       \/ CreateFails
       \/ FinishCreate
       \/ \E kind \in ResourceKinds : Release(kind)
    /\ UNCHANGED tableVars

Next == Author \/ Materialise

Spec == Init /\ [][Next]_<<tableVars, resourceVars>>

-----------------------------------------------------------------------------
(* Properties.                                                             *)

\* Whatever call fails, and whoever lets go first, the driver has exactly the
\* objects that some table holds, or the creation that is running in its local
\* variables: nothing is leaked and nothing destroyed under a table's feet.
\* (the five createFromTable and their destructors)
NothingLeaks ==
    /\ live = (UNION {Held(kind) : kind \in ResourceKinds}) \cup scratch
    /\ \A kind \in ResourceKinds :
        slots[kind] # <<>> => exists[kind] \/ creating.kind = kind
    /\ scratch # {} => creating.kind \in PipelineKinds

\* A view never outlives the image it was made from, and that image has the
\* format and the levels and layers the view spans.
\* (VulkanImageViewTable::createFromTable, its shared ownership of the images)
ViewsOfLiveImages ==
    \A object \in live :
        object.name = "view" =>
            LET view == slots["ImageView"][object.slot].fields
                image == slots["Image"][view.imageSlot + 1].fields
            IN  /\ view.imageSlot < Len(slots["Image"])
                /\ {Object("Image", view.imageSlot + 1, "image"),
                    Object("Image", view.imageSlot + 1, "memory")} \subseteq live
                /\ view.format = image.format
                /\ view.baseMipLevel + view.mipLevelCount <= image.mipLevelCount
                /\ view.baseArrayLayer + view.arrayLayerCount <= image.arrayLayerCount
=============================================================================
