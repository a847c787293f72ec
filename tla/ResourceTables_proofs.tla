------------------------- MODULE ResourceTables_proofs -------------------------
(***************************************************************************)
(* That nothing leaks and that views have their images, for any tables,    *)
(* any number of slots and any call that fails.                            *)
(***************************************************************************)
EXTENDS ResourceTables, CommandStreamTables_proofs

-----------------------------------------------------------------------------
(* The inductive invariant.                                                *)

Names == {"buffer", "memory", "bind", "mapping", "image", "view", "module", "layout",
          "pipeline", "vertexModule", "fragmentModule"}

Offered(kind) == IF kind \in DOMAIN plan.offered THEN plan.offered[kind] ELSE {}

SlotsOf(kind) ==
    [fields : [EntryFields[kind] -> Word],
     handles : SUBSET (Names \ ShaderModules), isBound : BOOLEAN]

\* Undamaged tables hold what their writers took.
TablesWritten ==
    /\ plan \in Plans
    /\ pending = [kind \in Kinds |-> pending[kind]]
    /\ \A kind \in Kinds : pending[kind] \in Seq(Offered(kind))
    /\ ~plan.isDamaged => tables = [kind \in Kinds |-> Written(kind, pending[kind])]

ResourceTypeOK ==
    /\ creating = Idle \/ creating \in [kind : ResourceKinds, slot : Nat \ {0}, done : Nat]
    /\ slots = [kind \in ResourceKinds |-> slots[kind]]
    /\ \A kind \in ResourceKinds : slots[kind] \in Seq(SlotsOf(kind))
    /\ exists \in [ResourceKinds -> BOOLEAN]
    /\ callerHolds \in BOOLEAN
    /\ \A object \in scratch : object.name \in ShaderModules

\* A call that was made is a call of the current slot, which joins its table with
\* the first handle.
SlotInProgress ==
    creating # Idle =>
        /\ ~exists[creating.kind]
        /\ creating.done = 0 => Len(slots[creating.kind]) = creating.slot - 1
        /\ creating.done # 0 =>
            /\ Len(slots[creating.kind]) \in {creating.slot - 1, creating.slot}
            /\ creating.slot <= tables[creating.kind].count
            /\ creating.done < Len(CurrentSteps)
            /\ ~Imported(creating.kind, Fields(creating.kind, creating.slot))

DamagedIsNotMaterialised ==
    plan.isDamaged =>
        /\ creating = Idle /\ live = {} /\ scratch = {} /\ ~callerHolds
        /\ \A kind \in ResourceKinds : ~exists[kind] /\ slots[kind] = <<>>

ScratchOfCurrentSlot ==
    scratch # {} => creating.kind \in PipelineKinds /\ creating.done # 0

\* What the calls for an image have left so far, and a bound image has.
ImageHandles ==
    /\ \A n \in DOMAIN slots["Image"] :
        slots["Image"][n].isBound => {"image", "memory"} \subseteq slots["Image"][n].handles
    /\ creating.kind = "Image" =>
        /\ creating.done \in 0 .. 2
        /\ creating.done # 0 =>
            /\ Len(slots["Image"]) = creating.slot
            /\ "image" \in slots["Image"][creating.slot].handles
            /\ creating.done = 2 => "memory" \in slots["Image"][creating.slot].handles

OnlyViewsAreViews ==
    \A kind \in ResourceKinds \ {"ImageView"} : \A n \in DOMAIN slots[kind] :
        "view" \notin slots[kind][n].handles

\* Whoever has views has their images.
ViewsHoldImages ==
    /\ callerHolds => exists["Image"]
    /\ creating.kind = "ImageView" => exists["Image"]
    /\ slots["ImageView"] # <<>> => exists["Image"]

ViewsFit ==
    /\ creating.kind = "ImageView" =>
        \A n \in 1 .. tables["ImageView"].count : ViewError(Fields("ImageView", n)) = "none"
    /\ \A n \in DOMAIN slots["ImageView"] :
        ViewError(slots["ImageView"][n].fields) = "none"

ResourceInv ==
    /\ TablesWritten
    /\ ResourceTypeOK
    /\ DamagedIsNotMaterialised
    /\ SlotInProgress
    /\ ScratchOfCurrentSlot
    /\ NothingLeaks
    /\ ImageHandles
    /\ OnlyViewsAreViews
    /\ ViewsHoldImages
    /\ ViewsFit

-----------------------------------------------------------------------------
(* Lemmas about the operators of the model.                                *)

LEMMA ResourceKindsAreKinds == ResourceKinds \subseteq Kinds
BY DEF ResourceKinds, Kinds, EntryByteSize

\* The calls for a slot end with one that makes no shader module; only pipelines
\* have shader modules, and only views are views.
LEMMA StepsFacts ==
    ASSUME NEW kind \in ResourceKinds, NEW fields
    PROVE  /\ Steps(kind, fields) \in Seq(Names)
           /\ Len(Steps(kind, fields)) \in Nat \ {0}
           /\ Steps(kind, fields)[Len(Steps(kind, fields))] \notin ShaderModules
           /\ \A i \in 1 .. Len(Steps(kind, fields)) :
                /\ Steps(kind, fields)[i] \in ShaderModules => kind \in PipelineKinds
                /\ Steps(kind, fields)[i] = "view" => kind = "ImageView"
           /\ kind = "Image" => Steps(kind, fields) = <<"image", "memory", "bind">>
<1>1. CASE kind = "Buffer" /\ fields.memoryKind \in HostVisibleKinds
  <2>1. Steps(kind, fields) = <<"buffer", "memory", "bind", "mapping">>
    BY <1>1 DEF Steps
  <2>2. <<"buffer", "memory", "bind", "mapping">> \in Seq(Names)
    BY DEF Names
  <2>3. \A i \in 1 .. 4 :
            /\ <<"buffer", "memory", "bind", "mapping">>[i] \notin ShaderModules
            /\ <<"buffer", "memory", "bind", "mapping">>[i] # "view"
    BY DEF ShaderModules
  <2> DEFINE steps == <<"buffer", "memory", "bind", "mapping">>
  <2>4. Len(steps) = 4
    OBVIOUS
  <2>5. steps[4] \notin ShaderModules
    BY <2>3
  <2> HIDE DEF steps
  <2>6. Steps(kind, fields) = steps /\ steps \in Seq(Names)
    BY <2>1, <2>2 DEF steps
  <2>7. \A i \in 1 .. 4 : steps[i] \notin ShaderModules /\ steps[i] # "view"
    BY <2>3 DEF steps
  <2>8. kind # "Image"
    BY <1>1
  <2>9. /\ Len(steps) \in Nat \ {0} /\ steps[Len(steps)] \notin ShaderModules
        /\ \A i \in 1 .. Len(steps) : steps[i] \notin ShaderModules /\ steps[i] # "view"
    BY <2>4, <2>5, <2>7
  <2> QED BY <2>6, <2>8, <2>9
<1>2. CASE kind = "Buffer" /\ fields.memoryKind \notin HostVisibleKinds
  BY <1>2 DEF Steps, Names, ShaderModules, PipelineKinds
<1>3. CASE kind = "Image"
  BY <1>3 DEF Steps, Names, ShaderModules, PipelineKinds
<1>4. CASE kind = "ImageView"
  BY <1>4 DEF Steps, Names, ShaderModules, PipelineKinds
<1>5. CASE kind = "Pipeline"
  BY <1>5 DEF Steps, Names, ShaderModules, PipelineKinds
<1>6. CASE kind = "GraphicsPipeline"
  BY <1>6 DEF Steps, Names, ShaderModules, PipelineKinds
<1> QED BY <1>1, <1>2, <1>3, <1>4, <1>5, <1>6 DEF ResourceKinds

\* What a table with these slots holds.
HeldBy(kind, table) ==
    UNION {{Object(kind, n, name) : name \in table[n].handles} : n \in DOMAIN table}

LEMMA HeldByItsTable == \A kind : Held(kind) = HeldBy(kind, slots[kind])
BY DEF Held, HeldBy

LEMMA HeldByMembers ==
    ASSUME NEW kind, NEW table, NEW object
    PROVE  object \in HeldBy(kind, table) <=>
                \E n \in DOMAIN table : \E name \in table[n].handles :
                    object = Object(kind, n, name)
BY DEF HeldBy

LEMMA EmptyHoldsNothing == \A kind : HeldBy(kind, <<>>) = {}
BY DEF HeldBy

\* A record of an undamaged table has the fields of its kind.
LEMMA FieldsOfWritten ==
    ASSUME TablesWritten, ~plan.isDamaged, NEW kind \in ResourceKinds
    PROVE  /\ tables[kind].count \in Nat
           /\ \A n \in 1 .. tables[kind].count : Fields(kind, n) \in [EntryFields[kind] -> Word]
<1>1. kind \in Kinds
  BY ResourceKindsAreKinds
<1>2. tables[kind] = Written(kind, pending[kind]) /\ pending[kind] \in Seq(Offered(kind))
  BY <1>1 DEF TablesWritten
<1>3. tables[kind].count = Len(pending[kind])
  BY <1>2 DEF Written
<1>4. ASSUME NEW n \in 1 .. tables[kind].count
      PROVE  Fields(kind, n) \in [EntryFields[kind] -> Word]
  <2>1. Fields(kind, n) = pending[kind][n].fields
    BY <1>2, <1>3 DEF Written, Fields
  <2>2. pending[kind][n] \in Offered(kind)
    BY <1>2, <1>3
  <2>3. plan \in Plans
    BY DEF TablesWritten
  <2> QED BY <2>1, <2>2, <2>3, PlansAssumption DEF Offered, IsEntry
<1> QED BY <1>2, <1>3, <1>4

\* Before the first call for a view every view fits its image.
LEMMA PreflightCoversViews ==
    ASSUME tables["ImageView"].count \in Nat, PreflightError = "none"
    PROVE  \A n \in 1 .. tables["ImageView"].count :
                ViewError(Fields("ImageView", n)) = "none"
<1> DEFINE k == tables["ImageView"].count
           errors == [n \in 1 .. k |-> ViewError(Fields("ImageView", n))]
<1>1. FirstError(errors) = "none"
  BY DEF PreflightError
<1>2. DOMAIN errors = 1 .. k
  OBVIOUS
<1> HIDE DEF errors
<1>3. \A n \in 1 .. k : errors[n] = "none"
  BY <1>1, <1>2, FirstErrorFails
<1> QED BY <1>3 DEF errors

\* A slot without objects changes nothing of what a table holds.
LEMMA PlaceholderHoldsNothing ==
    ASSUME NEW kind, NEW table \in Seq(SlotsOf(kind)),
           NEW fields \in [EntryFields[kind] -> Word]
    PROVE  LET after == Append(table, NewSlot(fields))
           IN  /\ after \in Seq(SlotsOf(kind))
               /\ Len(after) = Len(table) + 1
               /\ \A n \in 1 .. Len(table) : after[n] = table[n]
               /\ after[Len(after)] = NewSlot(fields)
               /\ HeldBy(kind, after) = HeldBy(kind, table)
<1> DEFINE after == Append(table, NewSlot(fields))
<1>1. NewSlot(fields) \in SlotsOf(kind)
  BY DEF NewSlot, SlotsOf
<1>2. /\ after \in Seq(SlotsOf(kind))
      /\ Len(after) = Len(table) + 1
      /\ \A n \in 1 .. Len(table) : after[n] = table[n]
      /\ after[Len(after)] = NewSlot(fields)
  BY <1>1
<1>3. NewSlot(fields).handles = {}
  BY DEF NewSlot
<1> HIDE DEF after
<1>4. HeldBy(kind, after) = HeldBy(kind, table)
  <2> SUFFICES ASSUME NEW object
               PROVE  object \in HeldBy(kind, after) <=> object \in HeldBy(kind, table)
    OBVIOUS
  <2>1. DOMAIN after = 1 .. Len(table) + 1 /\ DOMAIN table = 1 .. Len(table)
    BY <1>2
  <2>2. after[Len(table) + 1].handles = {}
    BY <1>2, <1>3
  <2>3. Len(table) \in Nat
    OBVIOUS
  <2> QED BY <1>2, <2>1, <2>2, <2>3, HeldByMembers
<1> QED BY <1>2, <1>4 DEF after

\* What a call that leaves handles in the current slot does to its table.
HandlesAdded(kind, table, slot, fields, names, bound) ==
    LET after == WithCall(table, slot, fields, names, bound)
    IN  /\ after \in Seq(SlotsOf(kind))
        /\ Len(after) = slot
        /\ \A n \in 1 .. slot - 1 : n \in DOMAIN table /\ after[n] = table[n]
        /\ after[slot].isBound = bound
        /\ names \subseteq after[slot].handles
        /\ Len(table) = slot =>
            /\ after[slot].fields = table[slot].fields
            /\ after[slot].handles = table[slot].handles \cup names
        /\ Len(table) = slot - 1 =>
            /\ after[slot].fields = fields
            /\ after[slot].handles = names
        /\ \A object :
            object \in HeldBy(kind, after) <=>
                \/ object \in HeldBy(kind, table)
                \/ \E name \in names : object = Object(kind, slot, name)

LEMMA CallAddsHandles ==
    ASSUME NEW kind, NEW table \in Seq(SlotsOf(kind)),
           NEW fields \in [EntryFields[kind] -> Word],
           NEW slot \in Nat \ {0}, Len(table) \in {slot - 1, slot},
           NEW names \in SUBSET (Names \ ShaderModules), NEW bound \in BOOLEAN
    PROVE  HandlesAdded(kind, table, slot, fields, names, bound)
<1> DEFINE grown == IF slot <= Len(table) THEN table ELSE Append(table, NewSlot(fields))
           after == WithCall(table, slot, fields, names, bound)
<1>0. after = [grown EXCEPT ![slot].handles = @ \cup names, ![slot].isBound = bound]
  BY DEF WithCall
<1> HIDE DEF after
<1>1. /\ grown \in Seq(SlotsOf(kind))
      /\ Len(grown) = slot
      /\ \A n \in 1 .. slot - 1 : n \in DOMAIN table /\ grown[n] = table[n]
      /\ Len(table) = slot => grown[slot] = table[slot]
      /\ Len(table) = slot - 1 => grown[slot] = NewSlot(fields)
  <2>1. CASE Len(table) = slot
    BY <2>1
  <2>2. CASE Len(table) = slot - 1
    <3>1. /\ Append(table, NewSlot(fields)) \in Seq(SlotsOf(kind))
          /\ Len(Append(table, NewSlot(fields))) = slot
          /\ \A n \in 1 .. Len(table) : Append(table, NewSlot(fields))[n] = table[n]
          /\ Append(table, NewSlot(fields))[slot] = NewSlot(fields)
      BY <2>2, PlaceholderHoldsNothing
    <3>2. grown = Append(table, NewSlot(fields))
      BY <2>2
    <3> QED BY <2>2, <3>1, <3>2
  <2> QED BY <2>1, <2>2
<1> HIDE DEF grown
<1>2. DOMAIN grown = 1 .. slot /\ grown[slot] \in SlotsOf(kind)
  BY <1>1
<1>3. /\ DOMAIN after = 1 .. slot
      /\ \A n \in 1 .. slot - 1 : after[n] = grown[n]
      /\ after[slot] = [grown[slot] EXCEPT !.handles = @ \cup names, !.isBound = bound]
  <2> DEFINE middle == [grown EXCEPT ![slot].handles = @ \cup names]
  <2>1. /\ DOMAIN middle = 1 .. slot
        /\ \A n \in 1 .. slot - 1 : middle[n] = grown[n]
        /\ middle[slot] = [grown[slot] EXCEPT !.handles = @ \cup names]
    <3>1. middle = [n \in 1 .. slot |->
                        IF n = slot THEN [grown[slot] EXCEPT !.handles = @ \cup names]
                        ELSE grown[n]]
      BY <1>2, Zenon
    <3> HIDE DEF middle
    <3> QED BY <3>1
  <2>2. after = [middle EXCEPT ![slot].isBound = bound]
    BY <1>0
  <2> HIDE DEF middle
  <2>3. /\ DOMAIN after = 1 .. slot
        /\ \A n \in 1 .. slot - 1 : after[n] = middle[n]
        /\ after[slot] = [middle[slot] EXCEPT !.isBound = bound]
    BY <2>1, <2>2
  <2> QED BY <2>1, <2>3
<1>4. /\ after[slot].fields = grown[slot].fields
      /\ after[slot].handles = grown[slot].handles \cup names
      /\ after[slot].isBound = bound
      /\ after[slot] \in SlotsOf(kind)
  <2>1. PICK f \in [EntryFields[kind] -> Word], h \in SUBSET (Names \ ShaderModules),
             b \in BOOLEAN : grown[slot] = [fields |-> f, handles |-> h, isBound |-> b]
    BY <1>2 DEF SlotsOf
  <2>2. after[slot] = [fields |-> f, handles |-> h \cup names, isBound |-> bound]
    <3>1. after[slot] = [[fields |-> f, handles |-> h, isBound |-> b]
                            EXCEPT !.handles = @ \cup names, !.isBound = bound]
      BY <1>3, <2>1
    <3> QED BY <3>1
  <2> QED BY <2>1, <2>2 DEF SlotsOf
<1>5. after \in Seq(SlotsOf(kind)) /\ Len(after) = slot
  <2>1. after = [n \in 1 .. slot |-> after[n]]
    BY <1>0, <1>2
  <2>2. \A n \in 1 .. slot : after[n] \in SlotsOf(kind)
    BY <1>1, <1>2, <1>3, <1>4
  <2> QED BY <2>1, <2>2
<1>7. /\ Len(table) = slot =>
            /\ after[slot].fields = table[slot].fields
            /\ after[slot].handles = table[slot].handles \cup names
      /\ Len(table) = slot - 1 =>
            /\ after[slot].fields = fields
            /\ after[slot].handles = names
  BY <1>1, <1>4 DEF NewSlot
<1>8. ASSUME NEW object
      PROVE  object \in HeldBy(kind, after) <=>
                \/ object \in HeldBy(kind, table)
                \/ \E name \in names : object = Object(kind, slot, name)
  <2>1. object \in HeldBy(kind, after) <=>
            \/ \E n \in 1 .. slot - 1 : \E name \in table[n].handles :
                    object = Object(kind, n, name)
            \/ \E name \in after[slot].handles : object = Object(kind, slot, name)
    <3>1. DOMAIN after = (1 .. slot - 1) \cup {slot}
      BY <1>3
    <3>2. \A n \in 1 .. slot - 1 : after[n] = table[n]
      BY <1>1, <1>3
    <3> QED BY <3>1, <3>2, HeldByMembers
  <2>2. CASE Len(table) = slot
    <3>1. DOMAIN table = (1 .. slot - 1) \cup {slot}
      BY <2>2
    <3> QED BY <1>7, <2>1, <2>2, <3>1, HeldByMembers
  <2>3. CASE Len(table) = slot - 1
    <3>1. DOMAIN table = 1 .. slot - 1
      BY <2>3
    <3> QED BY <1>7, <2>1, <2>3, <3>1, HeldByMembers
  <2> QED BY <2>2, <2>3
<1>9. \A n \in 1 .. slot - 1 : n \in DOMAIN table /\ after[n] = table[n]
  BY <1>1, <1>3
<1>10. names \subseteq after[slot].handles
  BY <1>4
<1> QED BY <1>4, <1>5, <1>7, <1>8, <1>9, <1>10 DEF after, HandlesAdded

\* The object names its table, its slot and the member that keeps it.
LEMMA HeldObjects ==
    ASSUME NEW kind, NEW table \in Seq(SlotsOf(kind)), NEW object \in HeldBy(kind, table)
    PROVE  /\ object.kind = kind
           /\ object.slot \in DOMAIN table
           /\ object.name \in table[object.slot].handles
           /\ object.name \notin ShaderModules
           /\ object = Object(kind, object.slot, object.name)
<1>1. PICK n \in DOMAIN table : \E name \in table[n].handles : object = Object(kind, n, name)
  BY HeldByMembers
<1>2. PICK name \in table[n].handles : object = Object(kind, n, name)
  BY <1>1
<1>3. object.kind = kind /\ object.slot = n /\ object.name = name
  BY <1>2 DEF Object
<1>4. table[n] \in SlotsOf(kind)
  OBVIOUS
<1>5. table[n].handles \subseteq Names \ ShaderModules
  BY <1>4 DEF SlotsOf
<1> QED BY <1>2, <1>3, <1>5

-----------------------------------------------------------------------------
(* The steps.                                                              *)

LEMMA ResourceInit == Init => ResourceInv
<1> SUFFICES ASSUME Init PROVE ResourceInv
  OBVIOUS
<1> USE DEF Init
<1>1. creating.kind = "none" /\ creating.done = 0
  BY DEF Idle
<1>2. \A kind \in ResourceKinds : slots[kind] = <<>> /\ exists[kind] = FALSE
  OBVIOUS
<1>3. TablesWritten
  <2>1. /\ plan \in Plans
        /\ pending = [kind \in Kinds |-> <<>>]
        /\ tables = [kind \in Kinds |-> Written(kind, <<>>)]
    BY DEF InitTables
  <2> QED BY <2>1 DEF TablesWritten
<1>4. ResourceTypeOK
  <2>1. slots = [kind \in ResourceKinds |-> slots[kind]]
    OBVIOUS
  <2>2. \A kind \in ResourceKinds : slots[kind] \in Seq(SlotsOf(kind))
    BY <1>2
  <2>3. exists \in [ResourceKinds -> BOOLEAN] /\ callerHolds \in BOOLEAN
    OBVIOUS
  <2>4. creating = Idle /\ scratch = {}
    OBVIOUS
  <2> QED BY <2>1, <2>2, <2>3, <2>4 DEF ResourceTypeOK
<1>5. DamagedIsNotMaterialised
  BY <1>2 DEF DamagedIsNotMaterialised
<1>6. SlotInProgress /\ ScratchOfCurrentSlot
  BY DEF SlotInProgress, ScratchOfCurrentSlot
<1>7. NothingLeaks
  <2>1. \A kind \in ResourceKinds : Held(kind) = {}
    BY <1>2, HeldByItsTable, EmptyHoldsNothing
  <2>2. live = (UNION {Held(kind) : kind \in ResourceKinds}) \cup scratch
    BY <2>1
  <2> QED BY <1>2, <2>2 DEF NothingLeaks
<1>8. ImageHandles /\ OnlyViewsAreViews /\ ViewsHoldImages /\ ViewsFit
  <2>1. \A kind \in ResourceKinds : DOMAIN slots[kind] = {}
    BY <1>2
  <2>2. "Image" \in ResourceKinds /\ "ImageView" \in ResourceKinds
    BY DEF ResourceKinds
  <2> QED
    BY <1>1, <1>2, <2>1, <2>2 DEF ImageHandles, OnlyViewsAreViews, ViewsHoldImages, ViewsFit
<1> QED BY <1>3, <1>4, <1>5, <1>6, <1>7, <1>8 DEF ResourceInv

\* Tables are authored before anything is made of them.
LEMMA AuthorStep == ResourceInv /\ Author => ResourceInv'
<1> SUFFICES ASSUME ResourceInv, Author PROVE ResourceInv'
  OBVIOUS
<1>1. /\ creating = Idle /\ UNCHANGED resourceVars
      /\ plan' = plan
      /\ \A kind \in ResourceKinds : ~exists[kind]
  BY DEF Author, AddEntry, ChangeTable
<1>2. /\ creating' = creating /\ slots' = slots /\ exists' = exists
      /\ callerHolds' = callerHolds /\ live' = live /\ scratch' = scratch
  BY <1>1 DEF resourceVars
<1>3. creating.kind = "none"
  BY <1>1 DEF Idle
<1>4. TablesWritten'
  <2>1. TablesWritten
    BY DEF ResourceInv
  <2>2. CASE \E kind \in DOMAIN plan.offered : \E entry \in plan.offered[kind] :
                AddEntry(kind, entry)
    <3>0. PICK kind \in DOMAIN plan.offered : \E entry \in plan.offered[kind] :
                AddEntry(kind, entry)
      BY <2>2
    <3>1. PICK entry \in plan.offered[kind] : AddEntry(kind, entry)
      BY <3>0
    <3>2. kind \in Kinds /\ entry \in Offered(kind)
      BY <2>1, <3>1, PlansAssumption DEF TablesWritten, Offered
    <3>3. /\ pending' = [pending EXCEPT ![kind] = Append(@, entry)]
          /\ tables' = [tables EXCEPT ![kind] = Written(kind, pending'[kind])]
      BY <3>1 DEF AddEntry
    <3>4. \A k : Offered(k)' = Offered(k)
      BY <1>1 DEF Offered
    <3>5. /\ pending' = [k \in Kinds |-> pending'[k]]
          /\ pending'[kind] = Append(pending[kind], entry)
          /\ \A k \in Kinds \ {kind} : pending'[k] = pending[k]
      BY <2>1, <3>2, <3>3 DEF TablesWritten
    <3>6. \A k \in Kinds : pending'[k] \in Seq(Offered(k))
      <4>1. \A k \in Kinds : pending[k] \in Seq(Offered(k))
        BY <2>1 DEF TablesWritten
      <4>2. pending'[kind] \in Seq(Offered(kind))
        BY <3>2, <3>5, <4>1
      <4> QED BY <3>5, <4>1, <4>2
    <3>7. ASSUME ~plan.isDamaged
          PROVE  tables' = [k \in Kinds |-> Written(k, pending'[k])]
      BY <2>1, <3>2, <3>3, <3>5, <3>7 DEF TablesWritten
    <3> QED BY <1>1, <2>1, <3>4, <3>5, <3>6, <3>7 DEF TablesWritten
  <2>3. CASE \E kind \in Kinds : ChangeTable(kind)
    <3>1. plan.isDamaged /\ pending' = pending
      BY <2>3 DEF ChangeTable
    <3> QED BY <1>1, <2>1, <3>1 DEF TablesWritten, Offered
  <2> QED BY <2>2, <2>3 DEF Author
<1>5. ResourceTypeOK' /\ DamagedIsNotMaterialised'
  BY <1>1, <1>2 DEF ResourceInv, ResourceTypeOK, DamagedIsNotMaterialised
<1>6. SlotInProgress' /\ ScratchOfCurrentSlot'
  BY <1>1, <1>2 DEF ResourceInv, SlotInProgress, ScratchOfCurrentSlot
<1>7. NothingLeaks'
  BY <1>2 DEF ResourceInv, NothingLeaks, Held
<1>8. ImageHandles' /\ OnlyViewsAreViews' /\ ViewsHoldImages'
  BY <1>2 DEF ResourceInv, ImageHandles, OnlyViewsAreViews, ViewsHoldImages
<1>9. ViewsFit'
  <2>1. \A view : ViewError(view)' = ViewError(view)
    BY <1>2 DEF ViewError
  <2>2. \A n \in DOMAIN slots["ImageView"] :
            ViewError(slots["ImageView"][n].fields) = "none"
    BY DEF ResourceInv, ViewsFit
  <2> QED BY <1>2, <1>3, <2>1, <2>2 DEF ViewsFit
<1> QED BY <1>4, <1>5, <1>6, <1>7, <1>8, <1>9 DEF ResourceInv

\* Whether a view fits depends on the images alone.
LEMMA ViewErrorOfImages ==
    ASSUME slots'["Image"] = slots["Image"]
    PROVE  \A view : ViewError(view)' = ViewError(view)
BY DEF ViewError

\* Tables go, with the objects they hold and the scratch of the creation.
LEMMA TablesGo ==
    ASSUME ResourceInv, UNCHANGED tableVars, ~plan.isDamaged,
           NEW kinds \in SUBSET ResourceKinds,
           creating = Idle \/ creating.kind \in kinds,
           creating' = Idle, scratch' = {},
           slots' = Emptied(kinds), exists' = Remaining(kinds),
           live' = live \ (scratch \cup Destroyed(kinds)),
           callerHolds' \in BOOLEAN,
           callerHolds' => callerHolds /\ "Image" \notin kinds,
           "Image" \in kinds => "ImageView" \in kinds \/ slots["ImageView"] = <<>>
    PROVE  ResourceInv'
<1>1. /\ plan' = plan /\ pending' = pending /\ tables' = tables
  BY DEF tableVars
<1>2. /\ slots' = [kind \in ResourceKinds |-> slots'[kind]]
      /\ \A kind \in ResourceKinds :
            /\ kind \in kinds => slots'[kind] = <<>>
            /\ kind \notin kinds => slots'[kind] = slots[kind]
  BY DEF Emptied
<1>3. /\ exists' \in [ResourceKinds -> BOOLEAN]
      /\ \A kind \in ResourceKinds : exists'[kind] <=> exists[kind] /\ kind \notin kinds
  BY DEF Remaining
<1>4. /\ "Image" \in ResourceKinds /\ "ImageView" \in ResourceKinds
      /\ creating'.kind = "none" /\ creating'.kind \notin ResourceKinds
      /\ creating = Idle => creating.kind \notin ResourceKinds
  BY DEF ResourceKinds, Idle
<1>5. TablesWritten'
  BY <1>1 DEF ResourceInv, TablesWritten, Offered
<1>6. ResourceTypeOK'
  <2>1. \A kind \in ResourceKinds : slots[kind] \in Seq(SlotsOf(kind))
    BY DEF ResourceInv, ResourceTypeOK
  <2>2. \A kind \in ResourceKinds : slots'[kind] \in Seq(SlotsOf(kind))
    <3> TAKE kind \in ResourceKinds
    <3>1. <<>> \in Seq(SlotsOf(kind))
      OBVIOUS
    <3> QED BY <1>2, <2>1, <3>1
  <2> QED BY <1>2, <1>3, <2>2 DEF ResourceTypeOK
<1>7. DamagedIsNotMaterialised' /\ SlotInProgress' /\ ScratchOfCurrentSlot'
  BY <1>1 DEF DamagedIsNotMaterialised, SlotInProgress, ScratchOfCurrentSlot
<1>8. NothingLeaks'
  <2>1. \A kind \in ResourceKinds :
            /\ slots[kind] \in Seq(SlotsOf(kind))
            /\ Held(kind) = HeldBy(kind, slots[kind])
            /\ Held(kind)' = HeldBy(kind, slots'[kind])
    BY DEF ResourceInv, ResourceTypeOK, Held, HeldBy
  <2>2. live = (UNION {Held(kind) : kind \in ResourceKinds}) \cup scratch
    BY DEF ResourceInv, NothingLeaks
  <2>3. ASSUME NEW object \in live'
        PROVE  \E kind \in ResourceKinds : object \in Held(kind)'
    <3>0. /\ object \in live /\ object \notin scratch
          /\ object \notin Destroyed(kinds)
      OBVIOUS
    <3>1. PICK kind \in ResourceKinds : object \in Held(kind)
      BY <2>2, <3>0
    <3>2. kind \notin kinds
      BY <3>0, <3>1 DEF Destroyed
    <3> QED BY <1>2, <2>1, <3>1, <3>2
  <2>4. ASSUME NEW kind \in ResourceKinds, NEW object \in Held(kind)'
        PROVE  object \in live'
    <3>1. kind \notin kinds
      BY <1>2, <2>1, EmptyHoldsNothing
    <3>2. object \in Held(kind)
      BY <1>2, <2>1, <3>1
    <3>3. object.kind = kind /\ object.name \notin ShaderModules
      BY <2>1, <3>2, HeldObjects
    <3>4. object \notin scratch
      BY <3>3 DEF ResourceInv, ResourceTypeOK
    <3>5. \A other \in kinds : object \notin Held(other)
      BY <2>1, <3>1, <3>3, HeldObjects
    <3> QED BY <2>2, <3>2, <3>4, <3>5 DEF Destroyed
  <2>5. live' = (UNION {Held(kind)' : kind \in ResourceKinds}) \cup scratch'
    BY <2>3, <2>4
  <2>6. \A kind \in ResourceKinds : slots'[kind] # <<>> => exists'[kind]
    BY <1>2, <1>3, <1>4 DEF ResourceInv, NothingLeaks
  <2> QED BY <2>5, <2>6 DEF NothingLeaks
<1>9. ImageHandles' /\ OnlyViewsAreViews'
  <2>1. ImageHandles /\ OnlyViewsAreViews
    BY DEF ResourceInv
  <2>2. \A kind \in ResourceKinds :
            slots'[kind] = slots[kind] \/ DOMAIN slots'[kind] = {}
    BY <1>2
  <2> QED BY <1>4, <2>1, <2>2 DEF ImageHandles, OnlyViewsAreViews
<1>10. ViewsHoldImages'
  <2>1. ViewsHoldImages
    BY DEF ResourceInv
  <2> QED BY <1>2, <1>3, <1>4, <2>1 DEF ViewsHoldImages
<1>11. ViewsFit'
  <2>1. CASE slots'["ImageView"] = <<>>
    BY <1>4, <2>1 DEF ViewsFit
  <2>2. CASE slots'["ImageView"] # <<>>
    <3>1. slots'["Image"] = slots["Image"] /\ slots'["ImageView"] = slots["ImageView"]
      BY <1>2, <1>4, <2>2
    <3>2. \A view : ViewError(view)' = ViewError(view)
      BY <3>1, ViewErrorOfImages
    <3>3. ViewsFit
      BY DEF ResourceInv
    <3> QED BY <1>4, <3>1, <3>2, <3>3 DEF ViewsFit
  <2> QED BY <2>1, <2>2
<1> QED BY <1>5, <1>6, <1>7, <1>8, <1>9, <1>10, <1>11 DEF ResourceInv

\* What stays as it is when no table changes and nothing is created or destroyed.
LEMMA TablesStay ==
    ASSUME ResourceInv, UNCHANGED <<tableVars, slots, live, scratch>>
    PROVE  /\ TablesWritten' /\ OnlyViewsAreViews'
           /\ slots' = [kind \in ResourceKinds |-> slots'[kind]]
           /\ \A kind \in ResourceKinds : slots'[kind] \in Seq(SlotsOf(kind))
           /\ \A object \in scratch' : object.name \in ShaderModules
           /\ live' = (UNION {Held(kind)' : kind \in ResourceKinds}) \cup scratch'
           /\ \A view : ViewError(view)' = ViewError(view)
           /\ \A kind, slot : Fields(kind, slot)' = Fields(kind, slot)
<1>1. /\ plan' = plan /\ pending' = pending /\ tables' = tables
      /\ slots' = slots /\ live' = live /\ scratch' = scratch
  BY DEF tableVars
<1>2. TablesWritten' /\ OnlyViewsAreViews'
  BY <1>1 DEF ResourceInv, TablesWritten, OnlyViewsAreViews, Offered
<1>3. live' = (UNION {Held(kind)' : kind \in ResourceKinds}) \cup scratch'
  BY <1>1 DEF ResourceInv, NothingLeaks, Held
<1>4. \A view : ViewError(view)' = ViewError(view)
  BY <1>1 DEF ViewError
<1>5. \A kind, slot : Fields(kind, slot)' = Fields(kind, slot)
  BY <1>1 DEF Fields
<1> QED BY <1>1, <1>2, <1>3, <1>4, <1>5 DEF ResourceInv, ResourceTypeOK

\* A creation begins with no slot, the table not being there.
LEMMA CreationBegins ==
    ASSUME ResourceInv, UNCHANGED <<tableVars, slots, exists, live, scratch>>,
           ~plan.isDamaged, NEW kind \in ResourceKinds, creating = Idle, ~exists[kind],
           creating' = [kind |-> kind, slot |-> 1, done |-> 0],
           callerHolds' \in BOOLEAN, callerHolds' => callerHolds,
           kind = "ImageView" =>
                /\ exists["Image"]
                /\ \A n \in 1 .. tables["ImageView"].count :
                        ViewError(Fields("ImageView", n)) = "none"
    PROVE  ResourceInv'
<1>1. /\ creating'.kind = kind /\ creating'.slot = 1 /\ creating'.done = 0
      /\ creating.kind = "none" /\ creating.kind \notin ResourceKinds
      /\ creating' # Idle
  BY DEF Idle, ResourceKinds
<1>2. /\ plan' = plan /\ tables' = tables /\ slots' = slots /\ exists' = exists
      /\ live' = live /\ scratch' = scratch
  BY DEF tableVars
<1>3. slots[kind] = <<>>
  BY <1>1 DEF ResourceInv, NothingLeaks
<1>4. scratch = {}
  BY <1>1 DEF ResourceInv, ScratchOfCurrentSlot, PipelineKinds, ResourceKinds
<1>5. TablesWritten' /\ OnlyViewsAreViews'
  BY TablesStay
<1>6. ResourceTypeOK'
  <2>1. creating' \in [kind : ResourceKinds, slot : Nat \ {0}, done : Nat]
    OBVIOUS
  <2> QED BY <1>2, <2>1, TablesStay DEF ResourceInv, ResourceTypeOK
<1>7. DamagedIsNotMaterialised'
  BY <1>2 DEF DamagedIsNotMaterialised
<1>8. SlotInProgress' /\ ScratchOfCurrentSlot'
  BY <1>1, <1>2, <1>3, <1>4 DEF SlotInProgress, ScratchOfCurrentSlot
<1>9. NothingLeaks'
  BY <1>1, <1>2, <1>4, TablesStay DEF ResourceInv, NothingLeaks
<1>10. ImageHandles'
  <2>1. ImageHandles
    BY DEF ResourceInv
  <2> QED BY <1>1, <1>2, <2>1 DEF ImageHandles
<1>11. ViewsHoldImages'
  BY <1>1, <1>2 DEF ResourceInv, ViewsHoldImages
<1>12. ViewsFit'
  <2>1. creating'.kind = "ImageView" =>
            \A n \in 1 .. tables'["ImageView"].count :
                ViewError(Fields("ImageView", n))' = "none"
    BY <1>1, <1>2, TablesStay DEF Fields
  <2>2. \A n \in DOMAIN slots'["ImageView"] :
            ViewError(slots["ImageView"][n].fields)' = "none"
    <3>1. ViewsFit
      BY DEF ResourceInv
    <3>2. \A view : ViewError(view)' = ViewError(view)
      BY TablesStay
    <3> QED BY <1>2, <3>1, <3>2 DEF ViewsFit
  <2> QED BY <2>1, <2>2 DEF ViewsFit
<1> QED BY <1>5, <1>6, <1>7, <1>8, <1>9, <1>10, <1>11, <1>12 DEF ResourceInv

LEMMA BeginCreateStep ==
    ASSUME ResourceInv, UNCHANGED tableVars, ~plan.isDamaged,
           NEW kind \in ResourceKinds, BeginCreate(kind)
    PROVE  ResourceInv'
<1>1. callerHolds' = callerHolds /\ callerHolds \in BOOLEAN
  BY DEF BeginCreate, ResourceInv, ResourceTypeOK
<1> QED BY <1>1, CreationBegins DEF BeginCreate

LEMMA BeginCreateViewsStep ==
    ASSUME ResourceInv, UNCHANGED tableVars, ~plan.isDamaged,
           NEW keeps \in BOOLEAN, BeginCreateViews(keeps)
    PROVE  ResourceInv'
<1> DEFINE kinds == IF ImagesGo(keeps, FALSE) THEN {"Image"} ELSE {}
<1>1. /\ creating = Idle /\ callerHolds /\ ~exists["ImageView"]
      /\ callerHolds' = keeps /\ scratch' = scratch
  BY DEF BeginCreateViews
<1>2. creating.kind = "none" /\ creating.kind \notin ResourceKinds
  BY <1>1 DEF Idle, ResourceKinds
<1>3. "ImageView" \in ResourceKinds
  BY DEF ResourceKinds
<1>4. slots["ImageView"] = <<>> /\ scratch = {} /\ exists["Image"]
  BY <1>1, <1>2, <1>3
     DEF ResourceInv, NothingLeaks, ViewsHoldImages, ResourceKinds, PipelineKinds
<1>5. CASE /\ PreflightError = "none"
           /\ creating' = [kind |-> "ImageView", slot |-> 1, done |-> 0]
           /\ UNCHANGED <<slots, exists, live>>
  <2>1. tables["ImageView"].count \in Nat
    BY <1>3, FieldsOfWritten DEF ResourceInv
  <2>2. \A n \in 1 .. tables["ImageView"].count :
            ViewError(Fields("ImageView", n)) = "none"
    BY <1>5, <2>1, PreflightCoversViews
  <2> QED BY <1>1, <1>3, <1>4, <1>5, <2>2, CreationBegins
<1>6. CASE /\ PreflightError # "none"
           /\ live' = live \ Destroyed(kinds)
           /\ slots' = Emptied(kinds)
           /\ exists' = Remaining(kinds)
           /\ UNCHANGED creating
  <2>1. kinds \in SUBSET ResourceKinds
    BY DEF ResourceKinds
  <2>2. callerHolds' => "Image" \notin kinds
    BY <1>1 DEF ImagesGo
  <2> HIDE DEF kinds
  <2>3. live' = live \ (scratch \cup Destroyed(kinds))
    BY <1>4, <1>6
  <2> QED BY <1>1, <1>4, <1>6, <2>1, <2>2, <2>3, TablesGo
<1> QED BY <1>5, <1>6 DEF BeginCreateViews

LEMMA CreateFailsStep ==
    ASSUME ResourceInv, UNCHANGED tableVars, ~plan.isDamaged, CreateFails
    PROVE  ResourceInv'
<1> DEFINE kinds == {creating.kind} \cup
                 IF creating.kind = "ImageView" /\ ImagesGo(callerHolds, FALSE)
                 THEN {"Image"} ELSE {}
<1>1. /\ creating # Idle
      /\ live' = live \ (scratch \cup Destroyed(kinds))
      /\ scratch' = {} /\ creating' = Idle /\ callerHolds' = callerHolds
      /\ slots' = Emptied(kinds) /\ exists' = Remaining(kinds)
  BY DEF CreateFails, InSlot, ScratchDestroyed
<1>2. creating.kind \in ResourceKinds /\ callerHolds \in BOOLEAN
  BY <1>1 DEF ResourceInv, ResourceTypeOK
<1>3. kinds \in SUBSET ResourceKinds
  BY <1>2 DEF ResourceKinds
<1>4. ~exists[creating.kind] /\ ViewsHoldImages
  BY <1>1 DEF ResourceInv, SlotInProgress
<1>5. "Image" \in kinds => "ImageView" \in kinds \/ slots["ImageView"] = <<>>
  BY <1>4 DEF ViewsHoldImages
<1>6. callerHolds => "Image" \notin kinds
  BY <1>4 DEF ImagesGo, ViewsHoldImages
<1>7. creating.kind \in kinds
  OBVIOUS
<1> HIDE DEF kinds
<1> QED BY <1>1, <1>2, <1>3, <1>5, <1>6, <1>7, TablesGo

LEMMA ReleaseStep ==
    ASSUME ResourceInv, UNCHANGED tableVars, ~plan.isDamaged,
           NEW kind \in ResourceKinds, Release(kind)
    PROVE  ResourceInv'
<1> DEFINE viewsRemain == exists["ImageView"] /\ kind # "ImageView"
           holds == callerHolds /\ kind # "Image"
           kinds == (IF kind = "Image" THEN {} ELSE {kind})
                        \cup IF ImagesGo(holds, viewsRemain) THEN {"Image"} ELSE {}
<1>1. /\ creating = Idle
      /\ callerHolds' = holds
      /\ live' = live \ Destroyed(kinds)
      /\ slots' = Emptied(kinds) /\ exists' = Remaining(kinds)
      /\ creating' = creating /\ scratch' = scratch
  BY DEF Release
<1>2. creating.kind = "none" /\ creating.kind \notin ResourceKinds
  BY <1>1 DEF Idle, ResourceKinds
<1>3. scratch = {} /\ callerHolds \in BOOLEAN /\ exists \in [ResourceKinds -> BOOLEAN]
  BY <1>2 DEF ResourceInv, ScratchOfCurrentSlot, PipelineKinds, ResourceKinds, ResourceTypeOK
<1>4. kinds \in SUBSET ResourceKinds
  BY DEF ResourceKinds
<1>5. ~exists["ImageView"] => slots["ImageView"] = <<>>
  BY <1>2 DEF ResourceInv, NothingLeaks, ResourceKinds
<1>6. "Image" \in kinds => "ImageView" \in kinds \/ slots["ImageView"] = <<>>
  BY <1>5 DEF ImagesGo
<1>7. holds \in BOOLEAN /\ (holds => callerHolds /\ "Image" \notin kinds)
  BY DEF ImagesGo
<1> HIDE DEF kinds, holds, viewsRemain
<1> QED BY <1>1, <1>3, <1>4, <1>6, <1>7, TablesGo

LEMMA FinishCreateStep ==
    ASSUME ResourceInv, UNCHANGED tableVars, ~plan.isDamaged, FinishCreate
    PROVE  ResourceInv'
<1> DEFINE kind == creating.kind
<1>1. /\ creating # Idle /\ creating.slot > tables[kind].count
      /\ exists' = [exists EXCEPT ![kind] = TRUE]
      /\ callerHolds' = (callerHolds \/ kind = "Image")
      /\ creating' = Idle
      /\ slots' = slots /\ live' = live /\ scratch' = scratch
  BY DEF FinishCreate
<1>2. /\ plan' = plan /\ tables' = tables
      /\ creating \in [kind : ResourceKinds, slot : Nat \ {0}, done : Nat]
      /\ kind \in ResourceKinds /\ creating.slot \in Nat
  BY <1>1 DEF tableVars, ResourceInv, ResourceTypeOK
<1>3. creating'.kind = "none" /\ creating'.kind \notin ResourceKinds
  BY <1>1 DEF Idle, ResourceKinds
<1>4. tables[kind].count \in Nat
  BY <1>2, FieldsOfWritten DEF ResourceInv
<1>5. creating.done = 0
  BY <1>1, <1>2, <1>4 DEF ResourceInv, SlotInProgress
<1>6. scratch = {}
  BY <1>5 DEF ResourceInv, ScratchOfCurrentSlot
<1>7. /\ exists' \in [ResourceKinds -> BOOLEAN]
      /\ \A other \in ResourceKinds : exists'[other] <=> exists[other] \/ other = kind
  BY <1>1, <1>2 DEF ResourceInv, ResourceTypeOK
<1>8. TablesWritten' /\ OnlyViewsAreViews'
  BY <1>1, TablesStay
<1>9. ResourceTypeOK'
  <2>1. callerHolds' \in BOOLEAN
    BY <1>1
  <2> QED BY <1>1, <1>7, <2>1, TablesStay DEF ResourceTypeOK
<1>10. DamagedIsNotMaterialised' /\ SlotInProgress' /\ ScratchOfCurrentSlot'
  BY <1>1, <1>2, <1>6 DEF DamagedIsNotMaterialised, SlotInProgress, ScratchOfCurrentSlot
<1>11. NothingLeaks'
  BY <1>1, <1>6, <1>7, TablesStay DEF ResourceInv, NothingLeaks
<1>12. ImageHandles' /\ ViewsHoldImages'
  BY <1>1, <1>3, <1>7 DEF ResourceInv, ImageHandles, ViewsHoldImages, ResourceKinds
<1>13. ViewsFit'
  <2>1. \A view : ViewError(view)' = ViewError(view)
    BY <1>1, TablesStay
  <2>2. ViewsFit
    BY DEF ResourceInv
  <2>3. creating'.kind # "ImageView"
    BY <1>1 DEF Idle
  <2> QED BY <1>1, <2>1, <2>2, <2>3 DEF ViewsFit
<1> QED BY <1>8, <1>9, <1>10, <1>11, <1>12, <1>13 DEF ResourceInv

\* A slot without objects joins the table.
LEMMA SkipImportedStep ==
    ASSUME ResourceInv, UNCHANGED tableVars, ~plan.isDamaged, SkipImported
    PROVE  ResourceInv'
<1> DEFINE kind == creating.kind
           slot == creating.slot
           fields == Fields(kind, slot)
           after == Append(slots[kind], NewSlot(fields))
<1>1. /\ creating # Idle /\ slot <= tables[kind].count /\ Imported(kind, fields)
      /\ slots' = [slots EXCEPT ![kind] = after]
      /\ creating' = [creating EXCEPT !.slot = @ + 1]
      /\ exists' = exists /\ callerHolds' = callerHolds /\ live' = live /\ scratch' = scratch
  BY DEF SkipImported, InSlot
<1>2. /\ plan' = plan /\ pending' = pending /\ tables' = tables
      /\ creating \in [kind : ResourceKinds, slot : Nat \ {0}, done : Nat]
  BY <1>1 DEF tableVars, ResourceInv, ResourceTypeOK
<1>3. /\ kind \in ResourceKinds /\ slot \in Nat \ {0} /\ creating.done \in Nat
      /\ creating' = [kind |-> kind, slot |-> slot + 1, done |-> creating.done]
  BY <1>1, <1>2
<1>4. kind \in {"Buffer", "Image"}
  BY <1>1 DEF Imported
<1>5. creating.done = 0 /\ Len(slots[kind]) = slot - 1 /\ ~exists[kind]
  BY <1>1, <1>3 DEF ResourceInv, SlotInProgress
<1>6. scratch = {}
  BY <1>5 DEF ResourceInv, ScratchOfCurrentSlot
<1>7. fields \in [EntryFields[kind] -> Word]
  BY <1>1, <1>3, FieldsOfWritten DEF ResourceInv
<1>8. \A k \in ResourceKinds : slots[k] \in Seq(SlotsOf(k))
  BY DEF ResourceInv, ResourceTypeOK
<1>9. /\ after \in Seq(SlotsOf(kind))
      /\ Len(after) = slot
      /\ \A n \in 1 .. slot - 1 : after[n] = slots[kind][n]
      /\ after[slot].isBound = FALSE /\ after[slot].handles = {}
      /\ HeldBy(kind, after) = HeldBy(kind, slots[kind])
  <2>1. /\ after \in Seq(SlotsOf(kind))
        /\ Len(after) = Len(slots[kind]) + 1
        /\ \A n \in 1 .. Len(slots[kind]) : after[n] = slots[kind][n]
        /\ after[Len(after)] = NewSlot(fields)
        /\ HeldBy(kind, after) = HeldBy(kind, slots[kind])
    BY <1>3, <1>7, <1>8, PlaceholderHoldsNothing
  <2>2. NewSlot(fields).isBound = FALSE /\ NewSlot(fields).handles = {}
    BY DEF NewSlot
  <2> HIDE DEF after
  <2>3. Len(after) = slot
    BY <1>3, <1>5, <2>1
  <2> QED BY <1>3, <1>5, <2>1, <2>2, <2>3
<1> HIDE DEF after
<1>10. /\ slots' = [k \in ResourceKinds |-> slots'[k]]
       /\ slots'[kind] = after
       /\ \A k \in ResourceKinds \ {kind} : slots'[k] = slots[k]
  BY <1>1, <1>3 DEF ResourceInv, ResourceTypeOK
<1>11. TablesWritten'
  BY <1>2 DEF ResourceInv, TablesWritten, Offered
<1>12. ResourceTypeOK'
  <2>1. creating' \in [kind : ResourceKinds, slot : Nat \ {0}, done : Nat]
    BY <1>3
  <2>2. \A k \in ResourceKinds : slots'[k] \in Seq(SlotsOf(k))
    BY <1>8, <1>9, <1>10
  <2> QED BY <1>1, <1>10, <2>1, <2>2 DEF ResourceInv, ResourceTypeOK
<1>13. DamagedIsNotMaterialised'
  BY <1>2 DEF DamagedIsNotMaterialised
<1>14. SlotInProgress' /\ ScratchOfCurrentSlot'
  <2>1. creating'.kind = kind /\ creating'.done = 0 /\ creating'.slot = slot + 1
    BY <1>3, <1>5
  <2> QED BY <1>1, <1>3, <1>5, <1>6, <1>9, <1>10, <2>1
          DEF SlotInProgress, ScratchOfCurrentSlot
<1>15. NothingLeaks'
  <2>1. \A k \in ResourceKinds : Held(k)' = Held(k)
    <3>1. \A k : Held(k) = HeldBy(k, slots[k]) /\ Held(k)' = HeldBy(k, slots'[k])
      BY DEF Held, HeldBy
    <3> QED BY <1>9, <1>10, <3>1
  <2>2. live = (UNION {Held(k) : k \in ResourceKinds}) \cup scratch
    BY DEF ResourceInv, NothingLeaks
  <2>3. live' = (UNION {Held(k)' : k \in ResourceKinds}) \cup scratch'
    BY <1>1, <2>1, <2>2
  <2>4. \A k \in ResourceKinds : slots'[k] # <<>> => exists'[k] \/ creating'.kind = k
    BY <1>1, <1>3, <1>10 DEF ResourceInv, NothingLeaks
  <2> QED BY <1>1, <1>6, <2>3, <2>4 DEF NothingLeaks
<1>16. DOMAIN after = 1 .. slot /\ \A n \in DOMAIN after : n = slot \/ n \in DOMAIN slots[kind]
  BY <1>3, <1>5, <1>8, <1>9
<1>17. \A n \in DOMAIN after : n # slot => n \in 1 .. slot - 1
  BY <1>3, <1>16
<1>18. ImageHandles'
  <2>1. ImageHandles
    BY DEF ResourceInv
  <2>2. creating'.kind = kind /\ creating'.done = 0
    BY <1>3, <1>5
  <2>3. \A n \in DOMAIN slots'["Image"] :
            slots'["Image"][n].isBound => {"image", "memory"} \subseteq slots'["Image"][n].handles
    <3>1. CASE kind = "Image"
      <4>1. slots'["Image"] = after
        BY <1>10, <3>1
      <4> SUFFICES ASSUME NEW n \in DOMAIN after, after[n].isBound
                   PROVE  {"image", "memory"} \subseteq after[n].handles
        BY <4>1
      <4>2. n # slot
        BY <1>9
      <4>3. n \in DOMAIN slots["Image"] /\ after[n] = slots["Image"][n]
        BY <1>9, <1>16, <1>17, <3>1, <4>2
      <4> QED BY <2>1, <4>3 DEF ImageHandles
    <3>2. CASE kind # "Image"
      BY <1>10, <2>1, <3>2 DEF ImageHandles, ResourceKinds
    <3> QED BY <3>1, <3>2
  <2> QED BY <2>2, <2>3 DEF ImageHandles
<1>19. OnlyViewsAreViews'
  BY <1>9, <1>10, <1>16, <1>17 DEF ResourceInv, OnlyViewsAreViews
<1>20. slots'["ImageView"] = slots["ImageView"]
  BY <1>4, <1>10 DEF ResourceKinds
<1>21. ViewsHoldImages'
  BY <1>1, <1>3, <1>20 DEF ResourceInv, ViewsHoldImages
<1>22. ViewsFit'
  <2>1. ViewsFit /\ ViewsHoldImages
    BY DEF ResourceInv
  <2>2. creating'.kind # "ImageView"
    BY <1>3, <1>4
  <2>3. CASE kind = "Image"
    <3>1. slots["ImageView"] = <<>>
      BY <1>5, <2>1, <2>3 DEF ViewsHoldImages
    <3> QED BY <1>20, <2>2, <3>1 DEF ViewsFit
  <2>4. CASE kind # "Image"
    <3>1. slots'["Image"] = slots["Image"]
      BY <1>10, <2>4 DEF ResourceKinds
    <3>2. \A view : ViewError(view)' = ViewError(view)
      BY <3>1, ViewErrorOfImages
    <3> QED BY <1>20, <2>1, <2>2, <3>2 DEF ViewsFit
  <2> QED BY <2>3, <2>4
<1> QED BY <1>11, <1>12, <1>13, <1>14, <1>15, <1>18, <1>19, <1>21, <1>22 DEF ResourceInv

\* What is known of the call that is made.
LEMMA CallFacts ==
    ASSUME ResourceInv, UNCHANGED tableVars, ~plan.isDamaged, CallSucceeds
    PROVE  LET kind == creating.kind
               slot == creating.slot
               name == CurrentSteps[creating.done + 1]
               isLast == creating.done + 1 = Len(CurrentSteps)
           IN  /\ creating # Idle /\ kind \in ResourceKinds /\ slot \in Nat \ {0}
               /\ creating.done \in Nat
               /\ slot <= tables[kind].count
               /\ ~Imported(kind, Fields(kind, slot))
               /\ Fields(kind, slot) \in [EntryFields[kind] -> Word]
               /\ Len(CurrentSteps) \in Nat /\ creating.done + 1 \in 1 .. Len(CurrentSteps)
               /\ name \in Names
               /\ name \in ShaderModules => kind \in PipelineKinds /\ ~isLast
               /\ name = "view" => kind = "ImageView"
               /\ kind = "Image" => CurrentSteps = <<"image", "memory", "bind">>
               /\ Len(slots[kind]) \in {slot - 1, slot}
               /\ ~exists[kind]
               /\ creating' = IF isLast
                    THEN [kind |-> kind, slot |-> slot + 1, done |-> 0]
                    ELSE [kind |-> kind, slot |-> slot, done |-> creating.done + 1]
               /\ exists' = exists /\ callerHolds' = callerHolds
               /\ plan' = plan /\ pending' = pending /\ tables' = tables
<1> DEFINE kind == creating.kind
           slot == creating.slot
           name == CurrentSteps[creating.done + 1]
           isLast == creating.done + 1 = Len(CurrentSteps)
<1>1. /\ creating # Idle /\ slot <= tables[kind].count
      /\ ~Imported(kind, Fields(kind, slot))
      /\ creating' = IF isLast
            THEN [creating EXCEPT !.slot = @ + 1, !.done = 0]
            ELSE [creating EXCEPT !.done = @ + 1]
      /\ exists' = exists /\ callerHolds' = callerHolds
  BY DEF CallSucceeds, MayCall, InSlot
<1>2. /\ creating \in [kind : ResourceKinds, slot : Nat \ {0}, done : Nat]
      /\ plan' = plan /\ pending' = pending /\ tables' = tables
  BY <1>1 DEF tableVars, ResourceInv, ResourceTypeOK
<1>3. kind \in ResourceKinds /\ slot \in Nat \ {0} /\ creating.done \in Nat
  BY <1>2
<1>4. /\ [creating EXCEPT !.slot = @ + 1, !.done = 0]
            = [kind |-> kind, slot |-> slot + 1, done |-> 0]
      /\ [creating EXCEPT !.done = @ + 1]
            = [kind |-> kind, slot |-> slot, done |-> creating.done + 1]
  <2>1. PICK k \in ResourceKinds, n \in Nat \ {0}, d \in Nat :
                creating = [kind |-> k, slot |-> n, done |-> d]
    BY <1>2
  <2>2. /\ [creating EXCEPT !.slot = @ + 1, !.done = 0]
                = [kind |-> k, slot |-> n + 1, done |-> 0]
        /\ [creating EXCEPT !.done = @ + 1] = [kind |-> k, slot |-> n, done |-> d + 1]
    <3>1. /\ [[kind |-> k, slot |-> n, done |-> d] EXCEPT !.slot = @ + 1, !.done = 0]
                = [kind |-> k, slot |-> n + 1, done |-> 0]
          /\ [[kind |-> k, slot |-> n, done |-> d] EXCEPT !.done = @ + 1]
                = [kind |-> k, slot |-> n, done |-> d + 1]
      <4> DEFINE c == [kind |-> k, slot |-> n, done |-> d]
      <4>1. [c EXCEPT !.done = @ + 1] = [kind |-> k, slot |-> n, done |-> d + 1]
        OBVIOUS
      <4>2. [c EXCEPT !.slot = @ + 1] = [kind |-> k, slot |-> n + 1, done |-> d]
        OBVIOUS
      <4>3. [[kind |-> k, slot |-> n + 1, done |-> d] EXCEPT !.done = 0]
                = [kind |-> k, slot |-> n + 1, done |-> 0]
        OBVIOUS
      <4>4. [c EXCEPT !.slot = @ + 1, !.done = 0] = [[c EXCEPT !.slot = @ + 1] EXCEPT !.done = 0]
        OBVIOUS
      <4> QED BY <4>1, <4>2, <4>3, <4>4, Zenon
    <3> QED BY <2>1, <3>1
  <2> QED BY <2>1, <2>2
<1>5. creating' = IF isLast
        THEN [kind |-> kind, slot |-> slot + 1, done |-> 0]
        ELSE [kind |-> kind, slot |-> slot, done |-> creating.done + 1]
  BY <1>1, <1>4
<1>6. Fields(kind, slot) \in [EntryFields[kind] -> Word]
  BY <1>1, <1>3, FieldsOfWritten DEF ResourceInv
<1>7. SlotInProgress
  BY DEF ResourceInv
<1>8. /\ CurrentSteps \in Seq(Names)
      /\ Len(CurrentSteps) \in Nat \ {0}
      /\ CurrentSteps[Len(CurrentSteps)] \notin ShaderModules
      /\ \A i \in 1 .. Len(CurrentSteps) :
            /\ CurrentSteps[i] \in ShaderModules => kind \in PipelineKinds
            /\ CurrentSteps[i] = "view" => kind = "ImageView"
      /\ kind = "Image" => CurrentSteps = <<"image", "memory", "bind">>
  BY <1>3, StepsFacts DEF CurrentSteps
<1>9. creating.done + 1 \in 1 .. Len(CurrentSteps)
  BY <1>1, <1>3, <1>7, <1>8 DEF SlotInProgress
<1>10. /\ name \in Names
       /\ name \in ShaderModules => kind \in PipelineKinds /\ ~isLast
       /\ name = "view" => kind = "ImageView"
  BY <1>8, <1>9
<1>11. Len(slots[kind]) \in {slot - 1, slot} /\ ~exists[kind]
  BY <1>1, <1>7 DEF SlotInProgress
<1> QED BY <1>1, <1>2, <1>3, <1>5, <1>6, <1>8, <1>9, <1>10, <1>11

\* A shader module is made, and kept in a local variable.
LEMMA ShaderModuleStep ==
    ASSUME ResourceInv, UNCHANGED tableVars, ~plan.isDamaged, CallSucceeds,
           CurrentSteps[creating.done + 1] \in ShaderModules
    PROVE  ResourceInv'
<1> DEFINE kind == creating.kind
           slot == creating.slot
           name == CurrentSteps[creating.done + 1]
           object == Object(kind, slot, name)
<1>1. /\ creating # Idle /\ kind \in ResourceKinds /\ slot \in Nat \ {0}
      /\ creating.done \in Nat /\ slot <= tables[kind].count
      /\ ~Imported(kind, Fields(kind, slot))
      /\ Len(CurrentSteps) \in Nat /\ creating.done + 1 \in 1 .. Len(CurrentSteps)
      /\ kind \in PipelineKinds /\ creating.done + 1 # Len(CurrentSteps)
      /\ Len(slots[kind]) \in {slot - 1, slot} /\ ~exists[kind]
      /\ creating' = [kind |-> kind, slot |-> slot, done |-> creating.done + 1]
      /\ exists' = exists /\ callerHolds' = callerHolds
      /\ plan' = plan /\ pending' = pending /\ tables' = tables
  BY CallFacts
<1>2. scratch' = scratch \cup {object} /\ live' = live \cup {object} /\ slots' = slots
  <2>1. name # "bind"
    BY DEF ShaderModules
  <2>2. {Object(kind, slot, n) : n \in {name}} = {object}
    OBVIOUS
  <2> QED BY <2>1, <2>2 DEF CallSucceeds
<1>3. /\ creating'.kind = kind /\ creating'.slot = slot
      /\ creating'.done = creating.done + 1 /\ creating'.done # 0
      /\ kind # "Image" /\ kind # "ImageView"
  BY <1>1 DEF PipelineKinds
<1>4. object.name = name
  BY DEF Object
<1>5. TablesWritten' /\ OnlyViewsAreViews' /\ DamagedIsNotMaterialised'
  BY <1>1, <1>2
     DEF ResourceInv, TablesWritten, Offered, OnlyViewsAreViews, DamagedIsNotMaterialised
<1>6. ResourceTypeOK'
  <2>1. creating' \in [kind : ResourceKinds, slot : Nat \ {0}, done : Nat]
    BY <1>1
  <2> QED BY <1>1, <1>2, <1>4, <2>1 DEF ResourceInv, ResourceTypeOK
<1>7. SlotInProgress'
  <2>2. CurrentSteps' = CurrentSteps
    BY <1>1, <1>3 DEF CurrentSteps, Fields
  <2>3. Imported(creating.kind, Fields(creating.kind, creating.slot))'
            = Imported(kind, Fields(kind, slot))
    BY <1>1, <1>3 DEF Imported, Fields
  <2>4. creating'.done < Len(CurrentSteps')
    BY <1>1, <1>3, <2>2
  <2> QED BY <1>1, <1>2, <1>3, <2>2, <2>3, <2>4 DEF SlotInProgress
<1>8. ScratchOfCurrentSlot'
  BY <1>1, <1>3 DEF ScratchOfCurrentSlot
<1>9. NothingLeaks'
  <2>1. live' = (UNION {Held(k)' : k \in ResourceKinds}) \cup scratch'
    BY <1>2 DEF ResourceInv, NothingLeaks, Held
  <2> QED BY <1>1, <1>2, <1>3, <2>1 DEF ResourceInv, NothingLeaks
<1>10. ImageHandles' /\ ViewsHoldImages'
  BY <1>1, <1>2, <1>3 DEF ResourceInv, ImageHandles, ViewsHoldImages
<1>11. ViewsFit'
  <2>1. \A view : ViewError(view)' = ViewError(view)
    BY <1>2 DEF ViewError
  <2>2. ViewsFit
    BY DEF ResourceInv
  <2> QED BY <1>2, <1>3, <2>1, <2>2 DEF ViewsFit
<1> QED BY <1>5, <1>6, <1>7, <1>8, <1>9, <1>10, <1>11 DEF ResourceInv

\* A call leaves its handle in the slot; the last one takes the shader modules.
LEMMA HandleStep ==
    ASSUME ResourceInv, UNCHANGED tableVars, ~plan.isDamaged, CallSucceeds,
           CurrentSteps[creating.done + 1] \notin ShaderModules
    PROVE  ResourceInv'
<1> DEFINE kind == creating.kind
           slot == creating.slot
           fields == Fields(kind, slot)
           name == CurrentSteps[creating.done + 1]
           isLast == creating.done + 1 = Len(CurrentSteps)
           names == IF name = "bind" THEN {} ELSE {name}
           table == slots[kind]
           after == WithCall(table, slot, fields, names, isLast)
<1>1. /\ creating # Idle /\ kind \in ResourceKinds /\ slot \in Nat \ {0}
      /\ creating.done \in Nat /\ slot <= tables[kind].count
      /\ ~Imported(kind, fields)
      /\ fields \in [EntryFields[kind] -> Word]
      /\ Len(CurrentSteps) \in Nat /\ creating.done + 1 \in 1 .. Len(CurrentSteps)
      /\ name \in Names
      /\ name = "view" => kind = "ImageView"
      /\ kind = "Image" => CurrentSteps = <<"image", "memory", "bind">>
      /\ Len(table) \in {slot - 1, slot} /\ ~exists[kind]
      /\ creating' = IF isLast
            THEN [kind |-> kind, slot |-> slot + 1, done |-> 0]
            ELSE [kind |-> kind, slot |-> slot, done |-> creating.done + 1]
      /\ exists' = exists /\ callerHolds' = callerHolds
      /\ plan' = plan /\ pending' = pending /\ tables' = tables
  BY CallFacts
<1>2. /\ scratch' = IF isLast THEN {} ELSE scratch
      /\ live' = (live \ IF isLast THEN scratch ELSE {})
                    \cup {Object(kind, slot, n) : n \in names}
      /\ slots' = [slots EXCEPT ![kind] = after]
  BY DEF CallSucceeds
<1>3. \A k \in ResourceKinds : slots[k] \in Seq(SlotsOf(k))
  BY DEF ResourceInv, ResourceTypeOK
<1>4. names \in SUBSET (Names \ ShaderModules)
  BY <1>1
<1>5. /\ after \in Seq(SlotsOf(kind))
      /\ Len(after) = slot
      /\ \A n \in 1 .. slot - 1 : n \in DOMAIN table /\ after[n] = table[n]
      /\ after[slot].isBound = isLast
      /\ names \subseteq after[slot].handles
      /\ Len(table) = slot =>
            /\ after[slot].fields = table[slot].fields
            /\ after[slot].handles = table[slot].handles \cup names
      /\ Len(table) = slot - 1 =>
            /\ after[slot].fields = fields
            /\ after[slot].handles = names
      /\ \A object :
            object \in HeldBy(kind, after) <=>
                \/ object \in HeldBy(kind, table)
                \/ \E n \in names : object = Object(kind, slot, n)
  <2>1. isLast \in BOOLEAN
    OBVIOUS
  <2>2. table \in Seq(SlotsOf(kind))
    BY <1>1, <1>3
  <2>3. /\ kind \in ResourceKinds /\ slot \in Nat \ {0}
        /\ fields \in [EntryFields[kind] -> Word]
        /\ Len(table) \in {slot - 1, slot}
    BY <1>1
  <2> HIDE DEF names, fields, table, isLast, slot, kind
  <2>4. \A bound \in BOOLEAN : HandlesAdded(kind, table, slot, fields, names, bound)
    BY <1>4, <2>2, <2>3, CallAddsHandles
  <2>5. HandlesAdded(kind, table, slot, fields, names, isLast)
    BY <2>1, <2>4
  <2> QED BY <2>5 DEF HandlesAdded
<1> HIDE DEF after
<1>6. /\ slots' = [k \in ResourceKinds |-> slots'[k]]
      /\ slots'[kind] = after
      /\ \A k \in ResourceKinds \ {kind} : slots'[k] = slots[k]
  BY <1>1, <1>2 DEF ResourceInv, ResourceTypeOK
<1>7. DOMAIN after = (1 .. slot - 1) \cup {slot}
  <2>1. DOMAIN after = 1 .. slot
    BY <1>5
  <2> QED BY <1>1, <2>1
<1>8. Len(table) = slot => slot \in DOMAIN table
  BY <1>1, <1>3
<1>9. /\ creating'.kind = kind
      /\ isLast => creating'.slot = slot + 1 /\ creating'.done = 0
      /\ ~isLast => creating'.slot = slot /\ creating'.done = creating.done + 1
  BY <1>1
<1>10. TablesWritten' /\ DamagedIsNotMaterialised'
  BY <1>1 DEF ResourceInv, TablesWritten, Offered, DamagedIsNotMaterialised
<1>11. ResourceTypeOK'
  <2>1. creating' \in [kind : ResourceKinds, slot : Nat \ {0}, done : Nat]
    BY <1>1
  <2>2. \A k \in ResourceKinds : slots'[k] \in Seq(SlotsOf(k))
    BY <1>3, <1>5, <1>6
  <2> QED BY <1>1, <1>2, <1>6, <2>1, <2>2 DEF ResourceInv, ResourceTypeOK
<1>12. SlotInProgress'
  <2>1. CASE isLast
    BY <1>1, <1>5, <1>6, <1>9, <2>1 DEF SlotInProgress
  <2>2. CASE ~isLast
    <3>1. CurrentSteps' = CurrentSteps
      BY <1>1, <1>9, <2>2 DEF CurrentSteps, Fields
    <3>2. Imported(creating.kind, Fields(creating.kind, creating.slot))'
            = Imported(kind, fields)
      BY <1>1, <1>9, <2>2 DEF Imported, Fields
    <3>3. creating'.done < Len(CurrentSteps') /\ creating'.done # 0
      BY <1>1, <1>9, <2>2, <3>1
    <3> QED BY <1>1, <1>5, <1>6, <1>9, <2>2, <3>2, <3>3 DEF SlotInProgress
  <2> QED BY <2>1, <2>2
<1>13. ScratchOfCurrentSlot'
  <2>1. CASE isLast
    BY <1>2, <2>1 DEF ScratchOfCurrentSlot
  <2>2. CASE ~isLast
    BY <1>1, <1>2, <1>9, <2>2 DEF ResourceInv, ScratchOfCurrentSlot
  <2> QED BY <2>1, <2>2
<1>14. NothingLeaks'
  <2>1. \A k : Held(k) = HeldBy(k, slots[k]) /\ Held(k)' = HeldBy(k, slots'[k])
    BY DEF Held, HeldBy
  <2>2. \A k \in ResourceKinds \ {kind} : Held(k)' = Held(k)
    BY <1>6, <2>1
  <2>3. Held(kind)' = Held(kind) \cup {Object(kind, slot, n) : n \in names}
    BY <1>1, <1>5, <1>6, <2>1
  <2>4. live' = (live \ IF isLast THEN scratch ELSE {})
                    \cup {Object(kind, slot, n) : n \in names}
    BY <1>2
  <2>5. live = (UNION {Held(k) : k \in ResourceKinds}) \cup scratch
    BY DEF ResourceInv, NothingLeaks
  <2>6. ASSUME NEW k \in ResourceKinds, NEW object \in Held(k) PROVE object \notin scratch
    <3>1. object.name \notin ShaderModules
      BY <1>3, <2>1, HeldObjects
    <3> QED BY <3>1 DEF ResourceInv, ResourceTypeOK
  <2> HIDE DEF names, isLast
  <2>7. ASSUME NEW object
        PROVE  object \in live' <=>
                \/ \E k \in ResourceKinds : object \in Held(k)'
                \/ object \in scratch'
    <3>1. object \in live <=>
            (\E k \in ResourceKinds : object \in Held(k)) \/ object \in scratch
      BY <2>5
    <3>2. (\E k \in ResourceKinds : object \in Held(k)') <=>
            \/ \E k \in ResourceKinds : object \in Held(k)
            \/ object \in {Object(kind, slot, n) : n \in names}
      BY <1>1, <2>2, <2>3
    <3>3. (\E k \in ResourceKinds : object \in Held(k)) => object \notin scratch
      BY <2>6
    <3> QED BY <1>2, <2>4, <3>1, <3>2, <3>3
  <2>8. live' = (UNION {Held(k)' : k \in ResourceKinds}) \cup scratch'
    BY <2>7
  <2>9. \A k \in ResourceKinds : slots'[k] # <<>> => exists'[k] \/ creating'.kind = k
    BY <1>1, <1>6, <1>9 DEF ResourceInv, NothingLeaks
  <2>10. scratch' # {} => creating'.kind \in PipelineKinds
    BY <1>2, <1>9 DEF ResourceInv, NothingLeaks
  <2> QED BY <2>8, <2>9, <2>10 DEF NothingLeaks
<1>15. ImageHandles'
  <2>1. ImageHandles
    BY DEF ResourceInv
  <2>2. CASE kind = "Image"
    <3>1. /\ CurrentSteps[1] = "image" /\ CurrentSteps[2] = "memory"
          /\ CurrentSteps[3] = "bind" /\ Len(CurrentSteps) = 3
      BY <1>1, <2>2
    <3>2. creating.done \in 0 .. 2 /\ (isLast <=> creating.done = 2)
      BY <1>1, <2>1, <2>2, <3>1 DEF ImageHandles
    <3>3. "image" \in after[slot].handles
      BY <1>1, <1>5, <2>1, <2>2, <3>1, <3>2 DEF ImageHandles
    <3>4. creating.done # 0 => "memory" \in after[slot].handles
      BY <1>1, <1>5, <2>1, <2>2, <3>1, <3>2 DEF ImageHandles
    <3>5. \A n \in DOMAIN after :
            after[n].isBound => {"image", "memory"} \subseteq after[n].handles
      <4> SUFFICES ASSUME NEW n \in DOMAIN after, after[n].isBound
                   PROVE  {"image", "memory"} \subseteq after[n].handles
        OBVIOUS
      <4>1. CASE n = slot
        <5>1. creating.done # 0
          <6>1. isLast
            <7> HIDE DEF isLast
            <7> QED BY <1>5, <4>1
          <6> QED BY <3>2, <6>1
        <5> QED BY <3>3, <3>4, <4>1, <5>1
      <4>2. CASE n # slot
        <5>1. n \in DOMAIN table /\ after[n] = table[n]
          BY <1>5, <1>7, <4>2
        <5> QED BY <2>1, <2>2, <5>1 DEF ImageHandles
      <4> QED BY <4>1, <4>2
    <3> QED BY <1>5, <1>6, <1>9, <2>2, <3>2, <3>3, <3>4, <3>5 DEF ImageHandles
  <2>3. CASE kind # "Image"
    BY <1>6, <1>9, <2>1, <2>3 DEF ImageHandles, ResourceKinds
  <2> QED BY <2>2, <2>3
<1>16. OnlyViewsAreViews'
  <2>1. OnlyViewsAreViews
    BY DEF ResourceInv
  <2>2. kind # "ImageView" => \A n \in DOMAIN after : "view" \notin after[n].handles
    <3> SUFFICES ASSUME kind # "ImageView", NEW n \in DOMAIN after
                 PROVE  "view" \notin after[n].handles
      OBVIOUS
    <3>1. CASE n = slot
      <4>1. "view" \notin names
        BY <1>1
      <4>2. Len(table) = slot => "view" \notin table[slot].handles
        BY <1>1, <1>8, <2>1 DEF OnlyViewsAreViews
      <4> HIDE DEF names
      <4> QED BY <1>1, <1>5, <3>1, <4>1, <4>2
    <3>2. CASE n # slot
      <4>1. n \in DOMAIN table /\ after[n] = table[n]
        BY <1>5, <1>7, <3>2
      <4> QED BY <1>1, <2>1, <4>1 DEF OnlyViewsAreViews
    <3> QED BY <3>1, <3>2
  <2> QED BY <1>6, <2>1, <2>2 DEF OnlyViewsAreViews
<1>17. ViewsHoldImages'
  <2>1. kind # "ImageView" => slots'["ImageView"] = slots["ImageView"]
    BY <1>6 DEF ResourceKinds
  <2> QED BY <1>1, <1>9, <2>1 DEF ResourceInv, ViewsHoldImages
<1>18. ViewsFit'
  <2>1. ViewsFit /\ ViewsHoldImages
    BY DEF ResourceInv
  <2>2. "Image" \in ResourceKinds /\ "ImageView" \in ResourceKinds
    BY DEF ResourceKinds
  <2>3. CASE kind = "Image"
    <3>1. slots'["ImageView"] = <<>>
      BY <1>1, <1>6, <2>1, <2>2, <2>3 DEF ViewsHoldImages
    <3> QED BY <1>9, <2>3, <3>1 DEF ViewsFit
  <2>4. CASE kind # "Image"
    <3>1. \A view : ViewError(view)' = ViewError(view)
      BY <1>6, <2>2, <2>4, ViewErrorOfImages
    <3>2. CASE kind = "ImageView"
      <4>1. \A n \in 1 .. tables["ImageView"].count : ViewError(Fields("ImageView", n))' = "none"
        <5>1. \A n : Fields("ImageView", n)' = Fields("ImageView", n)
          BY <1>1 DEF Fields
        <5> QED BY <2>1, <3>1, <3>2, <5>1 DEF ViewsFit
      <4>2. slot \in 1 .. tables["ImageView"].count
        BY <1>1, <3>2, <2>2, FieldsOfWritten DEF ResourceInv
      <4>3. ViewError(after[slot].fields) = "none"
        BY <1>1, <1>5, <1>8, <2>1, <3>2, <4>2 DEF ViewsFit
      <4>4. \A n \in DOMAIN after : ViewError(after[n].fields) = "none"
        BY <1>5, <1>7, <2>1, <3>2, <4>3 DEF ViewsFit
      <4> QED BY <1>1, <1>6, <3>1, <3>2, <4>1, <4>4 DEF ViewsFit
    <3>3. CASE kind # "ImageView"
      BY <1>6, <1>9, <2>1, <2>2, <3>1, <3>3 DEF ViewsFit
    <3> QED BY <3>2, <3>3
  <2> QED BY <2>3, <2>4
<1> QED
  BY <1>10, <1>11, <1>12, <1>13, <1>14, <1>15, <1>16, <1>17, <1>18 DEF ResourceInv

-----------------------------------------------------------------------------
(* The theorems.                                                           *)

LEMMA ResourceStep == ResourceInv /\ [Next]_<<tableVars, resourceVars>> => ResourceInv'
<1> SUFFICES ASSUME ResourceInv, [Next]_<<tableVars, resourceVars>> PROVE ResourceInv'
  OBVIOUS
<1>1. CASE Author
  BY <1>1, AuthorStep
<1>2. CASE Materialise
  <2>1. ~plan.isDamaged /\ UNCHANGED tableVars
    BY <1>2 DEF Materialise
  <2>2. CASE \E kind \in DOMAIN plan.offered \cap ResourceKinds : BeginCreate(kind)
    BY <2>1, <2>2, BeginCreateStep
  <2>3. CASE \E keeps \in BOOLEAN : BeginCreateViews(keeps)
    BY <2>1, <2>3, BeginCreateViewsStep
  <2>4. CASE SkipImported
    BY <2>1, <2>4, SkipImportedStep
  <2>5. CASE CallSucceeds
    BY <2>1, <2>5, ShaderModuleStep, HandleStep
  <2>6. CASE CreateFails
    BY <2>1, <2>6, CreateFailsStep
  <2>7. CASE FinishCreate
    BY <2>1, <2>7, FinishCreateStep
  <2>8. CASE \E kind \in ResourceKinds : Release(kind)
    BY <2>1, <2>8, ReleaseStep
  <2> QED BY <1>2, <2>2, <2>3, <2>4, <2>5, <2>6, <2>7, <2>8 DEF Materialise
<1>3. CASE UNCHANGED <<tableVars, resourceVars>>
  <2>1. /\ plan' = plan /\ pending' = pending /\ tables' = tables
        /\ creating' = creating /\ slots' = slots /\ exists' = exists
        /\ callerHolds' = callerHolds /\ live' = live /\ scratch' = scratch
    BY <1>3 DEF tableVars, resourceVars
  <2>2. TablesWritten' /\ ResourceTypeOK' /\ DamagedIsNotMaterialised'
    BY <2>1
       DEF ResourceInv, TablesWritten, Offered, ResourceTypeOK, DamagedIsNotMaterialised
  <2>3. SlotInProgress' /\ ScratchOfCurrentSlot' /\ NothingLeaks'
    BY <2>1 DEF ResourceInv, SlotInProgress, CurrentSteps, Imported, Fields,
                ScratchOfCurrentSlot, NothingLeaks, Held
  <2>4. ImageHandles' /\ OnlyViewsAreViews' /\ ViewsHoldImages'
    BY <2>1 DEF ResourceInv, ImageHandles, OnlyViewsAreViews, ViewsHoldImages
  <2>5. ViewsFit'
    <3>1. \A view : ViewError(view)' = ViewError(view)
      BY <2>1 DEF ViewError
    <3>2. \A k, n : Fields(k, n)' = Fields(k, n)
      BY <2>1 DEF Fields
    <3>3. ViewsFit
      BY DEF ResourceInv
    <3> QED BY <2>1, <3>1, <3>2, <3>3 DEF ViewsFit
  <2> QED BY <2>2, <2>3, <2>4, <2>5 DEF ResourceInv
<1> QED BY <1>1, <1>2, <1>3 DEF Next

LEMMA ResourceInvariant == Spec => []ResourceInv
BY ResourceInit, ResourceStep, PTL DEF Spec

\* Whatever call fails and whoever lets go first, the driver has exactly the
\* objects that some table, or the creation that is running, will destroy.
\* (the five createFromTable and their destructors)
THEOREM NothingIsLeaked == Spec => []NothingLeaks
<1>1. ResourceInv => NothingLeaks
  BY DEF ResourceInv
<1> QED BY <1>1, ResourceInvariant, PTL

\* A view that passed the preflight fits its image, in levels, layers and format.
LEMMA FittingView ==
    ASSUME ResourceTypeOK, NEW n \in DOMAIN slots["ImageView"],
           ViewError(slots["ImageView"][n].fields) = "none"
    PROVE  LET view == slots["ImageView"][n].fields
               image == slots["Image"][view.imageSlot + 1].fields
           IN  /\ view.imageSlot + 1 \in DOMAIN slots["Image"]
               /\ view.imageSlot < Len(slots["Image"])
               /\ slots["Image"][view.imageSlot + 1].isBound
               /\ view.format = image.format
               /\ view.baseMipLevel + view.mipLevelCount <= image.mipLevelCount
               /\ view.baseArrayLayer + view.arrayLayerCount <= image.arrayLayerCount
<1> DEFINE view == slots["ImageView"][n].fields
           images == slots["Image"]
           image == images[view.imageSlot + 1].fields
<1>1. images \in Seq(SlotsOf("Image")) /\ slots["ImageView"] \in Seq(SlotsOf("ImageView"))
  BY DEF ResourceTypeOK, ResourceKinds
<1>2. /\ view.imageSlot \in Int /\ view.imageSlot >= 0
      /\ view.baseMipLevel \in Int /\ view.mipLevelCount \in Int
      /\ view.baseArrayLayer \in Int /\ view.arrayLayerCount \in Int
  <2>1. slots["ImageView"][n] \in SlotsOf("ImageView")
    BY <1>1
  <2>2. view \in [EntryFields["ImageView"] -> Word]
    BY <2>1 DEF SlotsOf
  <2>3. {"imageSlot", "baseMipLevel", "mipLevelCount", "baseArrayLayer", "arrayLayerCount"}
            \subseteq EntryFields["ImageView"]
    BY DEF EntryFields
  <2>4. \A word \in Word : word \in Int /\ word >= 0
    BY ModulusAssumption DEF Word
  <2> HIDE DEF view
  <2> QED BY <2>2, <2>3, <2>4
<1>3. view.imageSlot < Len(images) /\ view.imageSlot + 1 \in DOMAIN images
  <2>1. view.imageSlot >= Len(images) => ViewError(view) = "SourceImageSlotOutOfRange"
    BY DEF ViewError
  <2>2. Len(images) \in Nat
    BY <1>1
  <2> QED BY <1>1, <1>2, <2>1, <2>2
<1>4. image.mipLevelCount \in Int /\ image.arrayLayerCount \in Int
  <2>1. images[view.imageSlot + 1] \in SlotsOf("Image")
    BY <1>1, <1>3
  <2>2. image \in [EntryFields["Image"] -> Word]
    BY <2>1 DEF SlotsOf
  <2>3. {"mipLevelCount", "arrayLayerCount"} \subseteq EntryFields["Image"]
    BY DEF EntryFields
  <2>4. \A word \in Word : word \in Int
    BY ModulusAssumption DEF Word
  <2> HIDE DEF image
  <2> QED BY <2>2, <2>3, <2>4
<1> DEFINE unbound == ~images[view.imageSlot + 1].isBound
           otherFormat == view.format # image.format
           otherAspects == view.aspectMask \notin FormatAspects(image.format)
           otherKind == view.imageViewKind # image.imageKind
           outside ==
                \/ ~IsRangeWithinLimit(view.baseMipLevel, view.mipLevelCount, image.mipLevelCount)
                \/ ~IsRangeWithinLimit(view.baseArrayLayer, view.arrayLayerCount,
                                       image.arrayLayerCount)
           noViews == ~UsageAllowsViews(image.usageFlags)
           tests == <<
                <<unbound, "SourceImageSlotUnbound">>,
                <<otherFormat, "SourceImageFormatMismatch">>,
                <<otherAspects, "SourceImageAspectMismatch">>,
                <<otherKind, "SourceImageKindMismatch">>,
                <<outside, "SourceImageSubresourceRangeOutOfBounds">>,
                <<noViews, "SourceImageUsageDoesNotSupportImageViews">> >>
<1>5. FirstOf(tests) = "none"
  BY <1>1, <1>2, <1>3 DEF ViewError
<1> HIDE DEF unbound, otherFormat, otherAspects, otherKind, outside, noViews
<1>6. ~unbound /\ ~otherFormat /\ ~outside
  <2>1. DOMAIN tests = 1 .. 6 /\ \A i \in 1 .. 6 : tests[i][2] # "none"
    OBVIOUS
  <2>2. tests[1][1] = unbound /\ tests[2][1] = otherFormat /\ tests[5][1] = outside
    OBVIOUS
  <2> HIDE DEF tests
  <2>3. \A i \in 1 .. 6 : ~tests[i][1]
    BY <1>5, <2>1, FirstOfFails
  <2> QED BY <2>2, <2>3
<1>7. /\ view.baseMipLevel + view.mipLevelCount <= image.mipLevelCount
      /\ view.baseArrayLayer + view.arrayLayerCount <= image.arrayLayerCount
  <2>1. ASSUME NEW base \in Int, NEW count \in Int, NEW limit \in Int,
               IsRangeWithinLimit(base, count, limit)
        PROVE  base + count <= limit
    BY <2>1 DEF IsRangeWithinLimit
  <2>2. /\ IsRangeWithinLimit(view.baseMipLevel, view.mipLevelCount, image.mipLevelCount)
        /\ IsRangeWithinLimit(view.baseArrayLayer, view.arrayLayerCount,
                              image.arrayLayerCount)
    BY <1>6 DEF outside
  <2> HIDE DEF view, image
  <2> QED BY <1>2, <1>4, <2>1, <2>2
<1> QED BY <1>3, <1>6, <1>7 DEF unbound, otherFormat

\* Views never outlive their images, and span levels and layers these have.
\* (VulkanImageViewTable::createFromTable, its shared ownership of the images)
THEOREM ViewsHaveImages == Spec => []ViewsOfLiveImages
<1>1. ResourceInv => ViewsOfLiveImages
  <2> SUFFICES ASSUME ResourceInv, NEW object \in live, object.name = "view"
               PROVE  LET view == slots["ImageView"][object.slot].fields
                          image == slots["Image"][view.imageSlot + 1].fields
                      IN  /\ view.imageSlot < Len(slots["Image"])
                          /\ {Object("Image", view.imageSlot + 1, "image"),
                              Object("Image", view.imageSlot + 1, "memory")} \subseteq live
                          /\ view.format = image.format
                          /\ view.baseMipLevel + view.mipLevelCount <= image.mipLevelCount
                          /\ view.baseArrayLayer + view.arrayLayerCount
                                <= image.arrayLayerCount
    BY DEF ViewsOfLiveImages
  <2> DEFINE n == object.slot
             m == slots["ImageView"][n].fields.imageSlot + 1
  <2>1. live = (UNION {Held(kind) : kind \in ResourceKinds}) \cup scratch
    BY DEF ResourceInv, NothingLeaks
  <2>2. object \notin scratch
    BY DEF ResourceInv, ResourceTypeOK, ShaderModules
  <2>3. PICK kind \in ResourceKinds : object \in Held(kind)
    BY <2>1, <2>2
  <2>4. \A k \in ResourceKinds : slots[k] \in Seq(SlotsOf(k))
    BY DEF ResourceInv, ResourceTypeOK
  <2>5. n \in DOMAIN slots[kind] /\ "view" \in slots[kind][n].handles
    BY <2>3, <2>4, HeldObjects, HeldByItsTable
  <2>6. kind = "ImageView"
    BY <2>5 DEF ResourceInv, OnlyViewsAreViews
  <2>7. n \in DOMAIN slots["ImageView"] /\ ViewError(slots["ImageView"][n].fields) = "none"
    BY <2>5, <2>6 DEF ResourceInv, ViewsFit
  <2>8. ResourceTypeOK
    BY DEF ResourceInv
  <2>9. m \in DOMAIN slots["Image"] /\ slots["Image"][m].isBound
    BY <2>7, <2>8, FittingView
  <2>10. {"image", "memory"} \subseteq slots["Image"][m].handles
    BY <2>9 DEF ResourceInv, ImageHandles
  <2>11. {Object("Image", m, "image"), Object("Image", m, "memory")} \subseteq live
    <3> HIDE DEF m
    <3>1. {Object("Image", m, "image"), Object("Image", m, "memory")} \subseteq Held("Image")
      BY <2>9, <2>10, HeldByMembers, HeldByItsTable
    <3>2. "Image" \in ResourceKinds
      BY DEF ResourceKinds
    <3> QED BY <2>1, <3>1, <3>2
  <2> QED BY <2>7, <2>8, <2>11, FittingView
<1> QED BY <1>1, ResourceInvariant, PTL
-----------------------------------------------------------------------------
(* The tables themselves: what the writers took, and what damage leaves.   *)

TablesFormed ==
    /\ tables = [kind \in Kinds |-> tables[kind]]
    /\ \A kind \in Kinds :
        /\ \A n \in 1 .. Len(pending[kind]) : IsTaken(kind, pending[kind][n])
        /\ Formed(kind, pending[kind], tables[kind])

LEMMA TablesFormedInit == Init => TablesFormed
<1> SUFFICES ASSUME Init PROVE TablesFormed
  OBVIOUS
<1>1. /\ pending = [kind \in Kinds |-> <<>>]
      /\ tables = [kind \in Kinds |-> Written(kind, <<>>)]
  BY DEF Init, InitTables
<1>2. ASSUME NEW kind \in Kinds PROVE Formed(kind, <<>>, Written(kind, <<>>))
  <2>1. <<>> \in Seq({}) /\ \A n \in 1 .. Len(<<>>) : IsTaken(kind, <<>>[n])
    OBVIOUS
  <2> QED BY <2>1, WrittenIsFormed
<1>3. \A kind \in Kinds : \A n \in 1 .. Len(pending[kind]) : IsTaken(kind, pending[kind][n])
  BY <1>1
<1> QED BY <1>1, <1>2, <1>3 DEF TablesFormed

\* One more entry leaves the table of the entries taken so far.
LEMMA AddEntryForms ==
    ASSUME TablesWritten, TablesFormed, NEW kind \in DOMAIN plan.offered,
           NEW entry \in plan.offered[kind], AddEntry(kind, entry)
    PROVE  TablesFormed'
<1>1. kind \in Kinds /\ IsEntry(kind, entry) /\ entry \in Offered(kind)
  BY PlansAssumption DEF TablesWritten, Offered
<1>2. /\ pending' = [pending EXCEPT ![kind] = Append(@, entry)]
      /\ tables' = [tables EXCEPT ![kind] = Written(kind, pending'[kind])]
      /\ Writable(kind, entry)
  BY DEF AddEntry
<1>3. pending[kind] \in Seq(Offered(kind))
  BY <1>1 DEF TablesWritten
<1>4. pending'[kind] = Append(pending[kind], entry)
  BY <1>1, <1>2 DEF TablesWritten
<1>5. \A n \in 1 .. Len(pending'[kind]) : IsTaken(kind, pending'[kind][n])
  <2>1. IsTaken(kind, entry)
    BY <1>1, <1>2 DEF IsTaken
  <2>2. \A n \in 1 .. Len(pending[kind]) : IsTaken(kind, pending[kind][n])
    BY <1>1 DEF TablesFormed
  <2> QED BY <1>1, <1>3, <1>4, <2>1, <2>2
<1>6. pending'[kind] \in Seq(Offered(kind))
  BY <1>1, <1>3, <1>4
<1>7. Formed(kind, pending'[kind], Written(kind, pending'[kind]))
  BY <1>1, <1>5, <1>6, WrittenIsFormed
<1>8. /\ tables' = [k \in Kinds |-> tables'[k]]
      /\ tables'[kind] = Written(kind, pending'[kind])
      /\ \A k \in Kinds \ {kind} : tables'[k] = tables[k] /\ pending'[k] = pending[k]
  BY <1>1, <1>2 DEF TablesFormed, TablesWritten
<1> QED BY <1>5, <1>7, <1>8 DEF TablesFormed

\* Whatever word or offset the damage leaves, the records stay records of words.
LEMMA DamageForms ==
    ASSUME TablesWritten, TablesFormed, NEW kind \in Kinds, ChangeTable(kind)
    PROVE  TablesFormed'
<1> DEFINE table == tables[kind]
           entries == pending[kind]
<1>1. /\ entries \in Seq(Offered(kind)) /\ entries # <<>>
      /\ \A n \in 1 .. Len(entries) : IsTaken(kind, entries[n])
      /\ table = Written(kind, entries)
      /\ pending' = pending
  BY DEF ChangeTable, TablesFormed, TablesWritten
<1>2. DOMAIN table.directory = 1 .. Len(entries)
  BY <1>1, WrittenIsFormed
<1>3. /\ table.byteSize \in Nat /\ table.count \in Nat
  BY DEF TablesFormed, Formed
<1>4. ASSUME NEW after, Becomes(kind, after), Formed(kind, entries, after)
      PROVE  TablesFormed'
  <2>1. tables' = [tables EXCEPT ![kind] = after]
    BY <1>4 DEF Becomes
  <2>2. /\ tables' = [k \in Kinds |-> tables'[k]]
        /\ tables'[kind] = after
        /\ \A k \in Kinds \ {kind} : tables'[k] = tables[k]
    BY <2>1 DEF TablesFormed
  <2> QED BY <1>1, <1>4, <2>2 DEF TablesFormed
<1>5. CASE Becomes(kind, [table EXCEPT !.reservedFlags = 1])
  BY <1>1, <1>4, <1>5, DamagedIsFormed
<1>6. CASE \E n \in (0 .. table.count - 1) \cup {Modulus \div 2} :
                Becomes(kind, [table EXCEPT !.count = n])
  <2>1. PICK n \in (0 .. table.count - 1) \cup {Modulus \div 2} :
                Becomes(kind, [table EXCEPT !.count = n])
    BY <1>6
  <2>2. n \in Nat
    BY <1>3, ModulusAssumption
  <2>3. Formed(kind, entries, [table EXCEPT !.count = n])
    BY <1>1, <2>2, DamagedIsFormed
  <2> QED BY <1>4, <2>1, <2>3
<1>7. CASE \E n \in DOMAIN table.directory, field \in DOMAIN FieldValues[kind] :
                \E v \in FieldValues[kind][field] :
                    Becomes(kind, [table EXCEPT !.directory[n].fields[field] = v])
  <2>1. PICK n \in DOMAIN table.directory, field \in DOMAIN FieldValues[kind] :
                \E v \in FieldValues[kind][field] :
                    Becomes(kind, [table EXCEPT !.directory[n].fields[field] = v])
    BY <1>7
  <2>2. PICK v \in FieldValues[kind][field] :
                    Becomes(kind, [table EXCEPT !.directory[n].fields[field] = v])
    BY <2>1
  <2>3. Formed(kind, entries, [table EXCEPT !.directory[n].fields[field] = v])
    BY <1>1, <1>2, DamagedIsFormed
  <2> QED BY <1>4, <2>2, <2>3
<1>8. CASE \E n \in DOMAIN table.directory, v \in {0, 4, table.byteSize, Modulus - 8} :
                /\ kind \in RegionKinds
                /\ Becomes(kind, [table EXCEPT !.directory[n].byteOffset = v])
  <2>1. PICK n \in DOMAIN table.directory, v \in {0, 4, table.byteSize, Modulus - 8} :
                Becomes(kind, [table EXCEPT !.directory[n].byteOffset = v])
    BY <1>8
  <2>2. v \in Nat
    BY <1>3, ModulusAssumption
  <2>3. Formed(kind, entries, [table EXCEPT !.directory[n].byteOffset = v])
    BY <1>1, <1>2, <2>2, DamagedIsFormed
  <2> QED BY <1>4, <2>1, <2>3
<1>9. CASE \E p \in table.placed : \E field \in DOMAIN PartValues[kind] \cap DOMAIN p.part :
                \E v \in PartValues[kind][field] :
                    Becomes(kind, [table EXCEPT !.placed =
                                        (@ \ {p}) \cup {[p EXCEPT !.part[field] = v]}])
  <2>1. PICK p \in table.placed :
            \E field \in DOMAIN PartValues[kind] \cap DOMAIN p.part :
                \E v \in PartValues[kind][field] :
                    Becomes(kind, [table EXCEPT !.placed =
                                        (@ \ {p}) \cup {[p EXCEPT !.part[field] = v]}])
    BY <1>9
  <2>2. PICK field \in DOMAIN PartValues[kind] \cap DOMAIN p.part :
                \E v \in PartValues[kind][field] :
                    Becomes(kind, [table EXCEPT !.placed =
                                        (@ \ {p}) \cup {[p EXCEPT !.part[field] = v]}])
    BY <2>1
  <2>3. PICK v \in PartValues[kind][field] :
                    Becomes(kind, [table EXCEPT !.placed =
                                        (@ \ {p}) \cup {[p EXCEPT !.part[field] = v]}])
    BY <2>2
  <2>4. Formed(kind, entries, [table EXCEPT !.placed =
                                        (@ \ {p}) \cup {[p EXCEPT !.part[field] = v]}])
    BY <1>1, DamagedIsFormed
  <2> QED BY <1>4, <2>3, <2>4
<1> QED BY <1>5, <1>6, <1>7, <1>8, <1>9 DEF ChangeTable

LEMMA TablesFormedStep ==
    ResourceInv /\ TablesFormed /\ [Next]_<<tableVars, resourceVars>> => TablesFormed'
<1> SUFFICES ASSUME ResourceInv, TablesFormed, [Next]_<<tableVars, resourceVars>>
             PROVE  TablesFormed'
  OBVIOUS
<1>1. TablesWritten
  BY DEF ResourceInv
<1>2. CASE UNCHANGED tableVars
  BY <1>2 DEF tableVars, TablesFormed
<1>3. CASE \E kind \in DOMAIN plan.offered : \E entry \in plan.offered[kind] :
                AddEntry(kind, entry)
  BY <1>1, <1>3, AddEntryForms
<1>4. CASE \E kind \in Kinds : ChangeTable(kind)
  BY <1>1, <1>4, DamageForms
<1> QED BY <1>2, <1>3, <1>4 DEF Next, Author, Materialise, tableVars

LEMMA TablesAreFormed == Spec => [](ResourceInv /\ TablesFormed)
<1>1. Init => ResourceInv /\ TablesFormed
  BY ResourceInit, TablesFormedInit
<1>2. ResourceInv /\ TablesFormed /\ [Next]_<<tableVars, resourceVars>>
        => (ResourceInv /\ TablesFormed)'
  BY ResourceStep, TablesFormedStep
<1> QED BY <1>1, <1>2, PTL DEF Spec

\* What a writer emits its validator accepts and its view decodes, slot by slot.
\* (the table writers' writeTo, the validators and the views)
THEOREM EmittedTablesPass == Spec => []WrittenTablesAreAccepted
<1>1. ResourceInv /\ TablesFormed => WrittenTablesAreAccepted
  <2> SUFFICES ASSUME ResourceInv, TablesFormed, NEW kind \in Kinds,
                      tables[kind] = Written(kind, pending[kind]),
                      \A n \in DOMAIN pending[kind] :
                            ~UnknownToValidator(kind, pending[kind][n])
               PROVE  /\ TableError(kind, tables[kind]) = "none"
                      /\ \A n \in DOMAIN pending[kind] :
                            Decoded(kind, tables[kind], n) = pending[kind][n]
    BY DEF WrittenTablesAreAccepted
  <2>1. pending[kind] \in Seq(Offered(kind))
    BY DEF ResourceInv, TablesWritten
  <2>2. DOMAIN pending[kind] = 1 .. Len(pending[kind])
    BY <2>1
  <2>3. \A n \in 1 .. Len(pending[kind]) : IsTaken(kind, pending[kind][n])
    BY DEF TablesFormed
  <2>4. TableError(kind, tables[kind]) = "none"
    BY <2>1, <2>2, <2>3, WrittenPasses
  <2>5. \A n \in 1 .. Len(pending[kind]) :
            Decoded(kind, tables[kind], n) = pending[kind][n]
    BY <2>1, <2>3, DecodedIsWritten
  <2> QED BY <2>2, <2>4, <2>5
<1> QED BY <1>1, TablesAreFormed, PTL

\* An accepted table could have been written, whatever happened to it on the way.
\* (the validators of the eight tables against the argument checks in Java)
THEOREM AcceptedTablesAreWritable == Spec => []AcceptedTablesCouldBeWritten
<1>1. ResourceInv /\ TablesFormed => AcceptedTablesCouldBeWritten
  <2> SUFFICES ASSUME ResourceInv, TablesFormed, NEW kind \in Kinds,
                      TableError(kind, tables[kind]) = "none",
                      NEW n \in 1 .. tables[kind].count
               PROVE  LET table == tables[kind]
                          entry == Decoded(kind, table, n)
                          record == table.directory[n]
                      IN  /\ kind \in RegionKinds =>
                                /\ record.byteOffset >= DirectoryEnd(kind, table.count)
                                /\ record.byteOffset + RegionByteSize(kind, record.fields)
                                    <= table.byteSize
                          /\ \/ Writable(kind, entry)
                             \/ NotFromJava(kind, entry)
    BY DEF AcceptedTablesCouldBeWritten, NotFromJava
  <2> DEFINE table == tables[kind]
             record == table.directory[n]
  <2>1. pending[kind] \in Seq(Offered(kind)) /\ Formed(kind, pending[kind], table)
    BY DEF ResourceInv, TablesWritten, TablesFormed
  <2>2. table.count <= Len(pending[kind]) /\ EntryError(kind, table, n) = "none"
    BY <2>1, AcceptedEntries
  <2>3. table.count \in Nat /\ table.byteSize \in Nat /\ Len(pending[kind]) \in Nat
    BY <2>1 DEF Formed
  <2>4. n \in 1 .. Len(pending[kind])
    BY <2>2, <2>3
  <2>5. /\ record.fields \in [EntryFields[kind] -> Word]
        /\ record.byteOffset \in Nat
        /\ \A p \in table.placed : p.part \in [DOMAIN p.part -> Word]
    BY <2>1, <2>4 DEF Formed
  <2>6. ASSUME kind \in RegionKinds
        PROVE  /\ record.byteOffset >= DirectoryEnd(kind, table.count)
               /\ record.byteOffset + RegionByteSize(kind, record.fields) <= table.byteSize
    <3>1. ~RegionMisplaced(kind, table, record)
      BY <2>2, <2>5, <2>6, AcceptedRegionInPlace DEF RegionInPlace
    <3>2. RegionByteSize(kind, record.fields) \in Nat
      BY <2>5, <2>6, FieldsOfRegions DEF RegionByteSize, RegionKinds
    <3>3. DirectoryEnd(kind, table.count) \in Nat
      BY <2>3, DirectoryEndAligned
    <3> HIDE DEF table, record
    <3> QED BY <2>3, <2>5, <3>1, <3>2, <3>3 DEF RegionMisplaced
  <2>7. Writable(kind, Decoded(kind, table, n)) \/ NotFromJava(kind, Decoded(kind, table, n))
    BY <2>2, <2>5, AcceptedEntryWritable
  <2> QED BY <2>6, <2>7
<1> QED BY <1>1, TablesAreFormed, PTL
=============================================================================
