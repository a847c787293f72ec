------------------------ MODULE CommandRecorder_proofs ------------------------
(***************************************************************************)
(* Theorems about CommandRecorder, for every stream, every set of tables   *)
(* and every bound.                                                        *)
(***************************************************************************)
EXTENDS CommandRecorder, WellFoundedInduction, TLAPS

LessThan == {p \in Nat \X Nat : p[1] < p[2]}

\* A property that fails for some number fails for a least one.
LEMMA LeastNumber ==
    ASSUME NEW S, S \subseteq Nat, S # {}
    PROVE  \E n \in S : \A m \in S : n <= m
<1>1. IsWellFoundedOn(LessThan, Nat)
  <2>1. OpToRel(<, Nat) = LessThan
    BY DEF OpToRel, LessThan
  <2> QED BY <2>1, NatLessThanWellFounded
<1>2. PICK n \in S : \A m \in S : <<m, n>> \notin LessThan
  BY <1>1, WFMin
<1>3. \A m \in S : n <= m
  <2> TAKE m \in S
  <2>1. n \in Nat /\ m \in Nat /\ <<m, n>> \notin LessThan
    BY <1>2
  <2> QED BY <2>1 DEF LessThan
<1> QED BY <1>3

(***************************************************************************)
(* What an accepted command says of the walk's state.                      *)
(***************************************************************************)
LEMMA DrawAccepted ==
    ASSUME NEW c, c.op \in Draws, CommandError(c) = "none"
    PROVE  /\ hasOpenRenderingScope
           /\ hasBoundGraphicsPipeline
           /\ hasSetViewport
           /\ hasSetScissor
<1>1. DrawError = "none"
  BY DEF Draws, CommandError, DrawIndirectError, ??
<1>2. QED
  BY <1>1 DEF DrawError, ScopeError, Refuse, ??

LEMMA BeginAccepted ==
    ASSUME NEW c, c.op = "BeginRendering", CommandError(c) = "none"
    PROVE  /\ ~hasOpenRenderingScope
           /\ inputs.templates # NoTable
           /\ c.slot \in DOMAIN inputs.templates
<1>1. BeginRenderingError(c) = "none"
  BY DEF CommandError
<1>2. QED
  BY <1>1 DEF BeginRenderingError, SlotError, Refuse, ??

LEMMA EndAccepted ==
    ASSUME NEW c, c.op = "EndRendering", CommandError(c) = "none"
    PROVE  hasOpenRenderingScope
BY DEF CommandError, EndRenderingError, Refuse

LEMMA BindComputeAccepted ==
    ASSUME NEW c, c.op = "BindComputePipeline", CommandError(c) = "none"
    PROVE  /\ inputs.pipelines # NoTable
           /\ c.slot \in DOMAIN inputs.pipelines
BY DEF CommandError, BindComputePipelineError, SlotError, Refuse

LEMMA BindGraphicsAccepted ==
    ASSUME NEW c, c.op = "BindGraphicsPipeline", CommandError(c) = "none"
    PROVE  /\ hasOpenRenderingScope
           /\ inputs.graphicsPipelines # NoTable
           /\ c.slot \in DOMAIN inputs.graphicsPipelines
           /\ ~FormatsDiffer(inputs.graphicsPipelines[c.slot],
                             inputs.templates[openRenderingTemplateSlot])
<1>1. BindGraphicsPipelineError(c) = "none"
  BY DEF CommandError
<1>2. QED
  BY <1>1 DEF BindGraphicsPipelineError, ScopeError, SlotError, Refuse, ??

LEMMA PushAccepted ==
    ASSUME NEW c, c.op = "PushBufferDeviceAddress", CommandError(c) = "none"
    PROVE  /\ pushTarget # NoTarget
           /\ ~(c.offset + AddressByteSize > boundPushConstantByteSize)
<1>1. PushBufferDeviceAddressError(c) = "none"
  BY DEF CommandError
<1>2. QED
  BY <1>1 DEF PushBufferDeviceAddressError, Refuse, ??

-----------------------------------------------------------------------------
(***************************************************************************)
(* Types.  Outside a call the walk's variables have their initial values,  *)
(* so nothing of one call reaches the next one.                            *)
(***************************************************************************)
Idle == phase # "recording" =>
    /\ ~hasOpenRenderingScope
    /\ ~hasBoundGraphicsPipeline
    /\ ~hasSetViewport
    /\ ~hasSetScissor
    /\ pushTarget = NoTarget

TypeInv == TypeOK /\ Idle

\* Recording a call appends it, with types kept.
LEMMA RecordTyped ==
    ASSUME TypeOK, NEW c \in Commands, Record(c)
    PROVE  /\ recorded' \in Seq(Calls)
           /\ Len(recorded') = Len(recorded) + 1
           /\ Len(recorded') <= MaxCommands
           /\ phase' = "recording" /\ phase = "recording"
           /\ inputs' = inputs /\ failure' = failure
           /\ failure.error = "none"
<1>1. [command |-> c, target |-> pushTarget] \in Calls
  BY DEF Calls, TypeOK
<1>2. recorded \in Seq(Calls)
  BY DEF TypeOK
<1>3. Len(recorded) + 1 <= MaxCommands
  BY <1>2, RecorderAssumption DEF Record
<1>4. phase = "recording" /\ failure.error = "none"
  BY DEF Record, TypeOK
<1>5. QED
  BY <1>1, <1>2, <1>3, <1>4 DEF Record

LEMMA FailTyped ==
    ASSUME TypeOK, NEW error, error # "none",
           NEW index \in (0 .. MaxCommands) \cup {NoCommandIndex},
           FailWith(error, index)
    PROVE  TypeInv'
<1>1. recorded' = <<>> /\ <<>> \in Seq(Calls) /\ Len(<<>>) = 0
  BY DEF FailWith
<1>2. /\ phase' = "failed" /\ inputs' = inputs
      /\ failure'.error = error /\ failure'.index = index
  BY DEF FailWith
<1>3. NoTarget \in Targets /\ NoTarget[1] = "none"
  BY DEF NoTarget, Targets
<1>4. Idle'
  BY DEF FailWith, ClearWalk, Idle
<1>5. /\ hasBoundComputePipeline' = FALSE
      /\ hasOpenRenderingScope' = FALSE
      /\ hasBoundGraphicsPipeline' = FALSE
      /\ hasSetViewport' = FALSE
      /\ hasSetScissor' = FALSE
      /\ pushTarget' = NoTarget
  BY DEF FailWith, ClearWalk
<1>6. TypeOK'
  <2>1. Len(recorded') <= MaxCommands
    BY <1>1, RecorderAssumption
  <2>2. /\ (phase = "failed" <=> failure.error # "none")'
        /\ (failure.index \in (0 .. MaxCommands) \cup {NoCommandIndex})'
    BY <1>2
  <2>3. /\ pushTarget' \in Targets
        /\ pushTarget'[1] = "none"
        /\ pushTarget' = NoTarget
    BY <1>3, <1>5
  <2>4. (phase \in Phases)' /\ (inputs \in Inputs)'
    BY <1>2 DEF TypeOK, Phases
  <2>5. QED
    BY <1>1, <1>5, <2>1, <2>2, <2>3, <2>4 DEF TypeOK
<1>7. QED
  BY <1>4, <1>6 DEF TypeInv

LEMMA InitTyped == Init => TypeInv
<1> SUFFICES ASSUME Init PROVE TypeInv
  OBVIOUS
<1>1. recorded = <<>> /\ <<>> \in Seq(Calls) /\ Len(<<>>) = 0
  BY DEF Init
<1>2. failure.index \in 0 .. MaxCommands /\ failure.error = "none"
  BY RecorderAssumption DEF Init, NoFailure
<1>3. pushTarget = NoTarget /\ NoTarget \in Targets /\ NoTarget[1] = "none"
  BY DEF Init, NoTarget, Targets
<1>4. Len(recorded) <= MaxCommands
  BY <1>1, RecorderAssumption
<1>5. TypeOK
  BY <1>1, <1>2, <1>3, <1>4 DEF Init, TypeOK, Phases
<1>6. QED
  BY <1>5 DEF Init, TypeInv, Idle

\* What the type invariant says of the variables that recording a call leaves
\* alone is kept by it.
LEMMA CommandTyped ==
    ASSUME TypeInv, NEW c \in Commands, RecordCommand(c)
    PROVE  TypeInv'
<1> USE DEF TypeInv
<1>1. CASE RefuseCommand(c)
  <2>1. Len(recorded) \in 0 .. MaxCommands
    BY RecorderAssumption DEF TypeOK
  <2>2. QED
    BY <1>1, <2>1, FailTyped DEF RefuseCommand
<1>2. ASSUME Record(c)
      PROVE  /\ phase' = "recording"
             /\ phase' \in Phases
             /\ inputs' = inputs
             /\ inputs' \in Inputs
             /\ recorded' \in Seq(Calls)
             /\ Len(recorded') <= MaxCommands
             /\ (failure.index \in (0 .. MaxCommands) \cup {NoCommandIndex})'
             /\ ((phase = "failed") <=> (failure.error # "none"))'
             /\ CommandError(c) = "none"
  BY <1>2, RecordTyped DEF TypeOK, Record, Phases
<1>3. CASE RecordStateless(c)
  BY <1>2, <1>3 DEF RecordStateless, walk, flags, TypeOK, Idle
<1>4. CASE BindComputePipeline(c)
  <2>1. /\ pushTarget' \in Targets
        /\ pushTarget'[1] = "compute"
        /\ pushTarget'[2] \in Slots(inputs.pipelines)
    BY <1>2, <1>4, BindComputeAccepted, RecorderAssumption
       DEF BindComputePipeline, Targets, Slots
  <2>2. QED
    BY <1>2, <1>4, <2>1 DEF BindComputePipeline, TypeOK, Idle
<1>5. CASE BeginRendering(c)
  <2>1. c.slot \in Slots(inputs.templates)
    BY <1>2, <1>5, BeginAccepted DEF BeginRendering, Slots
  <2>2. QED
    BY <1>2, <1>5, <2>1 DEF BeginRendering, TypeOK, Idle
<1>6. CASE EndRendering(c)
  BY <1>2, <1>6 DEF EndRendering, TypeOK, Idle
<1>7. CASE BindGraphicsPipeline(c)
  <2>1. /\ pushTarget' \in Targets
        /\ pushTarget'[1] = "graphics"
        /\ pushTarget'[2] \in Slots(inputs.graphicsPipelines)
    BY <1>2, <1>7, BindGraphicsAccepted, RecorderAssumption
       DEF BindGraphicsPipeline, Targets, Slots
  <2>2. QED
    BY <1>2, <1>7, <2>1 DEF BindGraphicsPipeline, TypeOK, Idle
<1>8. CASE SetViewport(c)
  BY <1>2, <1>8 DEF SetViewport, TypeOK, Idle
<1>9. CASE SetScissor(c)
  BY <1>2, <1>9 DEF SetScissor, TypeOK, Idle
<1>10. QED
  BY <1>1, <1>3, <1>4, <1>5, <1>6, <1>7, <1>8, <1>9 DEF RecordCommand

LEMMA NextTyped == TypeInv /\ [Next]_vars => TypeInv'
<1> SUFFICES ASSUME TypeInv, [Next]_vars PROVE TypeInv'
  OBVIOUS
<1>1. CASE BeginRecording
  BY <1>1 DEF BeginRecording, walk, flags, TypeInv, TypeOK, Idle, Phases
<1>2. CASE BeginRecordingFails
  <2>1. NoCommandIndex \in (0 .. MaxCommands) \cup {NoCommandIndex}
    OBVIOUS
  <2>2. QED
    BY <1>2, <2>1, FailTyped DEF BeginRecordingFails, TypeInv
<1>3. CASE \E c \in Commands : RecordCommand(c)
  BY <1>3, CommandTyped
<1>4. CASE EndRecording
  <2>1. /\ phase' = "executable" /\ phase # "failed" /\ phase' # "failed"
        /\ phase' \in Phases
    BY <1>4 DEF EndRecording, Phases
  <2>2. NoTarget \in Targets /\ NoTarget[1] = "none"
    BY DEF NoTarget, Targets
  <2>3. /\ UNCHANGED <<inputs, recorded, failure>>
        /\ hasBoundComputePipeline' = FALSE
        /\ hasOpenRenderingScope' = FALSE
        /\ hasBoundGraphicsPipeline' = FALSE
        /\ hasSetViewport' = FALSE
        /\ hasSetScissor' = FALSE
        /\ pushTarget' = NoTarget
    BY <1>4 DEF EndRecording, ClearWalk
  <2>4. QED
    BY <2>1, <2>2, <2>3 DEF TypeInv, TypeOK, Idle
<1>5. CASE EndRecordingFails
  <2>1. NoCommandIndex \in (0 .. MaxCommands) \cup {NoCommandIndex}
    OBVIOUS
  <2>2. QED
    BY <1>5, <2>1, FailTyped DEF EndRecordingFails, TypeInv
<1>6. CASE ResetCommandBuffer
  <2>1. /\ recorded' = <<>> /\ <<>> \in Seq(Calls) /\ Len(<<>>) = 0
        /\ Len(recorded') <= MaxCommands
    BY <1>6, RecorderAssumption DEF ResetCommandBuffer
  <2>2. (failure.index \in 0 .. MaxCommands /\ failure.error = "none")'
    BY <1>6, RecorderAssumption DEF ResetCommandBuffer, NoFailure
  <2>3. phase' = "initial" /\ phase # "recording" /\ inputs' \in Inputs
    BY <1>6 DEF ResetCommandBuffer
  <2>4. NoTarget[1] = "none"
    BY DEF NoTarget
  <2>5. QED
    BY <1>6, <2>1, <2>2, <2>3, <2>4
       DEF ResetCommandBuffer, walk, flags, TypeInv, TypeOK, Idle, Phases
<1>7. CASE UNCHANGED vars
  BY <1>7 DEF vars, walk, flags, TypeInv, TypeOK, Idle
<1>8. QED
  BY <1>1, <1>2, <1>3, <1>4, <1>5, <1>6, <1>7 DEF Next

\* The recorder keeps its types: what it remembers of scopes and pipelines
\* always names an entry of the tables of this call.
THEOREM RecorderTypeCorrect == Spec => []TypeOK
<1>1. TypeInv => TypeOK
  BY DEF TypeInv
<1>2. QED
  BY InitTyped, NextTyped, <1>1, PTL DEF Spec

-----------------------------------------------------------------------------
(***************************************************************************)
(* The walk's flags and what was recorded.  The properties judge a call by *)
(* the calls before it; the flags are what the walk knows of those.        *)
(***************************************************************************)
Precedes(op) == \E j \in 1 .. Len(recorded) : Op(j) = op

ScopeKnown ==
    /\ hasOpenRenderingScope =>
         \E b \in 1 .. Len(recorded) :
            /\ ScopeAt(b, Len(recorded) + 1)
            /\ recorded[b].command.slot = openRenderingTemplateSlot
    /\ (phase = "recording" /\ ~hasOpenRenderingScope) =>
         \A b \in 1 .. Len(recorded) : ~ScopeAt(b, Len(recorded) + 1)

DrawStateKnown ==
    /\ hasBoundGraphicsPipeline => Precedes("BindGraphicsPipeline")
    /\ hasSetViewport => Precedes("SetViewport")
    /\ hasSetScissor => Precedes("SetScissor")

TargetKnown ==
    pushTarget # NoTarget =>
        \E b \in 1 .. Len(recorded) :
            /\ LastBefore(b, Len(recorded) + 1, Binds)
            /\ pushTarget = TargetOf(recorded[b].command)
            /\ boundPushConstantByteSize = PushRangeOf(recorded[b].command)

Knowledge ==
    /\ phase = "initial" => recorded = <<>>
    /\ ScopeKnown
    /\ DrawStateKnown
    /\ TargetKnown

CallsSafe ==
    /\ ScopesAlternate
    /\ DrawsAreComplete
    /\ BindsMatchScope
    /\ PushesReachBoundPipeline

RecorderInv == TypeInv /\ Knowledge /\ CallsSafe

(***************************************************************************)
(* Appending a call changes nothing about the calls before it.             *)
(***************************************************************************)
LEMMA Appended ==
    ASSUME TypeInv, NEW c \in Commands, Record(c),
           NEW n \in Nat, n = Len(recorded)
    PROVE  /\ DOMAIN recorded = 1 .. n
           /\ DOMAIN recorded' = 1 .. n + 1
           /\ Len(recorded') = n + 1
           /\ \A j \in 1 .. n : recorded'[j] = recorded[j]
           /\ recorded'[n + 1] = [command |-> c, target |-> pushTarget]
           /\ \A j \in 1 .. n : Op(j)' = Op(j)
           /\ Op(n + 1)' = c.op
<1>1. recorded \in Seq(Calls) /\ recorded' \in Seq(Calls)
  BY RecordTyped DEF TypeInv, TypeOK
<1>2. recorded' = Append(recorded, [command |-> c, target |-> pushTarget])
  BY DEF Record
<1>3. /\ DOMAIN recorded = 1 .. n
      /\ DOMAIN recorded' = 1 .. n + 1
      /\ Len(recorded') = n + 1
      /\ \A j \in 1 .. n : recorded'[j] = recorded[j]
      /\ recorded'[n + 1] = [command |-> c, target |-> pushTarget]
  BY <1>1, <1>2
<1>4. QED
  BY <1>3 DEF Op

LEMMA ScopeAppended ==
    ASSUME TypeInv, NEW c \in Commands, Record(c),
           NEW n \in Nat, n = Len(recorded)
    PROVE  /\ \A i \in 1 .. n + 1 : \A b \in 1 .. i - 1 :
                ScopeAt(b, i)' <=> ScopeAt(b, i)
           /\ \A b \in 1 .. n :
                ScopeAt(b, n + 2)' <=>
                   ScopeAt(b, n + 1) /\ c.op # "EndRendering"
           /\ ScopeAt(n + 1, n + 2)' <=> c.op = "BeginRendering"
<1>1. /\ \A j \in 1 .. n : Op(j)' = Op(j)
      /\ Op(n + 1)' = c.op
  BY Appended
<1>2. QED
  BY <1>1 DEF ScopeAt

LEMMA LastAppended ==
    ASSUME TypeInv, NEW c \in Commands, Record(c),
           NEW n \in Nat, n = Len(recorded)
    PROVE  /\ \A i \in 1 .. n + 1 : \A b \in 1 .. i - 1 :
                LastBefore(b, i, Binds)' <=> LastBefore(b, i, Binds)
           /\ \A b \in 1 .. n :
                LastBefore(b, n + 2, Binds)' <=>
                   LastBefore(b, n + 1, Binds) /\ c.op \notin Binds
           /\ LastBefore(n + 1, n + 2, Binds)' <=> c.op \in Binds
<1>1. /\ \A j \in 1 .. n : Op(j)' = Op(j)
      /\ Op(n + 1)' = c.op
  BY Appended
<1>2. QED
  BY <1>1 DEF LastBefore

LEMMA SequenceShape ==
    ASSUME NEW S, NEW s \in Seq(S)
    PROVE  /\ Len(s) \in Nat
           /\ DOMAIN s = 1 .. Len(s)
           /\ s = [i \in 1 .. Len(s) |-> s[i]]
OBVIOUS

LEMMA Concatenation ==
    ASSUME NEW S, NEW s \in Seq(S), NEW t \in Seq(S),
           NEW n \in Nat, n = Len(s), NEW m \in Nat, m = Len(t)
    PROVE  /\ DOMAIN (s \o t) = 1 .. n + m
           /\ \A i \in 1 .. n : (s \o t)[i] = s[i]
           /\ \A i \in 1 .. m : (s \o t)[n + i] = t[i]
OBVIOUS

\* The walk's comparison of formats, attachment by attachment, is equality of
\* the resolved formats.
LEMMA FormatsAgree ==
    ASSUME NEW pipeline, NEW template,
           pipeline.colors \in Seq(STRING), pipeline.depth \in Seq(STRING),
           template.colors \in Seq(Nat), template.depth \in Seq(Nat),
           ~FormatsDiffer(pipeline, template)
    PROVE  Compatible(pipeline, template)
<1>1. PICK n \in Nat, m \in Nat :
        n = Len(template.colors) /\ m = Len(template.depth)
  BY SequenceShape
<1>2. /\ Len(pipeline.colors) = n /\ Len(pipeline.depth) = m
      /\ DOMAIN template.colors = 1 .. n
      /\ DOMAIN template.depth = 1 .. m
  <2>1. Len(pipeline.colors) = n /\ Len(pipeline.depth) = m
    BY <1>1 DEF FormatsDiffer
  <2>2. DOMAIN template.colors = 1 .. Len(template.colors)
    BY SequenceShape
  <2>3. DOMAIN template.depth = 1 .. Len(template.depth)
    BY SequenceShape
  <2>4. QED
    BY <1>1, <2>1, <2>2, <2>3
<1>3. /\ DOMAIN Attachments(template) = 1 .. n + m
      /\ \A i \in 1 .. n : Attachments(template)[i] = template.colors[i]
      /\ \A i \in 1 .. m : Attachments(template)[n + i] = template.depth[i]
  <2>1. PICK s \in Seq(Nat), t \in Seq(Nat) :
          s = template.colors /\ t = template.depth
    OBVIOUS
  <2>2. n = Len(s) /\ m = Len(t)
    BY <1>1, <2>1
  <2>3. /\ DOMAIN (s \o t) = 1 .. n + m
        /\ \A i \in 1 .. n : (s \o t)[i] = s[i]
        /\ \A i \in 1 .. m : (s \o t)[n + i] = t[i]
    BY <2>2, Concatenation
  <2>4. QED
    BY <2>1, <2>3 DEF Attachments
<1>4. /\ \A i \in 1 .. n :
           (pipeline.colors \o pipeline.depth)[i] = pipeline.colors[i]
      /\ \A i \in 1 .. m :
           (pipeline.colors \o pipeline.depth)[n + i] = pipeline.depth[i]
  <2>1. PICK s \in Seq(STRING), t \in Seq(STRING) :
          s = pipeline.colors /\ t = pipeline.depth
    OBVIOUS
  <2>2. n = Len(s) /\ m = Len(t)
    BY <1>2, <2>1
  <2>3. /\ \A i \in 1 .. n : (s \o t)[i] = s[i]
        /\ \A i \in 1 .. m : (s \o t)[n + i] = t[i]
    BY <2>2, Concatenation
  <2>4. QED
    BY <2>1, <2>3
<1>5. ASSUME NEW i \in 1 .. n
      PROVE  inputs.views[template.colors[i]] = pipeline.colors[i]
  <2>1. i \in 1 .. n + m
    OBVIOUS
  <2>2. i \in DOMAIN Attachments(template)
    BY <1>3, <2>1
  <2>3. inputs.views[Attachments(template)[i]]
          = (pipeline.colors \o pipeline.depth)[i]
    BY <2>2 DEF FormatsDiffer
  <2>4. Attachments(template)[i] = template.colors[i]
    BY <1>3
  <2>5. (pipeline.colors \o pipeline.depth)[i] = pipeline.colors[i]
    BY <1>4
  <2>6. QED
    BY <2>3, <2>4, <2>5
<1>6. ASSUME NEW i \in 1 .. m
      PROVE  inputs.views[template.depth[i]] = pipeline.depth[i]
  <2>1. n + i \in 1 .. n + m
    OBVIOUS
  <2>2. n + i \in DOMAIN Attachments(template)
    BY <1>3, <2>1
  <2>3. inputs.views[Attachments(template)[n + i]]
          = (pipeline.colors \o pipeline.depth)[n + i]
    BY <2>2 DEF FormatsDiffer
  <2>4. Attachments(template)[n + i] = template.depth[i]
    BY <1>3
  <2>5. (pipeline.colors \o pipeline.depth)[n + i] = pipeline.depth[i]
    BY <1>4
  <2>6. QED
    BY <2>3, <2>4, <2>5
<1>7. /\ pipeline.colors = [i \in 1 .. n |-> pipeline.colors[i]]
      /\ pipeline.depth = [i \in 1 .. m |-> pipeline.depth[i]]
  BY <1>2, SequenceShape
<1>8. Formats(template.colors) = pipeline.colors
  BY <1>2, <1>5, <1>7 DEF Formats
<1>9. Formats(template.depth) = pipeline.depth
  BY <1>2, <1>6, <1>7 DEF Formats
<1>10. QED
  BY <1>8, <1>9 DEF Compatible

-----------------------------------------------------------------------------
(***************************************************************************)
(* Recording a call keeps the properties: for the calls before it because  *)
(* it is appended, for itself because of its tests and what the walk knows.*)
(***************************************************************************)
LEMMA ScopesKept ==
    ASSUME RecorderInv, NEW c \in Commands, Record(c)
    PROVE  ScopesAlternate'
<1>1. PICK n \in Nat : n = Len(recorded)
  BY DEF RecorderInv, TypeInv, TypeOK
<1> USE DEF RecorderInv, CallsSafe, Knowledge
<1>2. /\ DOMAIN recorded = 1 .. n
      /\ DOMAIN recorded' = 1 .. n + 1
      /\ \A j \in 1 .. n : Op(j)' = Op(j)
      /\ Op(n + 1)' = c.op
  BY <1>1, Appended
<1>3. \A i \in 1 .. n + 1 : \A b \in 1 .. i - 1 :
        ScopeAt(b, i)' <=> ScopeAt(b, i)
  BY <1>1, ScopeAppended
<1>4. ASSUME NEW i \in 1 .. n
      PROVE  /\ (Op(i) = "BeginRendering")' =>
                  ~\E b \in 1 .. i - 1 : ScopeAt(b, i)'
             /\ (Op(i) = "EndRendering")' =>
                  \E b \in 1 .. i - 1 : ScopeAt(b, i)'
  BY <1>2, <1>3 DEF ScopesAlternate
<1>5. phase = "recording" /\ CommandError(c) = "none"
  BY DEF Record
<1>6. c.op = "BeginRendering" => ~\E b \in 1 .. n : ScopeAt(b, n + 1)
  BY <1>1, <1>5, BeginAccepted DEF ScopeKnown
<1>7. c.op = "EndRendering" => \E b \in 1 .. n : ScopeAt(b, n + 1)
  BY <1>1, <1>5, EndAccepted DEF ScopeKnown
<1>8. /\ (Op(n + 1) = "BeginRendering")' =>
           ~\E b \in 1 .. n : ScopeAt(b, n + 1)'
      /\ (Op(n + 1) = "EndRendering")' =>
           \E b \in 1 .. n : ScopeAt(b, n + 1)'
  BY <1>2, <1>3, <1>6, <1>7
<1>9. QED
  BY <1>2, <1>4, <1>8 DEF ScopesAlternate

LEMMA DrawsKept ==
    ASSUME RecorderInv, NEW c \in Commands, Record(c)
    PROVE  DrawsAreComplete'
<1>1. PICK n \in Nat : n = Len(recorded)
  BY DEF RecorderInv, TypeInv, TypeOK
<1> USE DEF RecorderInv, CallsSafe, Knowledge
<1>2. /\ DOMAIN recorded = 1 .. n
      /\ DOMAIN recorded' = 1 .. n + 1
      /\ \A j \in 1 .. n : Op(j)' = Op(j)
      /\ Op(n + 1)' = c.op
  BY <1>1, Appended
<1>3. \A i \in 1 .. n + 1 : \A b \in 1 .. i - 1 :
        ScopeAt(b, i)' <=> ScopeAt(b, i)
  BY <1>1, ScopeAppended
<1> DEFINE Prepared(i) ==
             /\ \E b \in 1 .. i - 1 : ScopeAt(b, i)
             /\ {"BindGraphicsPipeline", "SetViewport", "SetScissor"}
                   \subseteq {Op(j) : j \in 1 .. i - 1}
<1>4. ASSUME NEW i \in 1 .. n + 1, Prepared(i)
      PROVE  Prepared(i)'
  BY <1>2, <1>3, <1>4
<1>5. ASSUME NEW i \in 1 .. n, (Op(i) \in Draws)'
      PROVE  Prepared(i)
  BY <1>2, <1>5 DEF DrawsAreComplete
<1>6. ASSUME (Op(n + 1) \in Draws)'
      PROVE  Prepared(n + 1)
  <2>1. c.op \in Draws /\ CommandError(c) = "none"
    BY <1>2, <1>6 DEF Record
  <2>2. \E b \in 1 .. n : ScopeAt(b, n + 1)
    BY <1>1, <2>1, DrawAccepted DEF ScopeKnown
  <2>3. {"BindGraphicsPipeline", "SetViewport", "SetScissor"}
           \subseteq {Op(j) : j \in 1 .. n}
    BY <1>1, <2>1, DrawAccepted DEF DrawStateKnown, Precedes
  <2>4. QED
    BY <2>2, <2>3
<1>7. ASSUME NEW i \in 1 .. n + 1, (Op(i) \in Draws)'
      PROVE  Prepared(i)'
  <2>1. Prepared(i)
    BY <1>5, <1>6, <1>7
  <2>2. QED
    BY <1>4, <2>1
<1>8. QED
  BY <1>2, <1>7 DEF DrawsAreComplete

LEMMA BindsKept ==
    ASSUME RecorderInv, NEW c \in Commands, Record(c)
    PROVE  BindsMatchScope'
<1>1. PICK n \in Nat : n = Len(recorded)
  BY DEF RecorderInv, TypeInv, TypeOK
<1> USE DEF RecorderInv, CallsSafe, Knowledge
<1>2. /\ DOMAIN recorded = 1 .. n
      /\ DOMAIN recorded' = 1 .. n + 1
      /\ \A j \in 1 .. n : recorded'[j] = recorded[j]
      /\ recorded'[n + 1].command = c
      /\ \A j \in 1 .. n : Op(j)' = Op(j)
      /\ Op(n + 1)' = c.op
  <2>1. recorded'[n + 1] = [command |-> c, target |-> pushTarget]
    BY <1>1, Appended
  <2>2. recorded'[n + 1].command = c
    BY <2>1
  <2>3. QED
    BY <1>1, <2>2, Appended
<1>3. \A i \in 1 .. n + 1 : \A b \in 1 .. i - 1 :
        ScopeAt(b, i)' <=> ScopeAt(b, i)
  BY <1>1, ScopeAppended
<1>4. inputs' = inputs /\ CommandError(c) = "none"
  BY DEF Record
<1> DEFINE Matches(bind, i) ==
             \E b \in 1 .. i - 1 :
                /\ ScopeAt(b, i)
                /\ Compatible(PipelineOf(bind),
                              TemplateOf(recorded[b].command))
<1>5. ASSUME NEW i \in 1 .. n + 1, NEW bind, Matches(bind, i)
      PROVE  Matches(bind, i)'
  <2>1. PICK b \in 1 .. i - 1 :
          /\ ScopeAt(b, i)
          /\ Compatible(PipelineOf(bind), TemplateOf(recorded[b].command))
    BY <1>5
  <2>2. ScopeAt(b, i)'
    BY <1>3, <2>1
  <2>3. recorded'[b] = recorded[b]
    BY <1>2
  <2>4. Compatible(PipelineOf(bind), TemplateOf(recorded[b].command))'
    BY <1>4, <2>1, <2>3 DEF Compatible, Formats, PipelineOf, TemplateOf
  <2>5. QED
    BY <2>2, <2>4
<1>6. ASSUME NEW i \in 1 .. n, (Op(i) = "BindGraphicsPipeline")'
      PROVE  Matches(recorded[i].command, i)
  BY <1>2, <1>6 DEF BindsMatchScope
<1>7. ASSUME (Op(n + 1) = "BindGraphicsPipeline")'
      PROVE  Matches(c, n + 1)
  <2>1. /\ hasOpenRenderingScope
        /\ inputs.graphicsPipelines # NoTable
        /\ c.slot \in DOMAIN inputs.graphicsPipelines
        /\ ~FormatsDiffer(PipelineOf(c),
                          inputs.templates[openRenderingTemplateSlot])
    BY <1>2, <1>4, <1>7, BindGraphicsAccepted DEF PipelineOf
  <2>2. PICK b \in 1 .. n :
          /\ ScopeAt(b, n + 1)
          /\ recorded[b].command.slot = openRenderingTemplateSlot
    BY <1>1, <2>1 DEF ScopeKnown
  <2>3. /\ inputs.templates # NoTable
        /\ openRenderingTemplateSlot \in DOMAIN inputs.templates
        /\ inputs \in Inputs
    BY <2>1 DEF TypeInv, TypeOK, Slots
  <2>4. /\ PipelineOf(c).colors \in Seq(STRING)
        /\ PipelineOf(c).depth \in Seq(STRING)
        /\ TemplateOf(recorded[b].command).colors \in Seq(Nat)
        /\ TemplateOf(recorded[b].command).depth \in Seq(Nat)
    BY <2>1, <2>2, <2>3, RecorderAssumption DEF PipelineOf, TemplateOf
  <2>5. ~FormatsDiffer(PipelineOf(c), TemplateOf(recorded[b].command))
    BY <2>1, <2>2 DEF TemplateOf
  <2>6. Compatible(PipelineOf(c), TemplateOf(recorded[b].command))
    BY <2>4, <2>5, FormatsAgree
  <2>7. QED
    BY <2>2, <2>6
<1>8. ASSUME NEW i \in 1 .. n + 1, (Op(i) = "BindGraphicsPipeline")'
      PROVE  Matches(recorded[i].command, i)'
  <2>1. CASE i \in 1 .. n
    <3>1. Matches(recorded[i].command, i)
      BY <1>6, <1>8, <2>1
    <3>2. recorded'[i] = recorded[i]
      BY <1>2, <2>1
    <3>3. QED
      BY <1>5, <3>1, <3>2
  <2>2. CASE i = n + 1
    BY <1>2, <1>5, <1>7, <1>8, <2>2
  <2>3. QED
    BY <2>1, <2>2
<1>9. QED
  BY <1>2, <1>8 DEF BindsMatchScope

LEMMA PushesKept ==
    ASSUME RecorderInv, NEW c \in Commands, Record(c)
    PROVE  PushesReachBoundPipeline'
<1>1. PICK n \in Nat : n = Len(recorded)
  BY DEF RecorderInv, TypeInv, TypeOK
<1> USE DEF RecorderInv, CallsSafe, Knowledge
<1>2. /\ DOMAIN recorded = 1 .. n
      /\ DOMAIN recorded' = 1 .. n + 1
      /\ \A j \in 1 .. n : recorded'[j] = recorded[j]
      /\ recorded'[n + 1] = [command |-> c, target |-> pushTarget]
      /\ \A j \in 1 .. n : Op(j)' = Op(j)
      /\ Op(n + 1)' = c.op
  BY <1>1, Appended
<1>3. \A i \in 1 .. n + 1 : \A b \in 1 .. i - 1 :
        LastBefore(b, i, Binds)' <=> LastBefore(b, i, Binds)
  BY <1>1, LastAppended
<1>4. inputs' = inputs /\ CommandError(c) = "none"
  BY DEF Record
<1> DEFINE Reaches(push, target, i) ==
             \E b \in 1 .. i - 1 :
                /\ LastBefore(b, i, Binds)
                /\ target = TargetOf(recorded[b].command)
                /\ ~(push.offset + AddressByteSize
                       > PushRangeOf(recorded[b].command))
<1>5. ASSUME NEW i \in 1 .. n + 1, NEW push, NEW target,
             Reaches(push, target, i)
      PROVE  Reaches(push, target, i)'
  <2>1. PICK b \in 1 .. i - 1 :
          /\ LastBefore(b, i, Binds)
          /\ target = TargetOf(recorded[b].command)
          /\ ~(push.offset + AddressByteSize
                 > PushRangeOf(recorded[b].command))
    BY <1>5
  <2>2. LastBefore(b, i, Binds)'
    BY <1>3, <2>1
  <2>3. recorded'[b] = recorded[b]
    BY <1>2
  <2>4. PushRangeOf(recorded[b].command)' = PushRangeOf(recorded[b].command)
    BY <1>4, <2>3 DEF PushRangeOf, PipelineOf
  <2>5. QED
    BY <2>1, <2>2, <2>3, <2>4
<1>6. ASSUME NEW i \in 1 .. n, (Op(i) = "PushBufferDeviceAddress")'
      PROVE  Reaches(recorded[i].command, recorded[i].target, i)
  BY <1>2, <1>6 DEF PushesReachBoundPipeline
<1>7. ASSUME (Op(n + 1) = "PushBufferDeviceAddress")'
      PROVE  Reaches(c, pushTarget, n + 1)
  <2>1. /\ pushTarget # NoTarget
        /\ ~(c.offset + AddressByteSize > boundPushConstantByteSize)
    BY <1>2, <1>4, <1>7, PushAccepted
  <2>2. PICK b \in 1 .. n :
          /\ LastBefore(b, n + 1, Binds)
          /\ pushTarget = TargetOf(recorded[b].command)
          /\ boundPushConstantByteSize = PushRangeOf(recorded[b].command)
    BY <1>1, <2>1 DEF TargetKnown
  <2>3. QED
    BY <2>1, <2>2
<1>8. ASSUME NEW i \in 1 .. n + 1, (Op(i) = "PushBufferDeviceAddress")'
      PROVE  Reaches(recorded[i].command, recorded[i].target, i)'
  <2>1. CASE i \in 1 .. n
    <3>1. Reaches(recorded[i].command, recorded[i].target, i)
      BY <1>6, <1>8, <2>1
    <3>2. recorded'[i] = recorded[i]
      BY <1>2, <2>1
    <3>3. PICK push, target :
            push = recorded[i].command /\ target = recorded[i].target
      OBVIOUS
    <3>4. Reaches(push, target, i)'
      BY <1>5, <3>1, <3>3
    <3>5. push = recorded'[i].command /\ target = recorded'[i].target
      BY <3>2, <3>3
    <3>6. QED
      BY <3>4, <3>5
  <2>2. CASE i = n + 1
    <3>1. Reaches(c, pushTarget, n + 1)
      BY <1>7, <1>8, <2>2
    <3>2. recorded'[i].command = c /\ recorded'[i].target = pushTarget
      BY <1>2, <2>2
    <3>3. QED
      BY <1>5, <2>2, <3>1, <3>2
  <2>3. QED
    BY <2>1, <2>2
<1>9. QED
  BY <1>2, <1>8 DEF PushesReachBoundPipeline

-----------------------------------------------------------------------------
(***************************************************************************)
(* What the walk knows is kept by every command.                           *)
(***************************************************************************)
LEMMA ScopeKnowledgeKept ==
    ASSUME RecorderInv, NEW c \in Commands, RecordCommand(c), Record(c)
    PROVE  ScopeKnown'
<1>1. PICK n \in Nat : n = Len(recorded)
  BY DEF RecorderInv, TypeInv, TypeOK
<1> USE DEF RecorderInv, Knowledge
<1>2. /\ Len(recorded') = n + 1
      /\ \A j \in 1 .. n : recorded'[j] = recorded[j]
      /\ recorded'[n + 1] = [command |-> c, target |-> pushTarget]
  BY <1>1, Appended
<1>3. /\ \A b \in 1 .. n :
           ScopeAt(b, n + 2)' <=> ScopeAt(b, n + 1) /\ c.op # "EndRendering"
      /\ ScopeAt(n + 1, n + 2)' <=> c.op = "BeginRendering"
  BY <1>1, ScopeAppended
<1>4. phase = "recording" /\ CommandError(c) = "none"
  BY DEF Record
<1>5. /\ hasOpenRenderingScope =>
           \E b \in 1 .. n : /\ ScopeAt(b, n + 1)
                             /\ recorded[b].command.slot
                                  = openRenderingTemplateSlot
      /\ ~hasOpenRenderingScope => \A b \in 1 .. n : ~ScopeAt(b, n + 1)
  BY <1>1, <1>4 DEF ScopeKnown
<1> DEFINE Known ==
             /\ hasOpenRenderingScope' =>
                  \E b \in 1 .. n + 1 :
                     /\ ScopeAt(b, n + 2)'
                     /\ recorded'[b].command.slot = openRenderingTemplateSlot'
             /\ ~hasOpenRenderingScope' =>
                  \A b \in 1 .. n + 1 : ~ScopeAt(b, n + 2)'
<1>6. CASE c.op = "BeginRendering"
  <2>1. hasOpenRenderingScope' = TRUE /\ openRenderingTemplateSlot' = c.slot
    BY <1>4, <1>6 DEF RecordCommand, RefuseCommand, RecordStateless,
          Stateless, BindComputePipeline, BeginRendering, EndRendering,
          BindGraphicsPipeline, SetViewport, SetScissor
  <2>2. recorded'[n + 1].command.slot = c.slot
    BY <1>2
  <2>3. Known
    BY <1>3, <1>6, <2>1, <2>2
  <2>4. QED
    BY <1>2, <2>3 DEF ScopeKnown
<1>7. CASE c.op = "EndRendering"
  <2>1. hasOpenRenderingScope' = FALSE
    BY <1>4, <1>7 DEF RecordCommand, RefuseCommand, RecordStateless,
          Stateless, BindComputePipeline, BeginRendering, EndRendering,
          BindGraphicsPipeline, SetViewport, SetScissor
  <2>2. Known
    BY <1>3, <1>7, <2>1
  <2>3. QED
    BY <1>2, <2>2 DEF ScopeKnown
<1>8. CASE c.op \notin {"BeginRendering", "EndRendering"}
  <2>1. UNCHANGED <<hasOpenRenderingScope, openRenderingTemplateSlot>>
    BY <1>4, <1>8 DEF RecordCommand, RefuseCommand, RecordStateless,
          Stateless, BindComputePipeline, BeginRendering, EndRendering,
          BindGraphicsPipeline, SetViewport, SetScissor, walk, flags
  <2>2. Known
    BY <1>2, <1>3, <1>5, <1>8, <2>1
  <2>3. QED
    BY <1>2, <2>2 DEF ScopeKnown
<1>9. QED
  BY <1>6, <1>7, <1>8

LEMMA DrawKnowledgeKept ==
    ASSUME RecorderInv, NEW c \in Commands, RecordCommand(c), Record(c)
    PROVE  DrawStateKnown'
<1>1. PICK n \in Nat : n = Len(recorded)
  BY DEF RecorderInv, TypeInv, TypeOK
<1> USE DEF RecorderInv, Knowledge
<1>2. /\ Len(recorded') = n + 1
      /\ \A j \in 1 .. n : Op(j)' = Op(j)
      /\ Op(n + 1)' = c.op
  BY <1>1, Appended
<1>3. \A op : Precedes(op)' <=> Precedes(op) \/ op = c.op
  BY <1>1, <1>2 DEF Precedes
<1>4. CommandError(c) = "none"
  BY DEF Record
<1>5. /\ hasBoundGraphicsPipeline' =>
           hasBoundGraphicsPipeline \/ c.op = "BindGraphicsPipeline"
      /\ hasSetViewport' => hasSetViewport \/ c.op = "SetViewport"
      /\ hasSetScissor' => hasSetScissor \/ c.op = "SetScissor"
  BY <1>4 DEF RecordCommand, RefuseCommand, RecordStateless,
        BindComputePipeline, BeginRendering, EndRendering,
        BindGraphicsPipeline, SetViewport, SetScissor, walk, flags
<1>6. QED
  BY <1>3, <1>5 DEF DrawStateKnown

LEMMA TargetKnowledgeKept ==
    ASSUME RecorderInv, NEW c \in Commands, RecordCommand(c), Record(c)
    PROVE  TargetKnown'
<1>1. PICK n \in Nat : n = Len(recorded)
  BY DEF RecorderInv, TypeInv, TypeOK
<1> USE DEF RecorderInv, Knowledge
<1>2. /\ Len(recorded') = n + 1
      /\ \A j \in 1 .. n : recorded'[j] = recorded[j]
      /\ recorded'[n + 1] = [command |-> c, target |-> pushTarget]
  BY <1>1, Appended
<1>3. /\ \A b \in 1 .. n :
           LastBefore(b, n + 2, Binds)' <=>
              LastBefore(b, n + 1, Binds) /\ c.op \notin Binds
      /\ LastBefore(n + 1, n + 2, Binds)' <=> c.op \in Binds
  BY <1>1, LastAppended
<1>4. inputs' = inputs /\ CommandError(c) = "none"
  BY DEF Record
<1>5. CASE c.op \in Binds
  <2>1. /\ pushTarget' = TargetOf(c)
        /\ boundPushConstantByteSize' = PushRangeOf(c)
    BY <1>4, <1>5 DEF RecordCommand, RefuseCommand, RecordStateless,
          Stateless, BindComputePipeline, BeginRendering, EndRendering,
          BindGraphicsPipeline, SetViewport, SetScissor, Binds, TargetOf,
          PushRangeOf, PipelineOf
  <2>2. recorded'[n + 1].command = c
    BY <1>2
  <2>3. PushRangeOf(c)' = PushRangeOf(c)
    BY <1>4 DEF PushRangeOf, PipelineOf
  <2>4. /\ LastBefore(n + 1, n + 2, Binds)'
        /\ pushTarget' = TargetOf(recorded'[n + 1].command)
        /\ boundPushConstantByteSize' = PushRangeOf(recorded[n + 1].command)'
    BY <1>3, <1>5, <2>1, <2>2, <2>3
  <2>5. QED
    BY <1>2, <2>4 DEF TargetKnown
<1>6. CASE c.op \notin Binds
  <2>1. UNCHANGED <<pushTarget, boundPushConstantByteSize>>
    BY <1>4, <1>6 DEF RecordCommand, RefuseCommand, RecordStateless,
          BindComputePipeline, BeginRendering, EndRendering,
          BindGraphicsPipeline, SetViewport, SetScissor, Binds, walk
  <2>2. SUFFICES ASSUME pushTarget # NoTarget
                 PROVE  TargetKnown'
    BY <2>1 DEF TargetKnown
  <2>3. PICK b \in 1 .. n :
          /\ LastBefore(b, n + 1, Binds)
          /\ pushTarget = TargetOf(recorded[b].command)
          /\ boundPushConstantByteSize = PushRangeOf(recorded[b].command)
    BY <1>1, <2>2 DEF TargetKnown
  <2>4. recorded'[b] = recorded[b]
    BY <1>2
  <2>5. PushRangeOf(recorded[b].command)' = PushRangeOf(recorded[b].command)
    BY <1>4, <2>4 DEF PushRangeOf, PipelineOf
  <2>6. LastBefore(b, n + 2, Binds)'
    BY <1>3, <1>6, <2>3
  <2>7. b \in 1 .. n + 1
    OBVIOUS
  <2>8. QED
    BY <1>2, <2>1, <2>3, <2>4, <2>5, <2>6, <2>7 DEF TargetKnown
<1>7. QED
  BY <1>5, <1>6

-----------------------------------------------------------------------------
\* A command buffer without a call in it, outside a recording.
LEMMA NothingRecorded ==
    ASSUME recorded = <<>>, Idle, phase # "recording"
    PROVE  Knowledge /\ CallsSafe
<1>1. Len(recorded) = 0 /\ DOMAIN recorded = {}
  OBVIOUS
<1>2. CallsSafe
  BY <1>1 DEF CallsSafe, ScopesAlternate, DrawsAreComplete, BindsMatchScope,
              PushesReachBoundPipeline
<1>3. Knowledge
  BY DEF Knowledge, Idle, ScopeKnown, DrawStateKnown, TargetKnown
<1>4. QED
  BY <1>2, <1>3

LEMMA InitRecorder == Init => RecorderInv
<1> SUFFICES ASSUME Init PROVE RecorderInv
  OBVIOUS
<1>1. TypeInv
  BY InitTyped
<1>2. recorded = <<>> /\ phase # "recording"
  BY DEF Init
<1>3. QED
  BY <1>1, <1>2, NothingRecorded DEF RecorderInv, TypeInv

LEMMA NextRecorder == RecorderInv /\ [Next]_vars => RecorderInv'
<1> SUFFICES ASSUME RecorderInv, [Next]_vars PROVE RecorderInv'
  OBVIOUS
<1>1. TypeInv /\ TypeInv'
  BY NextTyped DEF RecorderInv
<1>2. ASSUME recorded' = <<>>, phase' # "recording"
      PROVE  (Knowledge /\ CallsSafe)'
  <2>1. Idle'
    BY <1>1 DEF TypeInv
  <2>2. Len(recorded') = 0 /\ DOMAIN recorded' = {}
    BY <1>2
  <2>3. CallsSafe'
    BY <2>2 DEF CallsSafe, ScopesAlternate, DrawsAreComplete,
                BindsMatchScope, PushesReachBoundPipeline
  <2>4. Knowledge'
    BY <1>2, <2>1 DEF Knowledge, Idle, ScopeKnown, DrawStateKnown, TargetKnown
  <2>5. QED
    BY <2>3, <2>4
<1>3. ASSUME recorded' = recorded, inputs' = inputs
      PROVE  CallsSafe'
  <2>1. ScopesAlternate'
    BY <1>3 DEF RecorderInv, CallsSafe, ScopesAlternate, ScopeAt, Op
  <2>2. DrawsAreComplete'
    BY <1>3 DEF RecorderInv, CallsSafe, DrawsAreComplete, ScopeAt, Op
  <2>3. BindsMatchScope'
    <3>1. ASSUME NEW i \in DOMAIN recorded, Op(i) = "BindGraphicsPipeline"
          PROVE  \E b \in 1 .. i - 1 :
                    /\ ScopeAt(b, i)'
                    /\ Compatible(PipelineOf(recorded[i].command),
                                  TemplateOf(recorded[b].command))'
      <4>1. PICK b \in 1 .. i - 1 :
              /\ ScopeAt(b, i)
              /\ Compatible(PipelineOf(recorded[i].command),
                            TemplateOf(recorded[b].command))
        BY <3>1 DEF RecorderInv, CallsSafe, BindsMatchScope
      <4>2. ScopeAt(b, i)'
        BY <1>3, <4>1 DEF ScopeAt, Op
      <4>3. Compatible(PipelineOf(recorded[i].command),
                       TemplateOf(recorded[b].command))'
        BY <1>3, <4>1 DEF Compatible, Formats, PipelineOf, TemplateOf
      <4>4. QED
        BY <4>2, <4>3
    <3>2. \A i : Op(i)' = Op(i)
      BY <1>3 DEF Op
    <3>3. QED
      BY <1>3, <3>1, <3>2 DEF BindsMatchScope
  <2>4. PushesReachBoundPipeline'
    BY <1>3 DEF RecorderInv, CallsSafe, PushesReachBoundPipeline, LastBefore,
                Op, TargetOf, PushRangeOf, PipelineOf
  <2>5. QED
    BY <2>1, <2>2, <2>3, <2>4 DEF CallsSafe
<1>4. CASE BeginRecording
  <2>1. /\ phase' = "recording" /\ recorded' = <<>> /\ recorded' = recorded
        /\ inputs' = inputs
    BY <1>4 DEF BeginRecording, RecorderInv, Knowledge
  <2>2. Idle /\ phase # "recording" /\ UNCHANGED walk
    BY <1>1, <1>4 DEF TypeInv, BeginRecording
  <2>3. Len(recorded') = 0
    BY <2>1
  <2>4. Knowledge'
    BY <2>1, <2>2, <2>3 DEF Knowledge, Idle, ScopeKnown, DrawStateKnown,
                            TargetKnown, walk, flags
  <2>5. QED
    BY <1>1, <1>3, <2>1, <2>4 DEF RecorderInv
<1>5. ASSUME NEW error, NEW index, FailWith(error, index)
      PROVE  RecorderInv'
  BY <1>1, <1>2, <1>5 DEF FailWith, RecorderInv
<1>6. CASE BeginRecordingFails
  BY <1>5, <1>6 DEF BeginRecordingFails
<1>7. ASSUME NEW c \in Commands, RecordCommand(c)
      PROVE  RecorderInv'
  <2>1. CASE RefuseCommand(c)
    BY <1>5, <2>1 DEF RefuseCommand
  <2>2. CASE Record(c)
    <3>1. CallsSafe'
      BY <2>2, ScopesKept, DrawsKept, BindsKept, PushesKept DEF CallsSafe
    <3>2. phase' # "initial"
      BY <2>2 DEF Record
    <3>3. Knowledge'
      BY <1>7, <2>2, <3>2, ScopeKnowledgeKept, DrawKnowledgeKept,
         TargetKnowledgeKept DEF Knowledge
    <3>4. QED
      BY <1>1, <3>1, <3>3 DEF RecorderInv
  <2>3. RefuseCommand(c) \/ Record(c)
    BY <1>7 DEF RecordCommand, RecordStateless, BindComputePipeline,
          BeginRendering, EndRendering, BindGraphicsPipeline, SetViewport,
          SetScissor
  <2>4. QED
    BY <2>1, <2>2, <2>3
<1>8. CASE EndRecording
  <2>1. /\ recorded' = recorded /\ inputs' = inputs
        /\ phase' = "executable"
    BY <1>8 DEF EndRecording
  <2>2. Idle'
    BY <1>1 DEF TypeInv
  <2>3. Knowledge'
    BY <2>1, <2>2 DEF Knowledge, Idle, ScopeKnown, DrawStateKnown, TargetKnown
  <2>4. QED
    BY <1>1, <1>3, <2>1, <2>3 DEF RecorderInv
<1>9. CASE EndRecordingFails
  BY <1>5, <1>9 DEF EndRecordingFails
<1>10. CASE ResetCommandBuffer
  BY <1>1, <1>2, <1>10 DEF ResetCommandBuffer, RecorderInv
<1>11. CASE UNCHANGED vars
  BY <1>1, <1>3, <1>11 DEF RecorderInv, vars, walk, flags, Knowledge,
        ScopeKnown, DrawStateKnown, TargetKnown, Precedes, ScopeAt,
        LastBefore, Op, TargetOf, PushRangeOf, PipelineOf
<1>12. QED
  BY <1>4, <1>6, <1>7, <1>8, <1>9, <1>10, <1>11 DEF Next

\* In every recorded sequence rendering scopes alternate: none is begun inside
\* another, none is ended that is not open.
THEOREM RecorderScopesAlternate == Spec => []ScopesAlternate
<1>1. RecorderInv => ScopesAlternate
  BY DEF RecorderInv, CallsSafe
<1>2. QED
  BY InitRecorder, NextRecorder, <1>1, PTL DEF Spec

\* Every recorded draw finds an open scope, a pipeline, a viewport and a
\* scissor among the calls before it.
THEOREM RecorderDrawsComplete == Spec => []DrawsAreComplete
<1>1. RecorderInv => DrawsAreComplete
  BY DEF RecorderInv, CallsSafe
<1>2. QED
  BY InitRecorder, NextRecorder, <1>1, PTL DEF Spec

\* Every recorded bind of a graphics pipeline fits the scope it is made in.
THEOREM RecorderBindsMatch == Spec => []BindsMatchScope
<1>1. RecorderInv => BindsMatchScope
  BY DEF RecorderInv, CallsSafe
<1>2. QED
  BY InitRecorder, NextRecorder, <1>1, PTL DEF Spec

\* Every recorded push goes to the pipeline bound last, inside its range.
THEOREM RecorderPushesReach == Spec => []PushesReachBoundPipeline
<1>1. RecorderInv => PushesReachBoundPipeline
  BY DEF RecorderInv, CallsSafe
<1>2. QED
  BY InitRecorder, NextRecorder, <1>1, PTL DEF Spec
-----------------------------------------------------------------------------
(***************************************************************************)
(* Ranges.  What an accepted command says of the buffers and images it     *)
(* names; the inputs of a call do not change behind it.                    *)
(***************************************************************************)

\* Where a sum does not wrap, the test on the wrapped sum is one on the sum.
LEMMA SumWithin ==
    ASSUME NEW base \in Nat, NEW count \in Nat, NEW limit \in Nat,
           NEW modulus \in Nat, ~((base + count) % modulus > limit)
    PROVE  Within(<<base, count, limit>>, modulus)
<1>1. base + count < modulus => (base + count) % modulus = base + count
  OBVIOUS
<1>2. QED
  BY <1>1 DEF Within

CallInside(c) ==
    /\ \A r \in ByteRanges(c) : Within(r, Modulus64)
    /\ \A r \in SubresourceRanges(c) : Within(r, Modulus32)

\* The tables of a call that has begun, as the walk finds them.
Supplied == inputs \in Inputs /\ inputs.buffers # NoTable

LEMMA BufferAccepted ==
    ASSUME Supplied, NEW slot, BufferError(slot) = "none"
    PROVE  inputs.buffers[slot].byteSize \in Nat
<1>1. slot \in DOMAIN inputs.buffers
  BY DEF BufferError, Refuse, ??
<1>2. QED
  BY <1>1, FieldsAssumption DEF Supplied

LEMMA ImageAccepted ==
    ASSUME Supplied, NEW slot, ImageError(slot) = "none"
    PROVE  /\ inputs.images[slot].mips \in Nat
           /\ inputs.images[slot].layers \in Nat
           /\ inputs.images[slot].texelByteSize \in Nat
<1>1. inputs.images # NoTable /\ slot \in DOMAIN inputs.images
  BY DEF ImageError, SlotError, Refuse, ??
<1>2. {inputs.images[slot].mips, inputs.images[slot].layers,
       inputs.images[slot].texelByteSize} \subseteq Nat
  BY <1>1, FieldsAssumption DEF Supplied
<1>3. QED
  BY <1>2

LEMMA BufferRangeInside ==
    ASSUME Supplied, NEW slot, BufferError(slot) = "none",
           NEW offset \in Nat, NEW count \in Nat,
           ~LeavesBuffer(slot, offset, count)
    PROVE  Within(<<offset, count, inputs.buffers[slot].byteSize>>, Modulus64)
<1>1. inputs.buffers[slot].byteSize \in Nat
  BY BufferAccepted
<1>2. QED
  BY <1>1, SumWithin, RecorderAssumption DEF LeavesBuffer

LEMMA CopyInside ==
    ASSUME Supplied, NEW c \in Commands, c.op = "CopyBuffer",
           CommandError(c) = "none"
    PROVE  CallInside(c)
<1>1. CopyBufferError(c) = "none"
  BY DEF CommandError
<1>2. /\ BufferError(c.source) = "none"
      /\ BufferError(c.destination) = "none"
      /\ ~LeavesBuffer(c.source, c.sourceOffset, c.count)
      /\ ~LeavesBuffer(c.destination, c.destinationOffset, c.count)
  BY <1>1 DEF CopyBufferError, Refuse, ??
<1>3. c.sourceOffset \in Nat /\ c.destinationOffset \in Nat /\ c.count \in Nat
  BY FieldsAssumption
<1>4. /\ Within(<<c.sourceOffset, c.count, inputs.buffers[c.source].byteSize>>,
                Modulus64)
      /\ Within(<<c.destinationOffset, c.count,
                  inputs.buffers[c.destination].byteSize>>, Modulus64)
  BY <1>2, <1>3, BufferRangeInside
<1>5. QED
  BY <1>4 DEF CallInside, ByteRanges, SubresourceRanges

LEMMA IndirectInside ==
    ASSUME Supplied, NEW c \in Commands,
           c.op \in {"DispatchIndirect", "DrawIndirect"}, CommandError(c) = "none"
    PROVE  CallInside(c)
<1>1. c.offset \in Nat
  BY FieldsAssumption
<1>2. ASSUME NEW byteSize \in Nat, IndirectError(c, byteSize) = "none"
      PROVE  Within(<<c.offset, byteSize, inputs.buffers[c.slot].byteSize>>,
                    Modulus64)
  <2>1. BufferError(c.slot) = "none" /\ ~LeavesBuffer(c.slot, c.offset, byteSize)
    BY <1>2 DEF IndirectError, Refuse, ??
  <2>2. QED
    BY <1>1, <2>1, BufferRangeInside
<1>3. CASE c.op = "DispatchIndirect"
  <2>1. IndirectError(c, DispatchArgumentsByteSize) = "none"
    BY <1>3 DEF CommandError, ??
  <2>2. Within(<<c.offset, DispatchArgumentsByteSize,
                 inputs.buffers[c.slot].byteSize>>, Modulus64)
    BY <1>2, <2>1 DEF DispatchArgumentsByteSize
  <2>3. QED
    BY <1>3, <2>2 DEF CallInside, ByteRanges, SubresourceRanges
<1>4. CASE c.op = "DrawIndirect"
  <2>1. DrawIndirectError(c) = "none"
    BY <1>4 DEF CommandError
  <2>2. c.draws = 1 /\ IndirectError(c, c.draws * DrawArgumentsByteSize) = "none"
    BY <2>1 DEF DrawIndirectError, Refuse, ??
  <2>3. Within(<<c.offset, DrawArgumentsByteSize,
                 inputs.buffers[c.slot].byteSize>>, Modulus64)
    BY <1>2, <2>2 DEF DrawArgumentsByteSize
  <2>4. QED
    BY <1>4, <2>3 DEF CallInside, ByteRanges, SubresourceRanges
<1>5. QED
  BY <1>3, <1>4

\* Of the refused barriers of a batch there is a first one.
LEMMA BatchAccepted ==
    ASSUME NEW batch, NEW n \in Nat, DOMAIN batch = 1 .. n,
           BatchError(batch) = "none"
    PROVE  \A i \in 1 .. n : BarrierError(batch[i]) = "none"
<1> DEFINE refused == {i \in 1 .. n : BarrierError(batch[i]) # "none"}
<1> SUFFICES ASSUME refused # {} PROVE FALSE
  OBVIOUS
<1>1. PICK first \in refused : \A i \in refused : first <= i
  <2>1. refused \subseteq Nat
    OBVIOUS
  <2> HIDE DEF refused
  <2>2. QED
    BY <2>1, LeastNumber
<1> DEFINE First(i) == /\ BarrierError(batch[i]) # "none"
                       /\ \A j \in 1 .. i - 1 : BarrierError(batch[j]) = "none"
           chosen == CHOOSE i \in DOMAIN batch : First(i)
<1>2. first \in DOMAIN batch /\ First(first)
  <2>1. first \in 1 .. n /\ BarrierError(batch[first]) # "none"
    BY <1>1
  <2>2. \A j \in 1 .. first - 1 : BarrierError(batch[j]) = "none"
    <3> TAKE j \in 1 .. first - 1
    <3>1. j \in 1 .. n /\ ~(first <= j)
      BY <2>1
    <3>2. QED
      BY <1>1, <3>1
  <2>3. QED
    BY <2>1, <2>2
<1>3. BatchError(batch) = BarrierError(batch[chosen])
  BY <1>2 DEF BatchError
<1> HIDE DEF First
<1>4. First(chosen)
  BY <1>2
<1>5. QED
  BY <1>3, <1>4 DEF First

LEMMA BatchInside ==
    ASSUME Supplied, NEW c \in Commands, c.op = "ExecuteBarrierBatch",
           CommandError(c) = "none"
    PROVE  CallInside(c)
<1> DEFINE batch == inputs.batches[c.slot]
           n == Len(batch)
           range(i) == <<batch[i].offset,
                         IF batch[i].count = WholeByteCount THEN 1
                            ELSE batch[i].count,
                         inputs.buffers[batch[i].slot].byteSize>>
<1>1. ExecuteBarrierBatchError(c) = "none"
  BY DEF CommandError
<1>2. /\ inputs.batches # NoTable
      /\ c.slot \in DOMAIN inputs.batches
      /\ BatchError(batch) = "none"
  BY <1>1 DEF ExecuteBarrierBatchError, SlotError, Refuse, ??
<1>3. /\ n \in Nat /\ DOMAIN batch = 1 .. n
      /\ \A i \in DOMAIN batch : {batch[i].offset, batch[i].count} \subseteq Nat
  BY <1>2, FieldsAssumption DEF Supplied
<1> HIDE DEF batch, n
<1>4. \A i \in 1 .. n : BarrierError(batch[i]) = "none"
  BY <1>2, <1>3, BatchAccepted
<1>5. ASSUME NEW i \in DOMAIN batch, batch[i].kind = "buffer"
      PROVE  Within(range(i), Modulus64)
  <2> DEFINE b == batch[i]
  <2>1. b.offset \in Nat /\ b.count \in Nat
    BY <1>3, <1>5
  <2>2. BarrierError(b) = "none"
    BY <1>3, <1>4, <1>5
  <2>3. /\ BufferError(b.slot) = "none"
        /\ ~IF b.count = WholeByteCount
               THEN b.offset >= inputs.buffers[b.slot].byteSize
               ELSE LeavesBuffer(b.slot, b.offset, b.count)
    BY <1>5, <2>2 DEF BarrierError, Refuse, ??
  <2>4. inputs.buffers[b.slot].byteSize \in Nat
    BY <2>3, BufferAccepted
  <2> HIDE DEF b
  <2>5. CASE b.count = WholeByteCount
    <3>1. Within(<<b.offset, 1, inputs.buffers[b.slot].byteSize>>, Modulus64)
      BY <2>1, <2>3, <2>4, <2>5 DEF Within
    <3>2. QED
      BY <2>5, <3>1 DEF b
  <2>6. CASE b.count # WholeByteCount
    <3>1. Within(<<b.offset, b.count, inputs.buffers[b.slot].byteSize>>, Modulus64)
      BY <2>1, <2>3, <2>6, BufferRangeInside
    <3>2. QED
      BY <2>6, <3>1 DEF b
  <2>7. QED
    BY <2>5, <2>6
<1> HIDE DEF range
<1>6. ByteRanges(c) = {range(i) : i \in {j \in DOMAIN batch : batch[j].kind = "buffer"}}
  BY DEF ByteRanges, range, batch
<1>7. SubresourceRanges(c) = {}
  BY DEF SubresourceRanges
<1>8. QED
  BY <1>5, <1>6, <1>7 DEF CallInside
LEMMA CountInside ==
    ASSUME NEW base \in Nat, NEW count \in Nat, NEW limit \in Nat,
           ~LeavesCount(base, count, limit)
    PROVE  Within(<<base, IF count = RemainingCount THEN 1 ELSE count, limit>>,
                  Modulus32)
<1>1. CASE count = RemainingCount
  <2>1. Within(<<base, 1, limit>>, Modulus32)
    BY DEF LeavesCount, Within
  <2>2. QED
    BY <1>1, <2>1
<1>2. CASE count # RemainingCount
  <2>1. ~((base + count) % Modulus32 > limit)
    BY <1>2 DEF LeavesCount
  <2>2. Within(<<base, count, limit>>, Modulus32)
    BY <2>1, SumWithin, RecorderAssumption
  <2>3. QED
    BY <1>2, <2>2
<1>3. QED
  BY <1>1, <1>2

LEMMA ClearInside ==
    ASSUME Supplied, NEW c \in Commands, c.op = "ClearColorImage",
           CommandError(c) = "none"
    PROVE  CallInside(c)
<1> DEFINE image == inputs.images[c.image]
           counted(base, count, limit) ==
                <<base, IF count = RemainingCount THEN 1 ELSE count, limit>>
<1>1. ClearColorImageError(c) = "none"
  BY DEF CommandError
<1>2. /\ ImageError(c.image) = "none"
      /\ ~LeavesCount(c.mip, c.mips, image.mips)
      /\ ~LeavesCount(c.layer, c.layers, image.layers)
  BY <1>1 DEF ClearColorImageError, Refuse, ??
<1>3. image.mips \in Nat /\ image.layers \in Nat
  BY <1>2, ImageAccepted
<1>4. c.mip \in Nat /\ c.mips \in Nat /\ c.layer \in Nat /\ c.layers \in Nat
  BY FieldsAssumption
<1> HIDE DEF image
<1>5. /\ Within(counted(c.mip, c.mips, image.mips), Modulus32)
      /\ Within(counted(c.layer, c.layers, image.layers), Modulus32)
  BY <1>2, <1>3, <1>4, CountInside
<1> HIDE DEF counted
<1>6. SubresourceRanges(c) = {counted(c.mip, c.mips, image.mips),
                              counted(c.layer, c.layers, image.layers)}
  BY DEF SubresourceRanges, image, counted
<1>7. ByteRanges(c) = {}
  BY DEF ByteRanges
<1>8. QED
  BY <1>5, <1>6, <1>7 DEF CallInside

\* The size of the texels wraps before it is added: what wraps is beyond the test.
LEMMA ImageCopyInside ==
    ASSUME Supplied, NEW c \in Commands,
           c.op \in {"CopyBufferToImage", "CopyImageToBuffer"},
           CommandError(c) = "none"
    PROVE  CallInside(c)
<1> DEFINE image == inputs.images[c.image]
           limit == inputs.buffers[c.buffer].byteSize
           texels == TexelRangeByteSize(c, image)
<1>1. ImageCopyError(c) = "none"
  <2>1. CASE c.op = "CopyBufferToImage"
    BY <2>1 DEF CommandError
  <2>2. CASE c.op = "CopyImageToBuffer"
    BY <2>2 DEF CommandError
  <2>3. QED
    BY <2>1, <2>2
<1>2. /\ ImageError(c.image) = "none"
      /\ BufferError(c.buffer) = "none"
      /\ ~LeavesImage(c, image)
      /\ ~LeavesBuffer(c.buffer, c.offset, texels % Modulus64)
  BY <1>1 DEF ImageCopyError, Refuse, ??
<1>3. /\ image.mips \in Nat /\ image.layers \in Nat /\ image.texelByteSize \in Nat
      /\ limit \in Nat
  BY <1>2, ImageAccepted, BufferAccepted
<1>4. /\ c.mip \in Nat /\ c.layer \in Nat /\ c.layers \in Nat /\ c.offset \in Nat
      /\ c.extent[1] \in Nat /\ c.extent[2] \in Nat /\ c.extent[3] \in Nat
  BY FieldsAssumption
<1> HIDE DEF image
<1>5. texels \in Nat
  <2>1. image.texelByteSize * c.extent[1] \in Nat
    BY <1>3, <1>4
  <2>2. image.texelByteSize * c.extent[1] * c.extent[2] \in Nat
    BY <1>4, <2>1
  <2>3. image.texelByteSize * c.extent[1] * c.extent[2] * c.extent[3] \in Nat
    BY <1>4, <2>2
  <2>4. QED
    BY <1>4, <2>3 DEF TexelRangeByteSize
<1>6. ~((c.offset + (texels % Modulus64)) % Modulus64 > limit)
  BY <1>2 DEF LeavesBuffer
<1> HIDE DEF texels, limit
<1>7. Within(<<c.offset, texels, limit>>, Modulus64)
  <2>1. CASE c.offset + texels < Modulus64
    <3>1. texels % Modulus64 = texels
      <4>1. texels < Modulus64 /\ Modulus64 \in Nat
        BY <1>4, <1>5, <2>1, RecorderAssumption
      <4>2. QED
        BY <1>5, <4>1
    <3>2. ~((c.offset + texels) % Modulus64 > limit)
      BY <1>6, <3>1
    <3>3. QED
      BY <1>3, <1>4, <1>5, <3>2, SumWithin, RecorderAssumption
  <2>2. CASE ~(c.offset + texels < Modulus64)
    BY <1>4, <1>5, <2>2, RecorderAssumption DEF Within
  <2>3. QED
    BY <2>1, <2>2
<1>8. /\ Within(<<c.mip, 1, image.mips>>, Modulus32)
      /\ Within(<<c.layer, c.layers, image.layers>>, Modulus32)
  <2>1. ~(c.mip >= image.mips) /\ ~((c.layer + c.layers) % Modulus32 > image.layers)
    BY <1>2 DEF LeavesImage
  <2>2. Within(<<c.mip, 1, image.mips>>, Modulus32)
    BY <1>3, <1>4, <2>1 DEF Within
  <2>3. QED
    BY <1>3, <1>4, <2>1, <2>2, SumWithin, RecorderAssumption
<1>9. ByteRanges(c) = {<<c.offset, texels, limit>>}
  BY DEF ByteRanges, texels, limit, image
<1>10. SubresourceRanges(c) = {<<c.mip, 1, image.mips>>,
                               <<c.layer, c.layers, image.layers>>}
  BY DEF SubresourceRanges, image
<1>11. QED
  BY <1>7, <1>8, <1>9, <1>10 DEF CallInside

LEMMA AcceptedInside ==
    ASSUME Supplied, NEW c \in Commands, CommandError(c) = "none"
    PROVE  CallInside(c)
<1>1. CASE c.op \notin {"CopyBuffer", "ExecuteBarrierBatch", "DispatchIndirect",
                        "DrawIndirect", "ClearColorImage", "CopyBufferToImage",
                        "CopyImageToBuffer"}
  BY <1>1 DEF CallInside, ByteRanges, SubresourceRanges
<1>2. QED
  BY <1>1, CopyInside, IndirectInside, BatchInside, ClearInside, ImageCopyInside

-----------------------------------------------------------------------------
(***************************************************************************)
(* Recording began with a buffer table, and every call was accepted with   *)
(* the tables that are still there.                                        *)
(***************************************************************************)
InsideInv ==
    /\ TypeInv
    /\ phase = "recording" => Supplied
    /\ \A i \in DOMAIN recorded : CallInside(recorded[i].command)

LEMMA InitInside == Init => InsideInv
<1> SUFFICES ASSUME Init PROVE InsideInv
  OBVIOUS
<1>1. TypeInv
  BY InitTyped
<1>2. DOMAIN recorded = {} /\ phase # "recording"
  BY DEF Init
<1>3. QED
  BY <1>1, <1>2 DEF InsideInv

LEMMA NextInside == InsideInv /\ [Next]_vars => InsideInv'
<1> SUFFICES ASSUME InsideInv, [Next]_vars PROVE InsideInv'
  OBVIOUS
<1>1. TypeInv /\ TypeInv'
  BY NextTyped DEF InsideInv
<1>2. ASSUME recorded' = <<>>, phase' # "recording"
      PROVE  InsideInv'
  BY <1>1, <1>2 DEF InsideInv
<1>3. ASSUME inputs' = inputs, NEW c
      PROVE  CallInside(c)' = CallInside(c)
  BY <1>3 DEF CallInside, ByteRanges, SubresourceRanges
<1>4. ASSUME recorded' = recorded, inputs' = inputs,
             (phase = "recording" => Supplied)'
      PROVE  InsideInv'
  <2>1. \A i \in DOMAIN recorded : CallInside(recorded[i].command)'
    BY <1>3, <1>4 DEF InsideInv
  <2>2. QED
    BY <1>1, <1>4, <2>1 DEF InsideInv
<1>5. CASE BeginRecording
  <2>1. recorded' = recorded /\ inputs' = inputs /\ inputs.buffers # NoTable
    BY <1>5 DEF BeginRecording
  <2>2. Supplied'
    BY <1>1, <2>1 DEF Supplied, TypeInv, TypeOK
  <2>3. QED
    BY <1>4, <2>1, <2>2
<1>6. ASSUME NEW error, NEW index, FailWith(error, index)
      PROVE  InsideInv'
  BY <1>2, <1>6 DEF FailWith
<1>7. CASE BeginRecordingFails
  BY <1>6, <1>7 DEF BeginRecordingFails
<1>8. ASSUME NEW c \in Commands, RecordCommand(c)
      PROVE  InsideInv'
  <2>1. CASE RefuseCommand(c)
    BY <1>6, <2>1 DEF RefuseCommand
  <2>2. CASE Record(c)
    <3>1. PICK n \in Nat : n = Len(recorded)
      BY <1>1 DEF TypeInv, TypeOK
    <3>2. Supplied /\ CommandError(c) = "none" /\ inputs' = inputs
      BY <2>2 DEF Record, InsideInv
    <3>3. /\ DOMAIN recorded = 1 .. n
          /\ DOMAIN recorded' = 1 .. n + 1
          /\ \A j \in 1 .. n : recorded'[j] = recorded[j]
          /\ recorded'[n + 1] = [command |-> c, target |-> pushTarget]
      BY <1>1, <2>2, <3>1, Appended
    <3>4. \A i \in 1 .. n : (CallInside(recorded[i].command))'
      BY <1>3, <3>2, <3>3 DEF InsideInv
    <3>5. (CallInside(recorded[n + 1].command))'
      <4>1. CallInside(c)'
        BY <1>3, <3>2, AcceptedInside
      <4>2. QED
        BY <3>3, <4>1
    <3>6. \A i \in 1 .. n + 1 : i \in 1 .. n \/ i = n + 1
      BY <3>1
    <3>7. Supplied'
      BY <3>2 DEF Supplied
    <3>8. QED
      BY <1>1, <3>3, <3>4, <3>5, <3>6, <3>7 DEF InsideInv
  <2>3. RefuseCommand(c) \/ Record(c)
    BY <1>8 DEF RecordCommand, RecordStateless, BindComputePipeline,
          BeginRendering, EndRendering, BindGraphicsPipeline, SetViewport,
          SetScissor
  <2>4. QED
    BY <2>1, <2>2, <2>3
<1>9. CASE EndRecording
  BY <1>4, <1>9 DEF EndRecording
<1>10. CASE EndRecordingFails
  BY <1>6, <1>10 DEF EndRecordingFails
<1>11. CASE ResetCommandBuffer
  BY <1>2, <1>11 DEF ResetCommandBuffer
<1>12. CASE UNCHANGED vars
  <2>1. recorded' = recorded /\ inputs' = inputs /\ phase' = phase
    BY <1>12 DEF vars
  <2>2. (phase = "recording" => Supplied)'
    BY <2>1 DEF InsideInv, Supplied
  <2>3. QED
    BY <1>4, <2>1, <2>2
<1>13. QED
  BY <1>5, <1>7, <1>8, <1>9, <1>10, <1>11, <1>12 DEF Next

\* Every recorded call stays inside the buffers and images it names, unless its
\* range ends beyond the width of the fields it is computed in.
\* (CommandBufferRecorder::record, the range tests of copies, indirect arguments,
\* barriers and clears)
THEOREM RecorderRangesInside == Spec => []RangesInside
<1>1. InsideInv => RangesInside
  BY DEF InsideInv, RangesInside, CallInside
<1>2. QED
  BY InitInside, NextInside, <1>1, PTL DEF Spec
=============================================================================
