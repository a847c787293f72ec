---------------------------- MODULE CommandStream ----------------------------
(***************************************************************************)
(* A lane's command stream: CommandStreamWriter (Java) records commands    *)
(* into a preallocated segment, CommandStreamValidator (native) walks the  *)
(* bytes and CommandStreamView iterates over what was accepted.            *)
(*                                                                         *)
(* Sizes and offsets are bytes.  Every command starts at a multiple of 8,  *)
(* so memory is kept per 8-byte word: a word is a command header, or the   *)
(* payload of a command.  The payload's fields are one value: the appends  *)
(* differ in their opcode, their size and what they put there.             *)
(***************************************************************************)
EXTENDS Integers, Sequences

CONSTANTS
    Writers,        \* the CommandStreamWriter objects
    Recordings,     \* for each writer, what it may be constructed with: its
                    \* segment's size, the lane and the graph hash
    Commands,       \* the appends the callers make: an opcode and a value
    MaxAppends      \* bound on the appends that one writer counts

VARIABLE writers    \* the writers, and the segments they write into

Alignment == 8                  \* s_commandAlignment
StreamHeaderByteSize == 32      \* s_streamHeaderByteSize
CommandHeaderByteSize == 8

\* The byte size each append gives its command, header included.
ComputeByteSize ==
    [Dispatch |-> 24, BindComputePipeline |-> 16,
     PushBufferDeviceAddress |-> 16, DispatchIndirect |-> 24,
     ExecuteBarrierBatch |-> 16]

TransferByteSize ==
    [CopyBuffer |-> 40, ClearColorImage |-> 56, CopyImageToBuffer |-> 64,
     CopyBufferToImage |-> 64]

GraphicsByteSize ==
    [Draw |-> 24, BeginRendering |-> 16, EndRendering |-> 8,
     BindGraphicsPipeline |-> 16, SetViewport |-> 32, SetScissor |-> 24,
     DrawIndirect |-> 32]

CommandByteSize ==
    [op \in DOMAIN ComputeByteSize \cup DOMAIN TransferByteSize \cup DOMAIN GraphicsByteSize |->
        CASE op \in DOMAIN ComputeByteSize -> ComputeByteSize[op]
          [] op \in DOMAIN TransferByteSize -> TransferByteSize[op]
          [] op \in DOMAIN GraphicsByteSize -> GraphicsByteSize[op]]

\* Opcodes the format assigns and no append of the writer produces.
OnlyAssigned ==
    {"BindVertexBuffers", "BindIndexBuffer", "PushConstants", "DrawIndexed",
     "DrawIndexedIndirect", "DrawIndexedIndirectCount", "CopyImage",
     "BlitImage", "ClearDepthStencilImage", "ResolveImage",
     "PushDescriptorSet", "DebugLabelBegin", "DebugLabelEnd",
     "InvokeOpaqueExtensionNode"}

AssignedOpcodes == DOMAIN CommandByteSize \cup OnlyAssigned

\* A segment has a size, and each append the opcode of its command.
ASSUME RecordingsAssumption ==
    \A w \in Writers : \A recording \in Recordings[w] : recording.byteSize \in Nat
ASSUME CommandsAssumption ==
    \A command \in Commands : command.op \in DOMAIN CommandByteSize

CommandHeader(op, byteSize) ==
    [isHeader |-> TRUE, op |-> op, byteSize |-> byteSize, value |-> 0]

Payload(value) ==
    [isHeader |-> FALSE, op |-> "none", byteSize |-> 0, value |-> value]

\* What the segment holds before: the end of some longer, earlier recording.
Stale == CommandHeader("EndRendering", 8)

Words(first, past) == {at \in first .. past - 1 : at % Alignment = 0}

NoStreamHeader ==
    [magic |-> FALSE, version |-> FALSE, laneIndex |-> 0, commandCount |-> 0,
     totalByteSize |-> 0, graphHash |-> "none"]

NewWriter(recording) ==
    [targetByteSize |-> recording.byteSize,
     laneIndex |-> recording.laneIndex,
     graphHash |-> recording.graphHash,
     currentByteOffset |-> StreamHeaderByteSize,
     commandCount |-> 0,
     isFinished |-> FALSE,
     header |-> NoStreamHeader,
     memory |-> [at \in Words(StreamHeaderByteSize, recording.byteSize) |-> Stale],
     appended |-> <<>>,         \* history: the appends that returned
     isDisturbed |-> FALSE]     \* history: an append has failed half-way

InitWriters ==
    \E chosen \in [Writers -> UNION {Recordings[w] : w \in Writers}] :
        /\ \A w \in Writers : chosen[w] \in Recordings[w]
        /\ writers = [w \in Writers |-> NewWriter(chosen[w])]

-----------------------------------------------------------------------------
(* The writer.  A store past the segment's end throws, and what the append *)
(* had done before stays done: the command is counted by its header and    *)
(* its offset is only advanced behind its last payload field.              *)

\* A command whose append forgets its last field.
PayloadWithoutLast(at, byteSize) ==
    Words(at + CommandHeaderByteSize, at + byteSize - Alignment)

PayloadWords(at, byteSize) ==
    Words(at + CommandHeaderByteSize, at + byteSize)

\* The header and the part of the payload that fits.
Stored(writer, command) ==
    LET at == writer.currentByteOffset
        byteSize == CommandByteSize[command.op]
    IN  [o \in DOMAIN writer.memory |->
            CASE o = at -> CommandHeader(command.op, byteSize)
              [] o \in PayloadWords(at, byteSize) -> Payload(command.value)
              [] OTHER -> writer.memory[o]]

HeaderFits(writer) ==
    writer.currentByteOffset + CommandHeaderByteSize <= writer.targetByteSize

CommandFits(writer, command) ==
    writer.currentByteOffset + CommandByteSize[command.op]
        <= writer.targetByteSize

\* writeCommandHeader and the stores behind it.
AppendCommand(w, command) ==
    /\ ~writers[w].isFinished
    /\ writers[w].commandCount < MaxAppends
    /\ CommandFits(writers[w], command)
    /\ writers' = [writers EXCEPT
         ![w].memory = Stored(writers[w], command),
         ![w].commandCount = @ + 1,
         ![w].currentByteOffset = @ + CommandByteSize[command.op],
         ![w].appended = Append(@, command)]

\* The segment ends inside the payload: IndexOutOfBoundsException behind the
\* count.  (If it ends before the header, nothing but padding has changed.)
AppendOverflows(w, command) ==
    /\ ~writers[w].isFinished
    /\ writers[w].commandCount < MaxAppends
    /\ HeaderFits(writers[w])
    /\ ~CommandFits(writers[w], command)
    /\ writers' = [writers EXCEPT
         ![w].memory = Stored(writers[w], command),
         ![w].commandCount = @ + 1,
         ![w].isDisturbed = TRUE]

\* finish seals the writer before it stores the header; a segment smaller than
\* the header makes the stores throw.
Finish(w) ==
    /\ ~writers[w].isFinished
    /\ writers' = [writers EXCEPT
         ![w].isFinished = TRUE,
         ![w].header =
            IF writers[w].targetByteSize < StreamHeaderByteSize THEN @ ELSE
            [magic |-> TRUE, version |-> TRUE,
             laneIndex |-> writers[w].laneIndex,
             commandCount |-> writers[w].commandCount,
             totalByteSize |-> writers[w].currentByteOffset,
             graphHash |-> writers[w].graphHash]]
-----------------------------------------------------------------------------
(* The reader.  Content is what a byte range holds: its size, the fields of *)
(* the stream header at its start and the words behind them.  "magic" and  *)
(* "version" say whether these fields have the expected values.            *)

\* The bytes a writer hands over: its segment up to finish's result.
StreamContent(writer) ==
    [byteSize |-> IF writer.targetByteSize < StreamHeaderByteSize
                  THEN writer.targetByteSize ELSE writer.currentByteOffset,
     header |-> writer.header,
     memory |-> [at \in Words(StreamHeaderByteSize, writer.currentByteOffset) |->
                    writer.memory[at]]]

\* A bound that takes the stream's end for a byte too far.
ReachesEnd(content, byteOffset) == byteOffset >= content.header.totalByteSize

PassesEnd(content, byteOffset) == byteOffset > content.header.totalByteSize

\* What the walk finds wrong with the command it meets at an offset.  A word
\* that is no header is some payload, taken as an unassigned opcode.
CommandError(content, at) ==
    IF PassesEnd(content, at + CommandHeaderByteSize)
       THEN "TruncatedCommand"
    ELSE LET word == content.memory[at]
         IN  IF ~word.isHeader THEN "UnknownOpcode"
             ELSE IF \/ word.byteSize < CommandHeaderByteSize
                     \/ word.byteSize % Alignment # 0 THEN "MisalignedCommandSize"
             ELSE IF word.op \notin AssignedOpcodes THEN "UnknownOpcode"
             ELSE IF PassesEnd(content, at + word.byteSize) THEN "TruncatedCommand"
             ELSE "none"

\* The walk after n commands: where it stands, or why it stopped.
Walk(content) ==
    LET walk[n \in 0 .. content.header.commandCount] ==
            IF n = 0 THEN [at |-> StreamHeaderByteSize, error |-> "none"]
            ELSE LET before == walk[n - 1]
                     error == CommandError(content, before.at)
                 IN  IF before.error # "none" THEN before
                     ELSE IF error # "none"
                          THEN [at |-> before.at, error |-> error]
                          ELSE [at |-> before.at + content.memory[before.at].byteSize,
                                error |-> "none"]
    IN  walk[content.header.commandCount]

\* CommandStreamValidator::validate; the provider aligns the base address.
StreamError(content) ==
    IF content.byteSize < StreamHeaderByteSize THEN "StreamTooSmall"
    ELSE IF ~content.header.magic THEN "InvalidMagic"
    ELSE IF ~content.header.version THEN "UnsupportedVersion"
    ELSE IF content.header.totalByteSize # content.byteSize
         THEN "StreamSizeMismatch"
    ELSE LET walked == Walk(content)
         IN  IF walked.error # "none" THEN walked.error
             ELSE IF walked.at # content.header.totalByteSize
                  THEN "CommandChainMismatch"
                  ELSE "none"

\* Where CommandStreamView's iterator stands after n increments from begin, which
\* go no further than end.
Iterator(content) ==
    LET at[n \in 0 .. content.byteSize \div Alignment] ==
            IF n = 0 THEN StreamHeaderByteSize
            ELSE IF at[n - 1] = content.byteSize THEN content.byteSize
            ELSE at[n - 1] + content.memory[at[n - 1]].byteSize
    IN  at

\* The command under the iterator, with the values its payload span holds.
CommandAt(content, at) ==
    LET word == content.memory[at]
        payload == Words(at + CommandHeaderByteSize, at + word.byteSize)
    IN  [op |-> word.op, values |-> {content.memory[o].value : o \in payload}]

\* What the iterator yields between begin and end.
Iterated(content) ==
    LET iterator == Iterator(content)
        count == CHOOSE n \in DOMAIN iterator :
                    /\ iterator[n] = content.byteSize
                    /\ \A m \in 0 .. n - 1 : iterator[m] # content.byteSize
    IN  [i \in 1 .. count |-> CommandAt(content, iterator[i - 1])]

-----------------------------------------------------------------------------
(* Properties of the writer and the validator together.                    *)

\* A finished stream that the validator accepts replays exactly the appends
\* that returned, in their order: whatever a failed append left in the segment
\* makes the stream be refused or lies behind its end.
\* (CommandStreamWriter's append methods, CommandStreamValidator::validate)
AcceptedStreamsReplayAppends ==
    \A w \in Writers :
        LET content == StreamContent(writers[w])
            appended == writers[w].appended
        IN  writers[w].isFinished /\ StreamError(content) = "none"
            => Iterated(content) =
                [i \in DOMAIN appended |->
                    [op |-> appended[i].op,
                     values |-> IF CommandByteSize[appended[i].op] = CommandHeaderByteSize
                                THEN {} ELSE {appended[i].value}]]

\* A stream is accepted as soon as it has room for its header and no append
\* has failed half-way into it: the validator refuses nothing that the writer
\* completes.  (CommandStreamWriter.finish, CommandStreamValidator::validate)
UndisturbedStreamsAreAccepted ==
    \A w \in Writers :
        writers[w].isFinished
            /\ writers[w].targetByteSize >= StreamHeaderByteSize
            /\ ~writers[w].isDisturbed
        => StreamError(StreamContent(writers[w])) = "none"
=============================================================================
