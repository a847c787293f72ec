----------------------- MODULE CommandStreamModule_proofs -----------------------
(***************************************************************************)
(* That accepted streams replay what was appended, and accepted modules    *)
(* hold what was added: for any number of lanes, tables and appends, and   *)
(* any damage to the file.                                                 *)
(***************************************************************************)
EXTENDS CommandStreamModule, FiniteSetTheorems, WellFoundedInduction, TLAPS

-----------------------------------------------------------------------------
(* Induction, and the sizes of commands.                                   *)

LessThan == {p \in Nat \X Nat : p[1] < p[2]}

\* A property that fails for some number fails for a least one.
LEMMA LeastNumber ==
    ASSUME NEW S, S \subseteq Nat, S # {}
    PROVE  \E n \in S : \A m \in S : n <= m
<1>1. IsWellFoundedOn(LessThan, Nat)
  <2>1. OpToRel(<, Nat) = LessThan
    BY DEF OpToRel, LessThan
  <2> QED BY <2>1, NatLessThanWellFounded
<1>2. PICK n \in S : \A m \in S : <<m, n>> \notin LessThan
  BY <1>1, WFMin
<1>3. \A m \in S : n <= m
  <2> TAKE m \in S
  <2>1. n \in Nat /\ m \in Nat /\ <<m, n>> \notin LessThan
    BY <1>2
  <2> QED BY <2>1 DEF LessThan
<1> QED BY <1>3

Sizes == {8, 16, 24, 32, 40, 56, 64}

LEMMA CommandSizes ==
    ASSUME NEW command \in Commands
    PROVE  /\ CommandByteSize[command.op] \in Sizes
           /\ command.op \in AssignedOpcodes
<1>1. command.op \in DOMAIN CommandByteSize
  BY CommandsAssumption
<1>2. command.op \in AssignedOpcodes
  BY <1>1 DEF AssignedOpcodes
<1>3. \A op \in DOMAIN CommandByteSize : CommandByteSize[op] \in Sizes
  BY DEF CommandByteSize, ComputeByteSize, TransferByteSize, GraphicsByteSize, Sizes
<1> QED BY <1>1, <1>2, <1>3

LEMMA SizeFacts ==
    \A size \in Sizes :
        /\ size \in Nat /\ size >= 8 /\ size % 8 = 0
        /\ size = 8 \/ size >= 16
        /\ \A at \in Nat : at % 8 = 0 => (at + size) % 8 = 0 /\ (at + 8) % 8 = 0
BY DEF Sizes

-----------------------------------------------------------------------------
(* The writer.  Behind the stream header lie the commands whose appends     *)
(* returned, one after the other; offset[i] is the end of the i-th.         *)

Placed(appended, past, memory, offset) ==
    LET k == Len(appended)
    IN  /\ offset \in [0 .. k -> Nat]
        /\ offset[0] = StreamHeaderByteSize
        /\ offset[k] = past
        /\ \A i \in 0 .. k : offset[i] % 8 = 0 /\ 32 <= offset[i] /\ offset[i] <= past
        /\ \A i \in 1 .. k :
            LET command == appended[i]
                byteSize == CommandByteSize[command.op]
            IN  /\ offset[i] = offset[i - 1] + byteSize
                /\ memory[offset[i - 1]] = CommandHeader(command.op, byteSize)
                /\ \A o \in PayloadWords(offset[i - 1], byteSize) :
                    memory[o] = Payload(command.value)

LaidOut(writer, offset) ==
    Placed(writer.appended, writer.currentByteOffset, writer.memory, offset)

IsWriter(writer) ==
    writer = [targetByteSize |-> writer.targetByteSize,
              laneIndex |-> writer.laneIndex,
              graphHash |-> writer.graphHash,
              currentByteOffset |-> writer.currentByteOffset,
              commandCount |-> writer.commandCount,
              isFinished |-> writer.isFinished,
              header |-> writer.header,
              memory |-> writer.memory,
              appended |-> writer.appended,
              isDisturbed |-> writer.isDisturbed]

WriterTyped(writer) ==
    /\ IsWriter(writer)
    /\ writer.targetByteSize \in Nat
    /\ writer.commandCount \in Nat
    /\ writer.isFinished \in BOOLEAN
    /\ writer.isDisturbed \in BOOLEAN
    /\ writer.appended \in Seq(Commands)
    /\ writer.memory = [at \in Words(StreamHeaderByteSize, writer.targetByteSize) |->
                            writer.memory[at]]

FinishedHeader(writer) ==
    [magic |-> TRUE, version |-> TRUE,
     laneIndex |-> writer.laneIndex,
     commandCount |-> writer.commandCount,
     totalByteSize |-> writer.currentByteOffset,
     graphHash |-> writer.graphHash]

\* A failed append is counted and not appended: the count tells it for ever.
WriterConsistent(writer) ==
    /\ writer.currentByteOffset \in Nat
    /\ writer.appended # <<>> => writer.currentByteOffset <= writer.targetByteSize
    /\ IF writer.isDisturbed THEN writer.commandCount > Len(writer.appended)
       ELSE writer.commandCount = Len(writer.appended)
    /\ writer.header =
        IF writer.isFinished /\ writer.targetByteSize >= StreamHeaderByteSize
        THEN FinishedHeader(writer) ELSE NoStreamHeader

WriterInv(writer) ==
    WriterTyped(writer) /\ WriterConsistent(writer) /\ \E offset : LaidOut(writer, offset)
LEMMA NewWriterInv ==
    ASSUME NEW w \in Writers, NEW recording \in Recordings[w]
    PROVE  WriterInv(NewWriter(recording))
<1> DEFINE writer == NewWriter(recording)
           offset == [i \in 0 .. 0 |-> StreamHeaderByteSize]
<1>1. recording.byteSize \in Nat
  BY RecordingsAssumption
<1>2. WriterTyped(writer)
  BY <1>1 DEF NewWriter, WriterTyped, IsWriter
<1>3. WriterConsistent(writer)
  BY DEF NewWriter, WriterConsistent, StreamHeaderByteSize
<1>4. LaidOut(writer, offset)
  BY DEF NewWriter, LaidOut, Placed, StreamHeaderByteSize
<1> QED BY <1>2, <1>3, <1>4 DEF WriterInv

\* What an append stores lies behind everything before it.
LEMMA StoredFacts ==
    ASSUME NEW writer, WriterInv(writer), NEW command \in Commands
    PROVE  LET at == writer.currentByteOffset
               byteSize == CommandByteSize[command.op]
               memory == Stored(writer, command)
           IN  /\ memory = [o \in Words(StreamHeaderByteSize, writer.targetByteSize) |->
                                memory[o]]
               /\ \A o \in Words(StreamHeaderByteSize, writer.targetByteSize) :
                    o < at => memory[o] = writer.memory[o]
               /\ CommandFits(writer, command) =>
                    /\ memory[at] = CommandHeader(command.op, byteSize)
                    /\ \A o \in PayloadWords(at, byteSize) : memory[o] = Payload(command.value)
<1> DEFINE at == writer.currentByteOffset
           byteSize == CommandByteSize[command.op]
           words == Words(StreamHeaderByteSize, writer.targetByteSize)
           memory == Stored(writer, command)
<1>1. byteSize \in Sizes /\ byteSize \in Nat /\ byteSize >= 8
  BY CommandSizes, SizeFacts
<1>2. /\ at \in Nat /\ at >= 32 /\ at % 8 = 0
      /\ writer.targetByteSize \in Nat /\ DOMAIN writer.memory = words
  <2>1. PICK offset : LaidOut(writer, offset)
    BY DEF WriterInv
  <2>2. Len(writer.appended) \in Nat
    BY DEF WriterInv, WriterTyped
  <2>3. at % 8 = 0 /\ at >= 32
    BY <2>1, <2>2 DEF LaidOut, Placed
  <2> QED BY <2>3 DEF WriterInv, WriterTyped, WriterConsistent
<1>3. memory = [o \in words |->
                    IF o = at THEN CommandHeader(command.op, byteSize)
                    ELSE IF o \in PayloadWords(at, byteSize) THEN Payload(command.value)
                    ELSE writer.memory[o]]
  <2>1. \A o \in PayloadWords(at, byteSize) : o # at
    BY <1>1, <1>2 DEF PayloadWords, Words, CommandHeaderByteSize
  <2> QED BY <1>2, <2>1 DEF Stored
<1>4. \A o \in PayloadWords(at, byteSize) : o > at
  BY <1>1, <1>2 DEF PayloadWords, Words, CommandHeaderByteSize
<1>5. \A o \in words : o \in Int
  BY <1>2 DEF Words, StreamHeaderByteSize
<1> HIDE DEF memory
<1>6. \A o \in words : o < at => memory[o] = writer.memory[o]
  BY <1>2, <1>3, <1>4, <1>5
<1>7. ASSUME CommandFits(writer, command)
      PROVE  at \in words /\ PayloadWords(at, byteSize) \subseteq words
  BY <1>1, <1>2, <1>7
     DEF CommandFits, Words, PayloadWords, StreamHeaderByteSize, CommandHeaderByteSize,
         Alignment
<1>9. \A o \in PayloadWords(at, byteSize) : o # at
  BY <1>1, <1>2 DEF PayloadWords, Words, CommandHeaderByteSize
<1> HIDE DEF words, at, byteSize
<1>8. CommandFits(writer, command) =>
        /\ memory[at] = CommandHeader(command.op, byteSize)
        /\ \A o \in PayloadWords(at, byteSize) : memory[o] = Payload(command.value)
  BY <1>3, <1>7, <1>9
<1> QED BY <1>3, <1>6, <1>8 DEF memory, words, at, byteSize

\* A writer whose memory changed behind its commands has the same commands.
LEMMA LaidOutStays ==
    ASSUME NEW writer, WriterInv(writer), NEW offset, LaidOut(writer, offset), NEW memory,
           writer.appended # <<>> => writer.currentByteOffset <= writer.targetByteSize,
           \A o \in Words(StreamHeaderByteSize, writer.targetByteSize) :
                o < writer.currentByteOffset => memory[o] = writer.memory[o]
    PROVE  \A i \in 1 .. Len(writer.appended) :
            LET command == writer.appended[i]
                byteSize == CommandByteSize[command.op]
            IN  /\ memory[offset[i - 1]] = CommandHeader(command.op, byteSize)
                /\ \A o \in PayloadWords(offset[i - 1], byteSize) :
                    memory[o] = Payload(command.value)
<1> SUFFICES ASSUME NEW i \in 1 .. Len(writer.appended)
             PROVE  LET command == writer.appended[i]
                        byteSize == CommandByteSize[command.op]
                    IN  /\ memory[offset[i - 1]] = CommandHeader(command.op, byteSize)
                        /\ \A o \in PayloadWords(offset[i - 1], byteSize) :
                            memory[o] = Payload(command.value)
  OBVIOUS
<1> DEFINE command == writer.appended[i]
           byteSize == CommandByteSize[command.op]
           at == offset[i - 1]
<1>1. writer.appended \in Seq(Commands) /\ Len(writer.appended) \in Nat
  BY DEF WriterInv, WriterTyped
<1>2. byteSize \in Sizes /\ byteSize \in Nat /\ byteSize >= 8
  <2>1. command \in Commands
    BY <1>1
  <2> HIDE DEF command
  <2> QED BY <2>1, CommandSizes, SizeFacts
<1>3. /\ at \in Nat /\ at >= 32 /\ at % 8 = 0
      /\ offset[i] = at + byteSize /\ offset[i] <= writer.currentByteOffset
      /\ writer.currentByteOffset \in Nat /\ writer.targetByteSize \in Nat
      /\ writer.memory[at] = CommandHeader(command.op, byteSize)
      /\ \A o \in PayloadWords(at, byteSize) : writer.memory[o] = Payload(command.value)
  <2>1. i - 1 \in 0 .. Len(writer.appended) /\ i \in 0 .. Len(writer.appended)
    BY <1>1
  <2> QED BY <2>1 DEF LaidOut, Placed, WriterInv, WriterTyped, WriterConsistent
<1>4. writer.appended # <<>>
  BY <1>1
<1> HIDE DEF at, byteSize
<1>5. /\ at \in Words(StreamHeaderByteSize, writer.targetByteSize)
      /\ at < writer.currentByteOffset
  BY <1>2, <1>3, <1>4 DEF Words, StreamHeaderByteSize, Alignment
<1>6. \A o \in PayloadWords(at, byteSize) :
        /\ o \in Words(StreamHeaderByteSize, writer.targetByteSize)
        /\ o < writer.currentByteOffset
  BY <1>2, <1>3, <1>4 DEF Words, PayloadWords, StreamHeaderByteSize, CommandHeaderByteSize
<1> QED BY <1>3, <1>5, <1>6 DEF at, byteSize

LEMMA AppendInv ==
    ASSUME NEW writer, WriterInv(writer), NEW command \in Commands,
           writer.isFinished = FALSE, CommandFits(writer, command),
           NEW after, IsWriter(after),
           after.memory = Stored(writer, command),
           after.commandCount = writer.commandCount + 1,
           after.currentByteOffset = writer.currentByteOffset + CommandByteSize[command.op],
           after.appended = Append(writer.appended, command),
           after.targetByteSize = writer.targetByteSize,
           after.isFinished = writer.isFinished, after.header = writer.header,
           after.isDisturbed = writer.isDisturbed
    PROVE  WriterInv(after)
<1> DEFINE byteSize == CommandByteSize[command.op]
           k == Len(writer.appended)
<1>1. byteSize \in Sizes /\ byteSize \in Nat /\ byteSize >= 8
  BY CommandSizes, SizeFacts
<1>2. WriterTyped(writer) /\ WriterConsistent(writer)
  BY DEF WriterInv
<1>3. PICK offset : LaidOut(writer, offset)
  BY DEF WriterInv
<1>4. /\ writer.appended \in Seq(Commands) /\ k \in Nat
      /\ writer.currentByteOffset \in Nat
      /\ writer.currentByteOffset + byteSize <= writer.targetByteSize
  BY <1>2 DEF WriterTyped, WriterConsistent, CommandFits
<1> DEFINE appended == Append(writer.appended, command)
           memory == Stored(writer, command)
<1>5. /\ IsWriter(after)
      /\ after.memory = memory /\ after.commandCount = writer.commandCount + 1
      /\ after.currentByteOffset = writer.currentByteOffset + byteSize
      /\ after.appended = appended
      /\ after.targetByteSize = writer.targetByteSize
      /\ after.isFinished = writer.isFinished /\ after.header = writer.header
      /\ after.isDisturbed = writer.isDisturbed
  OBVIOUS
<1> HIDE DEF byteSize
<1>6. /\ Append(writer.appended, command) \in Seq(Commands)
      /\ Len(Append(writer.appended, command)) = k + 1
      /\ \A i \in 1 .. k : Append(writer.appended, command)[i] = writer.appended[i]
      /\ Append(writer.appended, command)[k + 1] = command
      /\ Append(writer.appended, command) # <<>>
  BY <1>4
<1> HIDE DEF appended, memory
<1>7. WriterTyped(after)
  <2>2. memory = [o \in Words(StreamHeaderByteSize, writer.targetByteSize) |-> memory[o]]
    BY StoredFacts DEF memory
  <2>3. appended \in Seq(Commands)
    BY <1>6 DEF appended
  <2>4. /\ writer.targetByteSize \in Nat /\ writer.commandCount + 1 \in Nat
        /\ writer.isFinished \in BOOLEAN /\ writer.isDisturbed \in BOOLEAN
    BY <1>2 DEF WriterTyped
  <2>5. after.memory = [o \in Words(StreamHeaderByteSize, after.targetByteSize) |->
                            after.memory[o]]
    BY <1>5, <2>2
  <2>6. /\ after.targetByteSize \in Nat /\ after.commandCount \in Nat
        /\ after.isFinished \in BOOLEAN /\ after.isDisturbed \in BOOLEAN
        /\ after.appended \in Seq(Commands)
    BY <1>5, <2>3, <2>4
  <2> QED BY <1>5, <2>5, <2>6 DEF WriterTyped
<1>8. WriterConsistent(after)
  <2>1. Len(appended) = k + 1
    BY <1>6 DEF appended
  <2>2. writer.header = NoStreamHeader
    BY <1>2 DEF WriterConsistent
  <2>3. IF writer.isDisturbed THEN writer.commandCount > k ELSE writer.commandCount = k
    BY <1>2 DEF WriterConsistent
  <2>4. writer.commandCount \in Nat
    BY <1>2 DEF WriterTyped
  <2> HIDE DEF k
  <2> QED BY <1>1, <1>4, <1>5, <2>1, <2>2, <2>3, <2>4 DEF WriterConsistent
<1> DEFINE longer == [i \in 0 .. k + 1 |->
                        IF i = k + 1 THEN writer.currentByteOffset + byteSize ELSE offset[i]]
<1>9. LaidOut(after, longer)
  <2>1. \A i \in 0 .. k :
            /\ offset[i] \in Nat /\ offset[i] % 8 = 0 /\ 32 <= offset[i]
            /\ offset[i] <= writer.currentByteOffset
    BY <1>3 DEF LaidOut, Placed
  <2>2. offset[k] = writer.currentByteOffset /\ offset[0] = StreamHeaderByteSize
    BY <1>3 DEF LaidOut, Placed
  <2>3. (writer.currentByteOffset + byteSize) % 8 = 0
    <3>1. writer.currentByteOffset \in Nat /\ writer.currentByteOffset % 8 = 0
      BY <1>4, <2>1, <2>2
    <3> QED BY <1>1, <3>1, SizeFacts
  <2>4. /\ longer \in [0 .. k + 1 -> Nat]
        /\ longer[0] = StreamHeaderByteSize
        /\ longer[k + 1] = after.currentByteOffset
    <3> HIDE DEF k
    <3> QED BY <1>1, <1>4, <1>5, <2>1, <2>2
  <2>5. \A i \in 0 .. k + 1 :
            longer[i] % 8 = 0 /\ 32 <= longer[i] /\ longer[i] <= after.currentByteOffset
    <3> HIDE DEF k
    <3>1. \A i \in 0 .. k : longer[i] = offset[i]
      BY <1>4
    <3>2. longer[k + 1] = writer.currentByteOffset + byteSize
      BY <1>4
    <3>3. writer.currentByteOffset >= 32
      BY <1>4, <2>1, <2>2
    <3>4. \A i \in 0 .. k + 1 : i \in 0 .. k \/ i = k + 1
      BY <1>4
    <3> HIDE DEF longer
    <3> DEFINE past == writer.currentByteOffset + byteSize
    <3>5. /\ past \in Nat /\ past >= 32 /\ past % 8 = 0 /\ after.currentByteOffset = past
          /\ \A n \in Nat : n <= writer.currentByteOffset => n <= past
      BY <1>1, <1>4, <1>5, <2>3, <3>3
    <3> HIDE DEF past
    <3>6. \A i \in 0 .. k :
            longer[i] % 8 = 0 /\ 32 <= longer[i] /\ longer[i] <= after.currentByteOffset
      BY <2>1, <3>1, <3>5
    <3>7. longer[k + 1] = past
      BY <3>2 DEF past
    <3> QED BY <3>4, <3>5, <3>6, <3>7
  <2>6. \A o \in Words(StreamHeaderByteSize, writer.targetByteSize) :
            o < writer.currentByteOffset => Stored(writer, command)[o] = writer.memory[o]
    BY StoredFacts
  <2>7. ASSUME NEW i \in 1 .. k
        PROVE  LET c == after.appended[i]
                   size == CommandByteSize[c.op]
               IN  /\ longer[i] = longer[i - 1] + size
                   /\ after.memory[longer[i - 1]] = CommandHeader(c.op, size)
                   /\ \A o \in PayloadWords(longer[i - 1], size) :
                        after.memory[o] = Payload(c.value)
    <3>1. longer[i] = offset[i] /\ longer[i - 1] = offset[i - 1]
      BY <1>4
    <3>2. offset[i] = offset[i - 1] + CommandByteSize[writer.appended[i].op]
      BY <1>3 DEF LaidOut, Placed
    <3>3. writer.appended # <<>> => writer.currentByteOffset <= writer.targetByteSize
      BY <1>2 DEF WriterConsistent
    <3>4. /\ Stored(writer, command)[offset[i - 1]] =
                CommandHeader(writer.appended[i].op, CommandByteSize[writer.appended[i].op])
          /\ \A o \in PayloadWords(offset[i - 1], CommandByteSize[writer.appended[i].op]) :
                Stored(writer, command)[o] = Payload(writer.appended[i].value)
      BY <1>3, <2>6, <3>3, LaidOutStays
    <3>5. after.appended[i] = writer.appended[i] /\ after.memory = Stored(writer, command)
      BY <1>6, <1>5 DEF appended, memory
    <3> HIDE DEF longer
    <3> QED BY <3>1, <3>2, <3>4, <3>5
  <2>8. LET c == after.appended[k + 1]
            size == CommandByteSize[c.op]
        IN  /\ longer[k + 1] = longer[k] + size
            /\ after.memory[longer[k]] = CommandHeader(c.op, size)
            /\ \A o \in PayloadWords(longer[k], size) : after.memory[o] = Payload(c.value)
    <3>1. longer[k] = writer.currentByteOffset
          /\ longer[k + 1] = writer.currentByteOffset + byteSize
      BY <1>4, <2>2
    <3>2. after.appended[k + 1] = command /\ after.memory = Stored(writer, command)
      BY <1>6, <1>5 DEF appended, memory
    <3> HIDE DEF longer
    <3> QED BY <3>1, <3>2, StoredFacts DEF byteSize
  <2>9. Len(after.appended) = k + 1
    BY <1>6, <1>5 DEF appended
  <2>10. \A i \in 1 .. k + 1 : i \in 1 .. k \/ i = k + 1
    BY <1>4
  <2>11. k + 1 - 1 = k
    BY <1>4
  <2> HIDE DEF longer, k
  <2>12. \A i \in 1 .. k + 1 :
            LET c == after.appended[i]
                size == CommandByteSize[c.op]
            IN  /\ longer[i] = longer[i - 1] + size
                /\ after.memory[longer[i - 1]] = CommandHeader(c.op, size)
                /\ \A o \in PayloadWords(longer[i - 1], size) :
                    after.memory[o] = Payload(c.value)
    <3> TAKE i \in 1 .. k + 1
    <3>1. CASE i \in 1 .. k
      BY <2>7, <3>1
    <3>2. CASE i = k + 1
      <4>1. i - 1 = k
        BY <1>4, <3>2 DEF k
      <4> QED BY <2>8, <3>2, <4>1
    <3> QED BY <2>10, <3>1, <3>2
  <2> QED BY <2>4, <2>5, <2>9, <2>12 DEF LaidOut, Placed
<1> QED BY <1>7, <1>8, <1>9 DEF WriterInv
LEMMA OverflowInv ==
    ASSUME NEW writer, WriterInv(writer), NEW command \in Commands,
           writer.isFinished = FALSE,
           NEW after, IsWriter(after),
           after.memory = Stored(writer, command),
           after.commandCount = writer.commandCount + 1,
           after.isDisturbed = TRUE,
           after.currentByteOffset = writer.currentByteOffset,
           after.appended = writer.appended,
           after.targetByteSize = writer.targetByteSize,
           after.isFinished = writer.isFinished, after.header = writer.header
    PROVE  WriterInv(after)
<1> DEFINE k == Len(writer.appended)
           memory == Stored(writer, command)
<1>1. WriterTyped(writer) /\ WriterConsistent(writer)
  BY DEF WriterInv
<1>2. PICK offset : LaidOut(writer, offset)
  BY DEF WriterInv
<1>3. /\ memory = [o \in Words(StreamHeaderByteSize, writer.targetByteSize) |-> memory[o]]
      /\ \A o \in Words(StreamHeaderByteSize, writer.targetByteSize) :
            o < writer.currentByteOffset => memory[o] = writer.memory[o]
  BY StoredFacts
<1>4. after.memory = memory
  OBVIOUS
<1> HIDE DEF memory
<1>5. WriterTyped(after)
  <2>1. after.memory = [o \in Words(StreamHeaderByteSize, after.targetByteSize) |->
                            after.memory[o]]
    BY <1>3, <1>4
  <2>2. /\ after.targetByteSize \in Nat /\ after.appended \in Seq(Commands)
        /\ writer.commandCount \in Nat
    BY <1>1 DEF WriterTyped
  <2>3. after.isFinished \in BOOLEAN /\ after.isDisturbed \in BOOLEAN
    OBVIOUS
  <2>4. after.commandCount \in Nat
    BY <2>2
  <2> QED BY <2>1, <2>2, <2>3, <2>4 DEF WriterTyped
<1>6. WriterConsistent(after)
  <2>1. /\ IF writer.isDisturbed THEN writer.commandCount > k ELSE writer.commandCount = k
        /\ writer.commandCount \in Nat /\ k \in Nat
        /\ writer.currentByteOffset \in Nat
        /\ writer.appended # <<>> => writer.currentByteOffset <= writer.targetByteSize
        /\ writer.header = NoStreamHeader
    BY <1>1 DEF WriterTyped, WriterConsistent
  <2>2. writer.commandCount + 1 > k
    <3> HIDE DEF k
    <3> QED BY <2>1
  <2> QED BY <2>1, <2>2 DEF WriterConsistent
<1>7. LaidOut(after, offset)
  <2>1. \A i \in 1 .. k :
            LET c == writer.appended[i]
                byteSize == CommandByteSize[c.op]
            IN  /\ memory[offset[i - 1]] = CommandHeader(c.op, byteSize)
                /\ \A o \in PayloadWords(offset[i - 1], byteSize) :
                    memory[o] = Payload(c.value)
    <3>1. writer.appended # <<>> => writer.currentByteOffset <= writer.targetByteSize
      BY <1>1 DEF WriterConsistent
    <3> QED BY <1>2, <1>3, <3>1, LaidOutStays
  <2> QED BY <1>2, <1>4, <2>1 DEF LaidOut, Placed
<1> QED BY <1>5, <1>6, <1>7 DEF WriterInv

LEMMA FinishInv ==
    ASSUME NEW writer, WriterInv(writer), writer.isFinished = FALSE,
           NEW after, IsWriter(after),
           after.isFinished = TRUE,
           after.header = IF writer.targetByteSize < StreamHeaderByteSize
                          THEN writer.header ELSE FinishedHeader(writer),
           after.memory = writer.memory, after.commandCount = writer.commandCount,
           after.isDisturbed = writer.isDisturbed,
           after.currentByteOffset = writer.currentByteOffset,
           after.appended = writer.appended,
           after.targetByteSize = writer.targetByteSize,
           after.laneIndex = writer.laneIndex, after.graphHash = writer.graphHash
    PROVE  WriterInv(after)
<1>1. WriterTyped(writer) /\ WriterConsistent(writer)
  BY DEF WriterInv
<1>2. PICK offset : LaidOut(writer, offset)
  BY DEF WriterInv
<1>3. WriterTyped(after)
  BY <1>1 DEF WriterTyped
<1>4. WriterConsistent(after)
  <2>1. FinishedHeader(after) = FinishedHeader(writer)
    BY DEF FinishedHeader
  <2>2. writer.header = NoStreamHeader /\ writer.targetByteSize \in Nat
    BY <1>1 DEF WriterTyped, WriterConsistent
  <2>3. after.header = IF after.isFinished /\ after.targetByteSize >= StreamHeaderByteSize
                       THEN FinishedHeader(after) ELSE NoStreamHeader
    BY <2>1, <2>2 DEF StreamHeaderByteSize
  <2> QED BY <1>1, <2>3 DEF WriterConsistent
<1>5. LaidOut(after, offset)
  BY <1>2 DEF LaidOut
<1> QED BY <1>3, <1>4, <1>5 DEF WriterInv

WritersInv ==
    /\ writers = [w \in Writers |-> writers[w]]
    /\ \A w \in Writers : WriterInv(writers[w])

LEMMA WritersInit == InitWriters => WritersInv
<1> SUFFICES ASSUME InitWriters PROVE WritersInv
  OBVIOUS
<1>1. PICK chosen \in [Writers -> UNION {Recordings[w] : w \in Writers}] :
        /\ \A w \in Writers : chosen[w] \in Recordings[w]
        /\ writers = [w \in Writers |-> NewWriter(chosen[w])]
  BY DEF InitWriters
<1>2. \A w \in Writers : WriterInv(writers[w])
  BY <1>1, NewWriterInv
<1> QED BY <1>1, <1>2 DEF WritersInv

\* What one call does to a writer, and to no other.
LEMMA WriterStep ==
    ASSUME WritersInv, NEW w \in Writers,
           \/ \E command \in Commands :
                AppendCommand(w, command) \/ AppendOverflows(w, command)
           \/ Finish(w)
    PROVE  /\ writers' = [x \in Writers |-> writers'[x]]
           /\ \A x \in Writers \ {w} : writers'[x] = writers[x]
           /\ WriterInv(writers'[w])
           /\ writers[w].isFinished = FALSE
<1> DEFINE writer == writers[w]
           after == writers'[w]
<1>1. WriterInv(writer) /\ WriterTyped(writer) /\ IsWriter(writer)
      /\ writers = [x \in Writers |-> writers[x]]
  BY DEF WritersInv, WriterInv, WriterTyped
<1>2. writer.isFinished = FALSE
  BY <1>1 DEF AppendCommand, AppendOverflows, Finish, WriterTyped
<1>3. CASE \E command \in Commands : AppendCommand(w, command)
  <2> PICK command \in Commands : AppendCommand(w, command)
    BY <1>3
  <2>1. /\ writers' = [x \in Writers |-> writers'[x]]
        /\ \A x \in Writers \ {w} : writers'[x] = writers[x]
        /\ after = [writer EXCEPT !.memory = Stored(writer, command),
                                  !.commandCount = @ + 1,
                                  !.currentByteOffset = @ + CommandByteSize[command.op],
                                  !.appended = Append(@, command)]
    BY <1>1 DEF AppendCommand, IsWriter
  <2>2. CommandFits(writer, command)
    BY DEF AppendCommand
  <2> HIDE DEF writer, after
  <2> DEFINE memory == Stored(writer, command)
             count == writer.commandCount + 1
             offset == writer.currentByteOffset + CommandByteSize[command.op]
             appended == Append(writer.appended, command)
  <2>3. after = [writer EXCEPT !.memory = memory, !.commandCount = count,
                               !.currentByteOffset = offset, !.appended = appended]
    BY <2>1
  <2> HIDE DEF memory, count, offset, appended
  <2>4. /\ IsWriter(after)
        /\ after.memory = memory /\ after.commandCount = count
        /\ after.currentByteOffset = offset /\ after.appended = appended
        /\ after.targetByteSize = writer.targetByteSize
        /\ after.isFinished = writer.isFinished /\ after.header = writer.header
        /\ after.isDisturbed = writer.isDisturbed
    BY <1>1, <2>3 DEF IsWriter
  <2> USE DEF memory, count, offset, appended
  <2>5. WriterInv(after)
    BY <1>1, <1>2, <2>2, <2>4, AppendInv
  <2> QED BY <1>2, <2>1, <2>5 DEF writer, after
<1>4. CASE \E command \in Commands : AppendOverflows(w, command)
  <2> PICK command \in Commands : AppendOverflows(w, command)
    BY <1>4
  <2>1. /\ writers' = [x \in Writers |-> writers'[x]]
        /\ \A x \in Writers \ {w} : writers'[x] = writers[x]
        /\ after = [writer EXCEPT !.memory = Stored(writer, command),
                                  !.commandCount = @ + 1,
                                  !.isDisturbed = TRUE]
    BY <1>1 DEF AppendOverflows, IsWriter
  <2> HIDE DEF writer, after
  <2> DEFINE memory == Stored(writer, command)
             count == writer.commandCount + 1
  <2>3. after = [writer EXCEPT !.memory = memory, !.commandCount = count,
                               !.isDisturbed = TRUE]
    BY <2>1
  <2> HIDE DEF memory, count
  <2>4. /\ IsWriter(after)
        /\ after.memory = memory /\ after.commandCount = count
        /\ after.isDisturbed = TRUE
        /\ after.currentByteOffset = writer.currentByteOffset
        /\ after.appended = writer.appended
        /\ after.targetByteSize = writer.targetByteSize
        /\ after.isFinished = writer.isFinished /\ after.header = writer.header
    BY <1>1, <2>3 DEF IsWriter
  <2> USE DEF memory, count
  <2>5. WriterInv(after)
    BY <1>1, <1>2, <2>4, OverflowInv
  <2> QED BY <1>2, <2>1, <2>5 DEF writer, after
<1>5. CASE Finish(w)
  <2> DEFINE header == IF writer.targetByteSize < StreamHeaderByteSize
                       THEN writer.header ELSE FinishedHeader(writer)
  <2>1. /\ writers' = [x \in Writers |-> writers'[x]]
        /\ \A x \in Writers \ {w} : writers'[x] = writers[x]
        /\ after = [writer EXCEPT !.isFinished = TRUE, !.header = header]
    BY <1>1, <1>5 DEF Finish, IsWriter, FinishedHeader
  <2> HIDE DEF writer, after, header
  <2>2. /\ IsWriter(after)
        /\ after.isFinished = TRUE /\ after.header = header
        /\ after.memory = writer.memory /\ after.commandCount = writer.commandCount
        /\ after.isDisturbed = writer.isDisturbed
        /\ after.currentByteOffset = writer.currentByteOffset
        /\ after.appended = writer.appended
        /\ after.targetByteSize = writer.targetByteSize
        /\ after.laneIndex = writer.laneIndex /\ after.graphHash = writer.graphHash
    BY <1>1, <2>1 DEF IsWriter
  <2>3. WriterInv(after)
    BY <1>1, <1>2, <2>2, FinishInv DEF header
  <2> QED BY <1>2, <2>1, <2>3 DEF writer, after
<1> QED BY <1>3, <1>4, <1>5
-----------------------------------------------------------------------------
(* The validator's walk over a finished stream.                            *)

WalkStart == [at |-> StreamHeaderByteSize, error |-> "none"]

WalkOn(content, before) ==
    LET error == CommandError(content, before.at)
    IN  IF before.error # "none" THEN before
        ELSE IF error # "none" THEN [at |-> before.at, error |-> error]
        ELSE [at |-> before.at + content.memory[before.at].byteSize, error |-> "none"]

IsWalk(walk, content, k) ==
    walk = [n \in 0 .. k |-> IF n = 0 THEN WalkStart ELSE WalkOn(content, walk[n - 1])]

LEMMA WalkExists ==
    ASSUME NEW content, NEW i \in Nat
    PROVE  \E walk : IsWalk(walk, content, i)
<1> DEFINE without == {n \in Nat : ~\E walk : IsWalk(walk, content, n)}
<1> SUFFICES ASSUME without # {} PROVE FALSE
  OBVIOUS
<1>1. PICK n \in without : \A m \in without : n <= m
  <2>1. without \subseteq Nat
    OBVIOUS
  <2> HIDE DEF without
  <2> QED BY <2>1, LeastNumber
<1>2. CASE n = 0
  <2> DEFINE walk == [m \in 0 .. 0 |-> WalkStart]
  <2>1. IsWalk(walk, content, 0)
    BY DEF IsWalk
  <2> QED BY <1>2, <2>1
<1>3. CASE n # 0
  <2>1. PICK walk : IsWalk(walk, content, n - 1)
    BY <1>1, <1>3
  <2> DEFINE longer == [m \in 0 .. n |->
                            IF m = n THEN WalkOn(content, walk[n - 1]) ELSE walk[m]]
  <2>2. \A m \in 0 .. n - 1 :
            walk[m] = IF m = 0 THEN WalkStart ELSE WalkOn(content, walk[m - 1])
    BY <2>1 DEF IsWalk
  <2>3. \A m \in 0 .. n :
            longer[m] = IF m = 0 THEN WalkStart ELSE WalkOn(content, longer[m - 1])
    <3> TAKE m \in 0 .. n
    <3>1. CASE m = n
      BY <1>3, <3>1
    <3>2. CASE m # n
      <4>1. m \in 0 .. n - 1 /\ (m # 0 => m - 1 \in 0 .. n - 1)
        BY <1>3, <3>2
      <4>2. longer[m] = walk[m] /\ (m # 0 => longer[m - 1] = walk[m - 1])
        BY <1>3, <3>2, <4>1
      <4> QED BY <2>2, <4>1, <4>2
    <3> QED BY <3>1, <3>2
  <2>4. longer = [m \in 0 .. n |->
                    IF m = 0 THEN WalkStart ELSE WalkOn(content, longer[m - 1])]
    BY <2>3
  <2>5. IsWalk(longer, content, n)
    BY <2>4 DEF IsWalk
  <2> QED BY <2>5
<1> QED BY <1>2, <1>3

Walks(walk, content) ==
    /\ walk[0] = WalkStart
    /\ \A n \in 1 .. content.header.commandCount : walk[n] = WalkOn(content, walk[n - 1])

LEMMA WalkSteps ==
    ASSUME NEW content, content.header.commandCount \in Nat
    PROVE  \E walk :
            Walk(content) = walk[content.header.commandCount] /\ Walks(walk, content)
<1> DEFINE k == content.header.commandCount
           walk == CHOOSE g : IsWalk(g, content, k)
<1>1. Walk(content) = walk[k]
  BY DEF Walk, IsWalk, WalkStart, WalkOn
<1>2. IsWalk(walk, content, k)
  BY WalkExists
<1> HIDE DEF walk, k
<1>3. k \in Nat
  BY DEF k
<1>4. \A n \in 0 .. k : walk[n] = IF n = 0 THEN WalkStart ELSE WalkOn(content, walk[n - 1])
  BY <1>2 DEF IsWalk
<1>5. walk[0] = WalkStart
  BY <1>3, <1>4
<1>6. \A n \in 1 .. k : walk[n] = WalkOn(content, walk[n - 1])
  BY <1>3, <1>4
<1> QED BY <1>1, <1>5, <1>6 DEF k, Walks

\* A stream with its header.
Sealed(writer) ==
    /\ WriterInv(writer)
    /\ writer.isFinished = TRUE
    /\ writer.targetByteSize >= StreamHeaderByteSize

\* What the bytes that a finished writer hands over hold.
LEMMA ContentFacts ==
    ASSUME NEW writer, Sealed(writer)
    PROVE  LET content == StreamContent(writer)
           IN  /\ content.byteSize = writer.currentByteOffset
               /\ content.header = FinishedHeader(writer)
               /\ \A o \in Words(StreamHeaderByteSize, writer.currentByteOffset) :
                    content.memory[o] = writer.memory[o]
               /\ writer.currentByteOffset \in Nat
               /\ writer.currentByteOffset >= 32
               /\ writer.currentByteOffset % 8 = 0
               /\ writer.commandCount \in Nat
<1>1. writer.targetByteSize \in Nat /\ writer.currentByteOffset \in Nat
      /\ writer.commandCount \in Nat /\ writer.header = FinishedHeader(writer)
  BY DEF Sealed, WriterInv, WriterTyped, WriterConsistent
<1>2. writer.currentByteOffset >= 32 /\ writer.currentByteOffset % 8 = 0
  <2>1. PICK offset : LaidOut(writer, offset)
    BY DEF Sealed, WriterInv
  <2>2. Len(writer.appended) \in Nat
    BY DEF Sealed, WriterInv, WriterTyped
  <2> QED BY <2>1, <2>2 DEF LaidOut, Placed
<1> QED BY <1>1, <1>2 DEF Sealed, StreamContent, StreamHeaderByteSize

\* A command that lies between two offsets of these bytes, where the walk takes it.
CommandLies(content, command, at, next) ==
    /\ content.memory[at] = CommandHeader(command.op, CommandByteSize[command.op])
    /\ \A o \in PayloadWords(at, CommandByteSize[command.op]) :
        content.memory[o] = Payload(command.value)
    /\ at \in Nat /\ at >= 32 /\ at % 8 = 0 /\ at < content.byteSize
    /\ CommandByteSize[command.op] \in Sizes
    /\ next = at + CommandByteSize[command.op]
    /\ CommandError(content, at) = "none"

LEMMA CommandFacts ==
    ASSUME NEW writer, Sealed(writer), NEW offset, LaidOut(writer, offset)
    PROVE  \A i \in 1 .. Len(writer.appended) :
            CommandLies(StreamContent(writer), writer.appended[i], offset[i - 1], offset[i])
<1> TAKE i \in 1 .. Len(writer.appended)
<1> DEFINE content == StreamContent(writer)
           command == writer.appended[i]
           byteSize == CommandByteSize[command.op]
           at == offset[i - 1]
           past == writer.currentByteOffset
<1>1. writer.appended \in Seq(Commands) /\ Len(writer.appended) \in Nat
  BY DEF Sealed, WriterInv, WriterTyped
<1>2. byteSize \in Sizes /\ byteSize \in Nat /\ byteSize >= 8 /\ byteSize % 8 = 0
      /\ command.op \in AssignedOpcodes
  <2>1. command \in Commands
    BY <1>1
  <2> HIDE DEF command
  <2> QED BY <2>1, CommandSizes, SizeFacts
<1>3. /\ content.byteSize = past /\ content.header = FinishedHeader(writer)
      /\ \A o \in Words(StreamHeaderByteSize, past) : content.memory[o] = writer.memory[o]
      /\ past \in Nat
  BY ContentFacts
<1>4. /\ at \in Nat /\ at >= 32 /\ at % 8 = 0
      /\ offset[i] = at + byteSize /\ offset[i] <= past
      /\ writer.memory[at] = CommandHeader(command.op, byteSize)
      /\ \A o \in PayloadWords(at, byteSize) : writer.memory[o] = Payload(command.value)
  <2>1. i - 1 \in 0 .. Len(writer.appended) /\ i \in 0 .. Len(writer.appended)
    BY <1>1
  <2> QED BY <2>1 DEF LaidOut, Placed
<1> HIDE DEF content, command, byteSize, at, past
<1>5. at < past
  BY <1>2, <1>3, <1>4
<1>6. content.memory[at] = CommandHeader(command.op, byteSize)
  <2>1. at \in Words(StreamHeaderByteSize, past)
    BY <1>3, <1>4, <1>5 DEF Words, StreamHeaderByteSize, Alignment
  <2> QED BY <1>3, <1>4, <2>1
<1>7. \A o \in PayloadWords(at, byteSize) : content.memory[o] = Payload(command.value)
  <2>1. \A o \in PayloadWords(at, byteSize) : o \in Words(StreamHeaderByteSize, past)
    BY <1>2, <1>3, <1>4
       DEF Words, PayloadWords, StreamHeaderByteSize, CommandHeaderByteSize
  <2> QED BY <1>3, <1>4, <2>1
<1>8. CommandError(content, at) = "none"
  <2>1. content.header.totalByteSize = past
    BY <1>3 DEF FinishedHeader, past
  <2>2. ~PassesEnd(content, at + CommandHeaderByteSize) /\ ~PassesEnd(content, at + byteSize)
    BY <1>2, <1>3, <1>4, <2>1 DEF PassesEnd, CommandHeaderByteSize
  <2>3. LET word == content.memory[at]
        IN  /\ word.isHeader = TRUE /\ word.op = command.op /\ word.byteSize = byteSize
    BY <1>6 DEF CommandHeader
  <2>4. ~(byteSize < CommandHeaderByteSize \/ byteSize % Alignment # 0)
    BY <1>2 DEF CommandHeaderByteSize, Alignment
  <2> QED BY <1>2, <2>2, <2>3, <2>4 DEF CommandError
<1>9. CommandLies(content, command, at, offset[i])
  BY <1>2, <1>3, <1>4, <1>5, <1>6, <1>7, <1>8 DEF CommandLies, byteSize
<1> QED BY <1>9 DEF content, command, at
\* The walk takes the appended commands one by one, and goes no further.
LEMMA WalkTakesAppends ==
    ASSUME NEW writer, Sealed(writer), NEW offset, LaidOut(writer, offset),
           NEW walk, Walks(walk, StreamContent(writer))
    PROVE  /\ \A n \in 0 .. Len(writer.appended) :
                walk[n] = [at |-> offset[n], error |-> "none"]
           /\ \A n \in Len(writer.appended) + 1 .. writer.commandCount :
                walk[n].error = "TruncatedCommand"
<1> DEFINE content == StreamContent(writer)
           k == Len(writer.appended)
           count == writer.commandCount
           past == writer.currentByteOffset
<1>1. k \in Nat /\ count \in Nat /\ k <= count
  BY DEF Sealed, WriterInv, WriterTyped, WriterConsistent
<1>2. /\ past \in Nat
      /\ content.header.totalByteSize = past /\ content.header.commandCount = count
  <2>1. past \in Nat /\ content.header = FinishedHeader(writer)
    BY ContentFacts
  <2> QED BY <2>1 DEF FinishedHeader
<1>3. offset[0] = StreamHeaderByteSize /\ offset[k] = past
  BY DEF LaidOut, Placed
<1>4. \A i \in 1 .. k :
        /\ CommandError(content, offset[i - 1]) = "none"
        /\ offset[i] = offset[i - 1] + content.memory[offset[i - 1]].byteSize
  <2> TAKE i \in 1 .. k
  <2>1. CommandLies(content, writer.appended[i], offset[i - 1], offset[i])
    BY CommandFacts
  <2> HIDE DEF content
  <2> QED BY <2>1 DEF CommandHeader, CommandLies
<1> HIDE DEF content, k, count, past
<1>5. walk[0] = WalkStart /\ \A n \in 1 .. count : walk[n] = WalkOn(content, walk[n - 1])
  BY <1>2 DEF Walks, content
<1>6. \A n \in 0 .. k : walk[n] = [at |-> offset[n], error |-> "none"]
  <2> DEFINE other == {n \in 0 .. k : walk[n] # [at |-> offset[n], error |-> "none"]}
  <2> SUFFICES ASSUME other # {} PROVE FALSE
    OBVIOUS
  <2>1. PICK n \in other : \A m \in other : n <= m
    <3>1. other \subseteq Nat
      BY <1>1
    <3> HIDE DEF other
    <3> QED BY <3>1, LeastNumber
  <2>2. n # 0
    BY <1>3, <1>5, <2>1 DEF WalkStart
  <2>3. n \in 1 .. k /\ n - 1 \in 0 .. k /\ n \in 1 .. count /\ ~(n <= n - 1)
    BY <1>1, <2>1, <2>2
  <2>4. walk[n - 1] = [at |-> offset[n - 1], error |-> "none"]
    BY <2>1, <2>3
  <2>5. walk[n] = [at |-> offset[n], error |-> "none"]
    BY <1>4, <1>5, <2>3, <2>4 DEF WalkOn
  <2> QED BY <2>1, <2>5
<1>7. \A n \in k + 1 .. count : walk[n].error = "TruncatedCommand"
  <2> DEFINE other == {n \in k + 1 .. count : walk[n].error # "TruncatedCommand"}
  <2> SUFFICES ASSUME other # {} PROVE FALSE
    OBVIOUS
  <2>1. PICK n \in other : \A m \in other : n <= m
    <3>1. other \subseteq Nat
      BY <1>1
    <3> HIDE DEF other
    <3> QED BY <3>1, LeastNumber
  <2>2. n \in 1 .. count /\ n \in Nat
    BY <1>1, <2>1
  <2>3. walk[n] = WalkOn(content, walk[n - 1])
    BY <1>5, <2>2
  <2>4. CASE n = k + 1
    <3>1. n - 1 = k
      BY <1>1, <2>4
    <3>2. walk[n - 1] = [at |-> past, error |-> "none"]
      BY <1>1, <1>3, <1>6, <3>1
    <3>3. CommandError(content, past) = "TruncatedCommand"
      BY <1>2 DEF CommandError, PassesEnd, CommandHeaderByteSize
    <3> QED BY <2>1, <2>3, <3>2, <3>3 DEF WalkOn
  <2>5. CASE n # k + 1
    <3>1. n - 1 \in k + 1 .. count /\ ~(n <= n - 1)
      BY <1>1, <2>1, <2>5
    <3>2. walk[n - 1].error = "TruncatedCommand"
      BY <2>1, <3>1
    <3> QED BY <2>1, <2>3, <3>2 DEF WalkOn
  <2> QED BY <2>4, <2>5
<1> QED BY <1>6, <1>7 DEF k, count

\* The validator's decision: the segment had room for the header, and no append
\* failed half-way.
LEMMA StreamDecision ==
    ASSUME NEW writer, WriterInv(writer), writer.isFinished = TRUE
    PROVE  StreamError(StreamContent(writer)) = "none"
            <=> writer.targetByteSize >= StreamHeaderByteSize /\ writer.isDisturbed = FALSE
<1> DEFINE content == StreamContent(writer)
           k == Len(writer.appended)
           count == writer.commandCount
<1>1. /\ k \in Nat /\ count \in Nat /\ writer.targetByteSize \in Nat
      /\ writer.isDisturbed \in BOOLEAN
      /\ IF writer.isDisturbed THEN count > k ELSE count = k
  BY DEF WriterInv, WriterTyped, WriterConsistent
<1>2. CASE ~(writer.targetByteSize >= StreamHeaderByteSize)
  <2>1. content.byteSize < StreamHeaderByteSize
    BY <1>1, <1>2 DEF StreamContent, StreamHeaderByteSize
  <2> QED BY <1>2, <2>1 DEF StreamError
<1>3. CASE writer.targetByteSize >= StreamHeaderByteSize
  <2> Sealed(writer)
    BY <1>3 DEF Sealed
  <2>1. PICK offset : LaidOut(writer, offset)
    BY DEF WriterInv
  <2>2. /\ content.byteSize = writer.currentByteOffset
        /\ content.header = FinishedHeader(writer)
        /\ writer.currentByteOffset \in Nat /\ writer.currentByteOffset >= 32
    BY <1>3, ContentFacts
  <2>3. /\ content.header.commandCount = count
        /\ content.header.totalByteSize = content.byteSize
        /\ content.header.magic = TRUE /\ content.header.version = TRUE
        /\ ~(content.byteSize < StreamHeaderByteSize)
    BY <2>2 DEF FinishedHeader, StreamHeaderByteSize
  <2>4. PICK walk : Walk(content) = walk[count] /\ Walks(walk, content)
    <3> HIDE DEF content, count
    <3> QED BY <1>1, <2>3, WalkSteps
  <2>5. /\ \A n \in 0 .. k : walk[n] = [at |-> offset[n], error |-> "none"]
        /\ \A n \in k + 1 .. count : walk[n].error = "TruncatedCommand"
    BY <2>1, <2>4, WalkTakesAppends
  <2>6. offset[k] = content.byteSize
    BY <2>1, <2>2 DEF LaidOut, Placed
  <2> HIDE DEF content, k, count
  <2>7. CASE writer.isDisturbed = TRUE
    <3>1. Walk(content).error = "TruncatedCommand"
      BY <1>1, <2>4, <2>5, <2>7
    <3>2. StreamError(content) = "TruncatedCommand"
      BY <2>3, <3>1 DEF StreamError
    <3> QED BY <2>7, <3>2 DEF content
  <2>8. CASE writer.isDisturbed = FALSE
    <3>1. Walk(content) = [at |-> content.byteSize, error |-> "none"]
      BY <1>1, <2>4, <2>5, <2>6, <2>8
    <3>2. StreamError(content) = "none"
      BY <2>3, <3>1 DEF StreamError
    <3> QED BY <1>3, <2>8, <3>2 DEF content
  <2> QED BY <1>1, <2>7, <2>8
<1> QED BY <1>2, <1>3
-----------------------------------------------------------------------------
(* The view's iterator.                                                    *)

Increment(content, at) ==
    IF at = content.byteSize THEN content.byteSize
    ELSE at + content.memory[at].byteSize

IsIterator(at, content, k) ==
    at = [n \in 0 .. k |->
            IF n = 0 THEN StreamHeaderByteSize ELSE Increment(content, at[n - 1])]

LEMMA IteratorExists ==
    ASSUME NEW content, NEW i \in Nat
    PROVE  \E at : IsIterator(at, content, i)
<1> DEFINE without == {n \in Nat : ~\E at : IsIterator(at, content, n)}
<1> SUFFICES ASSUME without # {} PROVE FALSE
  OBVIOUS
<1>1. PICK n \in without : \A m \in without : n <= m
  <2>1. without \subseteq Nat
    OBVIOUS
  <2> HIDE DEF without
  <2> QED BY <2>1, LeastNumber
<1>2. CASE n = 0
  <2> DEFINE at == [m \in 0 .. 0 |-> StreamHeaderByteSize]
  <2>1. IsIterator(at, content, 0)
    BY DEF IsIterator
  <2> QED BY <1>2, <2>1
<1>3. CASE n # 0
  <2>1. PICK at : IsIterator(at, content, n - 1)
    BY <1>1, <1>3
  <2> DEFINE longer == [m \in 0 .. n |->
                            IF m = n THEN Increment(content, at[n - 1]) ELSE at[m]]
  <2>2. \A m \in 0 .. n - 1 :
            at[m] = IF m = 0 THEN StreamHeaderByteSize ELSE Increment(content, at[m - 1])
    BY <2>1 DEF IsIterator
  <2>3. \A m \in 0 .. n :
            longer[m] = IF m = 0 THEN StreamHeaderByteSize
                        ELSE Increment(content, longer[m - 1])
    <3> TAKE m \in 0 .. n
    <3>1. CASE m = n
      BY <1>3, <3>1
    <3>2. CASE m # n
      <4>1. m \in 0 .. n - 1 /\ (m # 0 => m - 1 \in 0 .. n - 1)
        BY <1>3, <3>2
      <4>2. longer[m] = at[m] /\ (m # 0 => longer[m - 1] = at[m - 1])
        BY <1>3, <3>2, <4>1
      <4> QED BY <2>2, <4>1, <4>2
    <3> QED BY <3>1, <3>2
  <2>4. longer = [m \in 0 .. n |-> IF m = 0 THEN StreamHeaderByteSize
                                   ELSE Increment(content, longer[m - 1])]
    BY <2>3
  <2>5. IsIterator(longer, content, n)
    BY <2>4 DEF IsIterator
  <2> QED BY <2>5
<1> QED BY <1>2, <1>3

LEMMA IteratorSteps ==
    ASSUME NEW content, NEW k \in Nat, content.byteSize \div Alignment = k
    PROVE  /\ DOMAIN Iterator(content) = 0 .. k
           /\ Iterator(content)[0] = StreamHeaderByteSize
           /\ \A n \in 1 .. k :
                Iterator(content)[n] = Increment(content, Iterator(content)[n - 1])
<1> DEFINE at == CHOOSE g : IsIterator(g, content, k)
<1>1. Iterator(content) = at
  BY DEF Iterator, IsIterator, Increment
<1>2. IsIterator(at, content, k)
  BY IteratorExists
<1> HIDE DEF at
<1>3. /\ DOMAIN at = 0 .. k
      /\ \A n \in 0 .. k :
            at[n] = IF n = 0 THEN StreamHeaderByteSize ELSE Increment(content, at[n - 1])
  BY <1>2 DEF IsIterator
<1>4. at[0] = StreamHeaderByteSize /\ \A n \in 1 .. k : at[n] = Increment(content, at[n - 1])
  BY <1>3
<1> QED BY <1>1, <1>3, <1>4

\* What the iterator yields for an appended command.
Replayed(command) ==
    [op |-> command.op,
     values |-> IF CommandByteSize[command.op] = CommandHeaderByteSize
                THEN {} ELSE {command.value}]

LEMMA CommandReplayed ==
    ASSUME NEW content, NEW command, NEW at, NEW next,
           CommandLies(content, command, at, next)
    PROVE  /\ CommandAt(content, at) = Replayed(command)
           /\ Increment(content, at) = next
           /\ at # content.byteSize /\ at + 8 <= next
<1> DEFINE byteSize == CommandByteSize[command.op]
<1>1. /\ content.memory[at] = CommandHeader(command.op, byteSize)
      /\ \A o \in PayloadWords(at, byteSize) : content.memory[o] = Payload(command.value)
      /\ at \in Nat /\ at % 8 = 0 /\ at < content.byteSize
      /\ byteSize \in Sizes /\ next = at + byteSize
  BY DEF CommandLies
<1> HIDE DEF byteSize
<1>2. /\ byteSize \in Nat /\ byteSize >= 8 /\ byteSize % 8 = 0
      /\ byteSize = 8 \/ byteSize >= 16
      /\ (at + 8) % 8 = 0
  BY <1>1, SizeFacts
<1>3. /\ content.memory[at].op = command.op
      /\ content.memory[at].byteSize = byteSize
  BY <1>1 DEF CommandHeader
<1>4. {content.memory[o].value : o \in PayloadWords(at, byteSize)}
        = IF byteSize = CommandHeaderByteSize THEN {} ELSE {command.value}
  <2>1. \A o \in PayloadWords(at, byteSize) : content.memory[o].value = command.value
    BY <1>1 DEF Payload
  <2>2. CASE byteSize = 8
    <3>1. PayloadWords(at, byteSize) = {}
      BY <1>1, <2>2 DEF PayloadWords, Words, CommandHeaderByteSize
    <3> QED BY <2>2, <3>1 DEF CommandHeaderByteSize
  <2>3. CASE byteSize >= 16
    <3>1. at + 8 \in PayloadWords(at, byteSize)
      BY <1>1, <1>2, <2>3 DEF PayloadWords, Words, CommandHeaderByteSize, Alignment
    <3>2. byteSize # CommandHeaderByteSize
      BY <1>2, <2>3 DEF CommandHeaderByteSize
    <3> QED BY <2>1, <3>1, <3>2
  <2> QED BY <1>2, <2>2, <2>3
<1>5. CommandAt(content, at) = Replayed(command)
  BY <1>3, <1>4 DEF CommandAt, Replayed, PayloadWords, byteSize
<1>6. at # content.byteSize /\ Increment(content, at) = next
  BY <1>1, <1>3 DEF Increment
<1> QED BY <1>1, <1>2, <1>5, <1>6

\* What the iterator yields between begin and end of a complete stream.
LEMMA StreamReplayed ==
    ASSUME NEW writer, Sealed(writer)
    PROVE  Iterated(StreamContent(writer))
            = [i \in 1 .. Len(writer.appended) |-> Replayed(writer.appended[i])]
<1> DEFINE content == StreamContent(writer)
           appended == writer.appended
           k == Len(appended)
           words == content.byteSize \div Alignment
           iterator == Iterator(content)
<1>1. PICK offset : LaidOut(writer, offset)
  BY DEF Sealed, WriterInv
<1>2. k \in Nat
  BY DEF Sealed, WriterInv, WriterTyped
<1>3. content.byteSize \in Nat /\ content.byteSize = writer.currentByteOffset
  BY ContentFacts
<1>4. /\ offset[0] = StreamHeaderByteSize /\ offset[k] = content.byteSize
      /\ \A i \in 0 .. k : offset[i] \in Nat
  BY <1>1, <1>3 DEF LaidOut, Placed
<1>5. \A i \in 1 .. k : CommandLies(content, appended[i], offset[i - 1], offset[i])
  BY <1>1, CommandFacts
<1> HIDE DEF content, appended, k
<1>6. \A i \in 1 .. k :
        /\ CommandAt(content, offset[i - 1]) = Replayed(appended[i])
        /\ Increment(content, offset[i - 1]) = offset[i]
        /\ offset[i - 1] # content.byteSize
        /\ offset[i - 1] + 8 <= offset[i]
  BY <1>5, CommandReplayed
<1>7. \A i \in 0 .. k : 32 + 8 * i <= offset[i]
  <2> DEFINE other == {i \in 0 .. k : ~(32 + 8 * i <= offset[i])}
  <2> SUFFICES ASSUME other # {} PROVE FALSE
    OBVIOUS
  <2>1. PICK n \in other : \A m \in other : n <= m
    <3>1. other \subseteq Nat
      BY <1>2
    <3> HIDE DEF other
    <3> QED BY <3>1, LeastNumber
  <2>2. n # 0
    BY <1>4, <2>1 DEF StreamHeaderByteSize
  <2>3. n \in 1 .. k /\ n - 1 \in 0 .. k /\ ~(n <= n - 1)
    BY <1>2, <2>1, <2>2
  <2>4. 32 + 8 * (n - 1) <= offset[n - 1]
    BY <2>1, <2>3
  <2> QED BY <1>4, <1>6, <2>1, <2>3, <2>4
<1>8. words \in Nat /\ k <= words
  <2>1. 32 + 8 * k <= content.byteSize
    BY <1>2, <1>4, <1>7
  <2> QED BY <1>2, <1>3, <2>1 DEF Alignment
<1>9. /\ DOMAIN iterator = 0 .. words
      /\ iterator[0] = StreamHeaderByteSize
      /\ \A n \in 1 .. words : iterator[n] = Increment(content, iterator[n - 1])
  BY <1>8, IteratorSteps
<1> HIDE DEF iterator, words
<1>10. \A n \in 0 .. k : iterator[n] = offset[n]
  <2> DEFINE other == {n \in 0 .. k : iterator[n] # offset[n]}
  <2> SUFFICES ASSUME other # {} PROVE FALSE
    OBVIOUS
  <2>1. PICK n \in other : \A m \in other : n <= m
    <3>1. other \subseteq Nat
      BY <1>2
    <3> HIDE DEF other
    <3> QED BY <3>1, LeastNumber
  <2>2. n # 0
    BY <1>4, <1>9, <2>1
  <2>3. n \in 1 .. k /\ n - 1 \in 0 .. k /\ n \in 1 .. words /\ ~(n <= n - 1)
    BY <1>2, <1>8, <2>1, <2>2
  <2>4. iterator[n - 1] = offset[n - 1]
    BY <2>1, <2>3
  <2> QED BY <1>6, <1>9, <2>1, <2>3, <2>4
<1>11. \A n \in 0 .. k - 1 : iterator[n] # content.byteSize
  <2> TAKE n \in 0 .. k - 1
  <2>1. n + 1 \in 1 .. k /\ (n + 1) - 1 = n /\ n \in 0 .. k
    BY <1>2
  <2> QED BY <1>6, <1>10, <2>1
<1> DEFINE Ends(n) == /\ iterator[n] = content.byteSize
                      /\ \A m \in 0 .. n - 1 : iterator[m] # content.byteSize
<1>12. (CHOOSE n \in DOMAIN iterator : Ends(n)) = k
  <2>1. k \in DOMAIN iterator /\ Ends(k)
    BY <1>2, <1>4, <1>8, <1>9, <1>10, <1>11
  <2>2. \A n \in DOMAIN iterator : Ends(n) => n = k
    <3> SUFFICES ASSUME NEW n \in DOMAIN iterator, Ends(n), n # k PROVE FALSE
      OBVIOUS
    <3>1. n \in Nat /\ (n < k \/ k < n)
      BY <1>2, <1>8, <1>9
    <3>2. n < k => n \in 0 .. k - 1
      BY <1>2, <3>1
    <3>3. k < n => k \in 0 .. n - 1
      BY <1>2, <3>1
    <3> QED BY <1>11, <2>1, <3>1, <3>2, <3>3
  <2> HIDE DEF Ends
  <2> QED BY <2>1, <2>2
<1>13. Iterated(content) = [i \in 1 .. k |-> CommandAt(content, iterator[i - 1])]
  BY <1>12 DEF Iterated, iterator
<1>14. \A i \in 1 .. k : CommandAt(content, iterator[i - 1]) = Replayed(appended[i])
  <2> TAKE i \in 1 .. k
  <2>1. i - 1 \in 0 .. k
    BY <1>2
  <2> QED BY <1>6, <1>10, <2>1
<1>15. Iterated(content) = [i \in 1 .. k |-> Replayed(appended[i])]
  BY <1>13, <1>14
<1> QED BY <1>15 DEF content, appended, k

LEMMA StreamsReplayed == WritersInv => AcceptedStreamsReplayAppends
<1> SUFFICES ASSUME WritersInv, NEW w \in Writers, writers[w].isFinished,
                    StreamError(StreamContent(writers[w])) = "none"
             PROVE  LET appended == writers[w].appended
                    IN  Iterated(StreamContent(writers[w])) =
                        [i \in DOMAIN appended |->
                            [op |-> appended[i].op,
                             values |-> IF CommandByteSize[appended[i].op]
                                           = CommandHeaderByteSize
                                        THEN {} ELSE {appended[i].value}]]
  BY DEF AcceptedStreamsReplayAppends
<1> DEFINE writer == writers[w]
<1>1. WriterInv(writer)
  BY DEF WritersInv
<1>2. writer.isFinished = TRUE /\ writer.appended \in Seq(Commands)
  BY <1>1 DEF WriterInv, WriterTyped
<1>3. Sealed(writer)
  BY <1>1, <1>2, StreamDecision DEF Sealed
<1>4. DOMAIN writer.appended = 1 .. Len(writer.appended)
  BY <1>2
<1> HIDE DEF writer
<1>5. Iterated(StreamContent(writer))
        = [i \in 1 .. Len(writer.appended) |-> Replayed(writer.appended[i])]
  BY <1>3, StreamReplayed
<1> QED BY <1>4, <1>5 DEF Replayed, writer

LEMMA StreamsAccepted == WritersInv => UndisturbedStreamsAreAccepted
<1> SUFFICES ASSUME WritersInv, NEW w \in Writers, writers[w].isFinished,
                    writers[w].targetByteSize >= StreamHeaderByteSize,
                    ~writers[w].isDisturbed
             PROVE  StreamError(StreamContent(writers[w])) = "none"
  BY DEF UndisturbedStreamsAreAccepted
<1> DEFINE writer == writers[w]
<1>1. WriterInv(writer)
  BY DEF WritersInv
<1>2. writer.isFinished = TRUE /\ writer.isDisturbed = FALSE
  BY <1>1 DEF WriterInv, WriterTyped
<1> HIDE DEF writer
<1>3. StreamError(StreamContent(writer)) = "none"
  BY <1>1, <1>2, StreamDecision DEF writer
<1> QED BY <1>3 DEF writer
-----------------------------------------------------------------------------
(* The module's writer: what it keeps and what it has written.              *)

Sections ==
    [type : {"LaneStream"}, sectionIndex : Nat, writer : Writers]
        \cup [type : TableTypes, sectionIndex : Nat]

Identity(section) == <<section.type, section.sectionIndex>>

\* A lane was verified when it was added, and its writer stays as it was.
SectionsInv ==
    /\ pendingSections \in Seq(Sections)
    /\ \A n \in DOMAIN pendingSections :
        Identity(pendingSections[n]) \in usedSectionIdentities
    /\ \A m, n \in DOMAIN pendingSections :
        m # n => Identity(pendingSections[m]) # Identity(pendingSections[n])
    /\ \A n \in LaneSections :
        LaneContentVerified(pendingSections[n].sectionIndex, ContentOf(pendingSections[n]))

IsEntry(entry) ==
    /\ entry = [type |-> entry.type, reservedFlags |-> entry.reservedFlags,
                sectionIndex |-> entry.sectionIndex, byteOffset |-> entry.byteOffset,
                byteSize |-> entry.byteSize]
    /\ entry.sectionIndex \in Nat
    /\ entry.byteOffset \in Int
    /\ entry.byteSize \in Int

IsHeader(header) ==
    /\ header = [magic |-> header.magic, version |-> header.version,
                 sectionCount |-> header.sectionCount,
                 laneStreamCount |-> header.laneStreamCount,
                 totalByteSize |-> header.totalByteSize,
                 graphHash |-> header.graphHash]
    /\ header.sectionCount \in Nat
    /\ header.laneStreamCount \in Int
    /\ header.totalByteSize \in Int

\* Damage changes the header and the entries, and nothing else.
IsFile(f) ==
    /\ f = [byteSize |-> f.byteSize, header |-> f.header, directory |-> f.directory,
            placed |-> f.placed, changes |-> f.changes]
    /\ f.byteSize \in Nat
    /\ IsHeader(f.header)
    /\ f.directory = [n \in DOMAIN f.directory |-> f.directory[n]]
    /\ \A n \in DOMAIN f.directory : IsEntry(f.directory[n])
    /\ f.changes \in Nat

FileInv ==
    \/ file = NoFile
    \/ /\ IsFile(file)
       /\ file.changes = 0 => file = EmittedFile /\ LanesContiguous

ModuleInv == WritersInv /\ SectionsInv /\ FileInv
-----------------------------------------------------------------------------
(* Where the sections go.                                                  *)

LEMMA AlignUpFacts ==
    \A x \in Nat : AlignUp(x) \in Nat /\ AlignUp(x) >= x /\ AlignUp(x) % 8 = 0
BY DEF AlignUp, Alignment

LEMMA DirectoryEndFacts ==
    \A n \in Nat : DirectoryEnd(n) \in Nat /\ DirectoryEnd(n) % 8 = 0
BY DEF DirectoryEnd, ModuleHeaderByteSize, SectionEntryByteSize

AreOffsets(after, contents, k) ==
    after = [i \in 0 .. k |->
                IF i = 0 THEN DirectoryEnd(Len(contents))
                ELSE AlignUp(after[i - 1] + contents[i].byteSize)]

LEMMA OffsetsExist ==
    ASSUME NEW contents, NEW i \in Nat
    PROVE  \E after : AreOffsets(after, contents, i)
<1> DEFINE without == {n \in Nat : ~\E after : AreOffsets(after, contents, n)}
<1> SUFFICES ASSUME without # {} PROVE FALSE
  OBVIOUS
<1>1. PICK n \in without : \A m \in without : n <= m
  <2>1. without \subseteq Nat
    OBVIOUS
  <2> HIDE DEF without
  <2> QED BY <2>1, LeastNumber
<1>2. CASE n = 0
  <2> DEFINE after == [m \in 0 .. 0 |-> DirectoryEnd(Len(contents))]
  <2>1. AreOffsets(after, contents, 0)
    BY DEF AreOffsets
  <2> QED BY <1>2, <2>1
<1>3. CASE n # 0
  <2>1. PICK after : AreOffsets(after, contents, n - 1)
    BY <1>1, <1>3
  <2> DEFINE Next(before, m) == AlignUp(before + contents[m].byteSize)
             longer == [m \in 0 .. n |-> IF m = n THEN Next(after[n - 1], n) ELSE after[m]]
  <2>2. \A m \in 0 .. n - 1 :
            after[m] = IF m = 0 THEN DirectoryEnd(Len(contents)) ELSE Next(after[m - 1], m)
    BY <2>1 DEF AreOffsets
  <2> HIDE DEF Next
  <2>3. \A m \in 0 .. n :
            longer[m] = IF m = 0 THEN DirectoryEnd(Len(contents))
                        ELSE Next(longer[m - 1], m)
    <3> TAKE m \in 0 .. n
    <3>1. CASE m = n
      BY <1>3, <3>1
    <3>2. CASE m # n
      <4>1. m \in 0 .. n - 1 /\ (m # 0 => m - 1 \in 0 .. n - 1)
        BY <1>3, <3>2
      <4>2. longer[m] = after[m] /\ (m # 0 => longer[m - 1] = after[m - 1])
        BY <1>3, <3>2, <4>1
      <4> QED BY <2>2, <4>1, <4>2
    <3> QED BY <3>1, <3>2
  <2>4. longer = [m \in 0 .. n |-> IF m = 0 THEN DirectoryEnd(Len(contents))
                                   ELSE Next(longer[m - 1], m)]
    BY <2>3
  <2>5. AreOffsets(longer, contents, n)
    BY <2>4 DEF AreOffsets, Next
  <2> QED BY <2>5
<1> QED BY <1>2, <1>3

\* Sections lie behind the directory, in their order, each at an aligned offset and
\* behind the end of the one before.
LEMMA OffsetFacts ==
    ASSUME NEW contents, NEW k \in Nat, Len(contents) = k,
           \A i \in 1 .. k : contents[i].byteSize \in Nat
    PROVE  LET offset == SectionOffsets(contents)
           IN  /\ offset[0] = DirectoryEnd(k)
               /\ \A i \in 0 .. k : offset[i] \in Nat /\ offset[i] % 8 = 0
               /\ \A i \in 1 .. k : offset[i - 1] + contents[i].byteSize <= offset[i]
               /\ \A i, j \in 0 .. k : i <= j => offset[i] <= offset[j]
<1> DEFINE offset == SectionOffsets(contents)
           after == CHOOSE g : AreOffsets(g, contents, k)
<1>1. offset = after
  BY DEF SectionOffsets, AreOffsets
<1>2. AreOffsets(after, contents, k)
  BY OffsetsExist
<1> HIDE DEF after
<1>3. \A i \in 0 .. k :
        offset[i] = IF i = 0 THEN DirectoryEnd(k)
                    ELSE AlignUp(offset[i - 1] + contents[i].byteSize)
  BY <1>1, <1>2 DEF AreOffsets
<1> HIDE DEF offset
<1>4. offset[0] = DirectoryEnd(k)
  BY <1>3
<1>5. \A i \in 1 .. k : offset[i] = AlignUp(offset[i - 1] + contents[i].byteSize)
  BY <1>3
<1>6. \A i \in 0 .. k : offset[i] \in Nat /\ offset[i] % 8 = 0
  <2> DEFINE other == {i \in 0 .. k : ~(offset[i] \in Nat /\ offset[i] % 8 = 0)}
  <2> SUFFICES ASSUME other # {} PROVE FALSE
    OBVIOUS
  <2>1. PICK n \in other : \A m \in other : n <= m
    <3>1. other \subseteq Nat
      OBVIOUS
    <3> HIDE DEF other
    <3> QED BY <3>1, LeastNumber
  <2>2. n # 0
    BY <1>4, <2>1, DirectoryEndFacts
  <2>3. n \in 1 .. k /\ n - 1 \in 0 .. k /\ ~(n <= n - 1)
    BY <2>1, <2>2
  <2>4. offset[n - 1] \in Nat
    BY <2>1, <2>3
  <2>5. offset[n - 1] + contents[n].byteSize \in Nat
    BY <2>3, <2>4
  <2> QED BY <1>5, <2>1, <2>3, <2>5, AlignUpFacts
<1>7. \A i \in 1 .. k : offset[i - 1] + contents[i].byteSize <= offset[i]
  <2> TAKE i \in 1 .. k
  <2>1. i - 1 \in 0 .. k
    OBVIOUS
  <2>2. offset[i - 1] + contents[i].byteSize \in Nat
    BY <1>6, <2>1
  <2> QED BY <1>5, <2>2, AlignUpFacts
<1>8. \A i, j \in 0 .. k : i <= j => offset[i] <= offset[j]
  <2> TAKE i \in 0 .. k
  <2> DEFINE other == {j \in 0 .. k : ~(i <= j => offset[i] <= offset[j])}
  <2> SUFFICES ASSUME other # {} PROVE FALSE
    OBVIOUS
  <2>1. PICK n \in other : \A m \in other : n <= m
    <3>1. other \subseteq Nat
      OBVIOUS
    <3> HIDE DEF other
    <3> QED BY <3>1, LeastNumber
  <2>2. n # i /\ i < n
    <3>1. offset[i] \in Nat
      BY <1>6
    <3> QED BY <2>1, <3>1
  <2>3. n \in 1 .. k /\ n - 1 \in 0 .. k /\ ~(n <= n - 1) /\ i <= n - 1
    BY <2>1, <2>2
  <2>4. offset[i] <= offset[n - 1]
    BY <2>1, <2>3
  <2>5. offset[n - 1] <= offset[n]
    <3>1. offset[n - 1] \in Nat /\ offset[n] \in Nat /\ contents[n].byteSize \in Nat
      BY <1>6, <2>3
    <3>2. offset[n - 1] + contents[n].byteSize <= offset[n]
      BY <1>7, <2>3
    <3> HIDE DEF offset
    <3> QED BY <3>1, <3>2
  <2> QED BY <1>6, <2>1, <2>3, <2>4, <2>5
<1> QED BY <1>4, <1>6, <1>7, <1>8 DEF offset
-----------------------------------------------------------------------------
(* The module's validator.                                                 *)

LEMMA FirstErrorNone ==
    ASSUME NEW D, NEW errors, DOMAIN errors = D, NEW key, \A n \in D : key[n] \in Nat
    PROVE  FirstError(errors, key) = "none" <=> \A n \in D : errors[n] = "none"
<1> DEFINE failed == {n \in D : errors[n] # "none"}
<1>1. CASE failed = {}
  BY <1>1 DEF FirstError
<1>2. CASE failed # {}
  <2>1. PICK least \in {key[n] : n \in failed} : \A k \in {key[n] : n \in failed} : least <= k
    <3>1. {key[n] : n \in failed} \subseteq Nat /\ {key[n] : n \in failed} # {}
      BY <1>2
    <3> HIDE DEF failed
    <3> QED BY <3>1, LeastNumber
  <2>2. \E n \in failed : \A m \in failed : key[n] <= key[m]
    BY <2>1
  <2> DEFINE first == CHOOSE n \in failed : \A m \in failed : key[n] <= key[m]
  <2>3. first \in failed
    BY <2>2
  <2>4. FirstError(errors, key) = errors[first]
    BY <1>2 DEF FirstError
  <2> HIDE DEF first
  <2>5. FirstError(errors, key) # "none"
    BY <2>3, <2>4
  <2> QED BY <2>3, <2>5
<1> QED BY <1>1, <1>2

LEMMA EntriesTyped ==
    ASSUME NEW f, IsFile(f)
    PROVE  LET entries == Entries(f)
           IN  /\ DOMAIN entries = 1 .. f.header.sectionCount
               /\ f.header.sectionCount \in Nat
               /\ Len(entries) = f.header.sectionCount
               /\ \A n \in DOMAIN entries :
                    /\ entries[n].sectionIndex \in Nat
                    /\ entries[n].byteOffset \in Int
                    /\ entries[n].byteSize \in Int
<1>1. f.header.sectionCount \in Nat
  BY DEF IsFile, IsHeader
<1>2. \A n \in DOMAIN f.directory :
        /\ f.directory[n].sectionIndex \in Nat
        /\ f.directory[n].byteOffset \in Int
        /\ f.directory[n].byteSize \in Int
  BY DEF IsFile, IsEntry
<1>3. /\ StrayEntry.sectionIndex \in Nat
      /\ StrayEntry.byteOffset \in Int
      /\ StrayEntry.byteSize \in Int
  BY StrayEntryAssumption
<1>4. \A n \in DOMAIN Entries(f) :
        Entries(f)[n] = IF n \in DOMAIN f.directory THEN f.directory[n] ELSE StrayEntry
  BY DEF Entries
<1>5. DOMAIN Entries(f) = 1 .. f.header.sectionCount
  BY DEF Entries
<1>6. Len(Entries(f)) = f.header.sectionCount
  BY <1>1, <1>5
<1>7. ASSUME NEW n \in DOMAIN Entries(f)
      PROVE  /\ Entries(f)[n].sectionIndex \in Nat
             /\ Entries(f)[n].byteOffset \in Int
             /\ Entries(f)[n].byteSize \in Int
  <2>1. CASE n \in DOMAIN f.directory
    BY <1>2, <1>4, <1>7, <2>1
  <2>2. CASE n \notin DOMAIN f.directory
    BY <1>3, <1>4, <1>7, <2>2
  <2> QED BY <2>1, <2>2
<1> QED BY <1>1, <1>5, <1>6, <1>7

\* Everything the validator asks of a file.
Valid(f, entries) ==
    /\ f.header.magic
    /\ f.header.version
    /\ f.header.totalByteSize = f.byteSize
    /\ ~(DirectoryEnd(f.header.sectionCount) > f.header.totalByteSize)
    /\ \A n \in DOMAIN entries : EntryError(entries[n], f.header) = "none"
    /\ ~Overlapping(entries)
    /\ ~Duplicated(entries)
    /\ Cardinality(Lanes(entries)) = f.header.laneStreamCount
    /\ \A n \in Lanes(entries) : LaneError(f, entries, n) = "none"

LEMMA ModuleDecision ==
    ASSUME NEW f, IsFile(f)
    PROVE  ModuleError(f) = "none" <=> Valid(f, Entries(f))
<1> DEFINE entries == Entries(f)
           entryErrors == [n \in DOMAIN entries |-> EntryError(entries[n], f.header)]
           entryKey == [n \in DOMAIN entries |-> n]
           laneErrors == [n \in Lanes(entries) |-> LaneError(f, entries, n)]
           laneKey == [n \in Lanes(entries) |-> entries[n].sectionIndex]
<1>1. /\ DOMAIN entries = 1 .. f.header.sectionCount
      /\ f.header.sectionCount \in Nat
      /\ \A n \in DOMAIN entries : entries[n].sectionIndex \in Nat
  BY EntriesTyped
<1> HIDE DEF entries
<1>2. FirstError(entryErrors, entryKey) = "none"
        <=> \A n \in DOMAIN entries : EntryError(entries[n], f.header) = "none"
  <2>1. DOMAIN entryErrors = DOMAIN entries /\ \A n \in DOMAIN entries : entryKey[n] \in Nat
    BY <1>1
  <2>2. \A n \in DOMAIN entries : entryErrors[n] = EntryError(entries[n], f.header)
    OBVIOUS
  <2> HIDE DEF entryErrors, entryKey
  <2> QED BY <2>1, <2>2, FirstErrorNone
<1>3. FirstError(laneErrors, laneKey) = "none"
        <=> \A n \in Lanes(entries) : LaneError(f, entries, n) = "none"
  <2>1. DOMAIN laneErrors = Lanes(entries) /\ \A n \in Lanes(entries) : laneKey[n] \in Nat
    BY <1>1 DEF Lanes
  <2>2. \A n \in Lanes(entries) : laneErrors[n] = LaneError(f, entries, n)
    OBVIOUS
  <2> HIDE DEF laneErrors, laneKey
  <2> QED BY <2>1, <2>2, FirstErrorNone
<1> DEFINE entryError == FirstError(entryErrors, entryKey)
           laneError == FirstError(laneErrors, laneKey)
<1>4. ModuleError(f) =
        IF ~f.header.magic THEN "InvalidModuleMagic"
        ELSE IF ~f.header.version THEN "UnsupportedModuleVersion"
        ELSE IF f.header.totalByteSize # f.byteSize THEN "ModuleSizeMismatch"
        ELSE IF DirectoryEnd(f.header.sectionCount) > f.header.totalByteSize
             THEN "DirectoryOutOfBounds"
        ELSE IF entryError # "none" THEN entryError
        ELSE IF Overlapping(entries) THEN "SectionOverlap"
        ELSE IF Duplicated(entries) THEN "DuplicateSection"
        ELSE IF Cardinality(Lanes(entries)) # f.header.laneStreamCount
             THEN "LaneStreamCountMismatch"
        ELSE laneError
  BY DEF ModuleError, entries
<1> HIDE DEF entryError, laneError
<1>5. ModuleError(f) = "none" <=>
        /\ f.header.magic
        /\ f.header.version
        /\ f.header.totalByteSize = f.byteSize
        /\ ~(DirectoryEnd(f.header.sectionCount) > f.header.totalByteSize)
        /\ entryError = "none"
        /\ ~Overlapping(entries)
        /\ ~Duplicated(entries)
        /\ Cardinality(Lanes(entries)) = f.header.laneStreamCount
        /\ laneError = "none"
  BY <1>4, Zenon
<1> QED BY <1>2, <1>3, <1>5 DEF Valid, entries, entryError, laneError
LEMMA EntryFacts ==
    ASSUME NEW f, IsFile(f), Valid(f, Entries(f)), NEW n \in DOMAIN Entries(f)
    PROVE  LET entry == Entries(f)[n]
           IN  /\ entry.byteOffset \in Nat
               /\ entry.byteSize \in Int
               /\ entry.byteOffset >= DirectoryEnd(f.header.sectionCount)
               /\ entry.byteOffset + entry.byteSize <= f.byteSize
<1> DEFINE entry == Entries(f)[n]
           directoryEnd == DirectoryEnd(f.header.sectionCount)
<1>1. entry.byteOffset \in Int /\ entry.byteSize \in Int /\ f.header.sectionCount \in Nat
  BY EntriesTyped
<1>2. f.byteSize \in Nat /\ f.header.totalByteSize = f.byteSize
  BY DEF IsFile, Valid
<1>3. EntryError(entry, f.header) = "none"
  BY DEF Valid
<1> HIDE DEF entry
<1>4. ~OutOfBounds(entry, f.header)
  BY <1>3 DEF EntryError
<1>5. directoryEnd \in Nat
  BY <1>1, DirectoryEndFacts
<1>6. /\ ~(entry.byteOffset < directoryEnd)
      /\ ~(entry.byteSize > f.byteSize - entry.byteOffset)
  BY <1>2, <1>4 DEF OutOfBounds
<1> HIDE DEF directoryEnd
<1>7. /\ entry.byteOffset \in Nat /\ entry.byteOffset >= directoryEnd
      /\ entry.byteOffset + entry.byteSize <= f.byteSize
  BY <1>1, <1>2, <1>5, <1>6
<1> QED BY <1>1, <1>7 DEF entry, directoryEnd

\* The validator compares neighbours; in an order by offset that is enough for all.
LEMMA NeighboursSuffice ==
    ASSUME NEW entries, NEW k \in Nat, DOMAIN entries = 1 .. k,
           \A n \in 1 .. k : entries[n].byteOffset \in Nat /\ entries[n].byteSize \in Int,
           ~Overlapping(entries),
           NEW m \in 1 .. k, NEW n \in 1 .. k, Precedes(entries, m, n)
    PROVE  entries[m].byteOffset + entries[m].byteSize <= entries[n].byteOffset
<1> DEFINE behind == {j \in 1 .. k : Precedes(entries, m, j)}
           offsets == {entries[j].byteOffset : j \in behind}
<1>1. PICK offset \in offsets : \A o \in offsets : offset <= o
  <2>1. offsets \subseteq Nat /\ offsets # {}
    OBVIOUS
  <2> HIDE DEF offsets
  <2> QED BY <2>1, LeastNumber
<1>2. offset \in Nat /\ offset <= entries[n].byteOffset
  BY <1>1
<1> DEFINE first == {j \in behind : entries[j].byteOffset = offset}
<1>3. PICK j \in first : \A i \in first : j <= i
  <2>1. first \subseteq Nat /\ first # {}
    <3>1. \E i \in behind : entries[i].byteOffset = offset
      BY <1>1
    <3>2. behind \subseteq Nat
      OBVIOUS
    <3> HIDE DEF behind
    <3> QED BY <3>1, <3>2
  <2> HIDE DEF first
  <2> QED BY <2>1, LeastNumber
<1>4. j \in 1 .. k /\ Precedes(entries, m, j) /\ entries[j].byteOffset = offset
  BY <1>3
<1>5. ~\E i \in DOMAIN entries : Precedes(entries, m, i) /\ Precedes(entries, i, j)
  <2> SUFFICES ASSUME NEW i \in 1 .. k, Precedes(entries, m, i), Precedes(entries, i, j)
               PROVE  FALSE
    OBVIOUS
  <2>1. offset <= entries[i].byteOffset /\ entries[i].byteOffset \in Nat
    BY <1>1
  <2>2. entries[i].byteOffset = offset /\ i < j
    BY <1>2, <1>4, <2>1 DEF Precedes
  <2>3. i \in first
    BY <2>2
  <2> QED BY <1>3, <1>4, <2>2, <2>3
<1>6. ~(entries[m].byteOffset + entries[m].byteSize > entries[j].byteOffset)
  BY <1>4, <1>5 DEF Overlapping
<1>7. entries[m].byteOffset \in Nat /\ entries[m].byteSize \in Int
  OBVIOUS
<1>8. entries[n].byteOffset \in Nat
  OBVIOUS
<1> QED BY <1>2, <1>4, <1>6, <1>7, <1>8

\* Distinct indices that each equal their position are 0 .. N - 1.
LEMMA PositionsAreContiguous ==
    ASSUME NEW S, IsFiniteSet(S), NEW index \in [S -> Nat],
           \A m, n \in S : m # n => index[m] # index[n],
           \A n \in S : index[n] = Cardinality({m \in S : index[m] < index[n]})
    PROVE  {index[n] : n \in S} = 0 .. Cardinality(S) - 1
<1> DEFINE T == 0 .. Cardinality(S) - 1
<1>1. Cardinality(S) \in Nat
  BY FS_CardinalityType
<1>2. IsFiniteSet(T) /\ Cardinality(T) = Cardinality(S)
  <2>1. 0 \in Int /\ Cardinality(S) - 1 \in Int
    BY <1>1
  <2>2. IsFiniteSet(T) /\ Cardinality(T) = IF 0 > Cardinality(S) - 1 THEN 0
                                           ELSE (Cardinality(S) - 1) - 0 + 1
    BY <2>1, FS_Interval
  <2> QED BY <1>1, <2>2
<1>3. \A n \in S : index[n] \in T
  <2> TAKE n \in S
  <2> DEFINE below == {m \in S : index[m] < index[n]}
  <2>1. below \in SUBSET S /\ n \notin below
    OBVIOUS
  <2>2. /\ IsFiniteSet(below) /\ Cardinality(below) <= Cardinality(S)
        /\ Cardinality(S) = Cardinality(below) => S = below
    BY <2>1, FS_Subset
  <2>3. Cardinality(below) \in Nat
    BY <2>2, FS_CardinalityType
  <2>4. index[n] = Cardinality(below)
    OBVIOUS
  <2> HIDE DEF below
  <2> QED BY <1>1, <2>1, <2>2, <2>3, <2>4
<1>4. index \in Injection(S, T)
  BY <1>3 DEF Injection, IsInjective
<1> HIDE DEF T
<1>5. index \in Surjection(S, T)
  BY <1>2, <1>4, FS_Injection
<1> QED BY <1>3, <1>5 DEF Surjection, T

\* And conversely: of indices 0 .. N - 1, each one equals its position.
LEMMA ContiguousArePositions ==
    ASSUME NEW S, IsFiniteSet(S), NEW index \in [S -> Nat],
           \A m, n \in S : m # n => index[m] # index[n],
           {index[n] : n \in S} = 0 .. Cardinality(S) - 1
    PROVE  \A n \in S : index[n] = Cardinality({m \in S : index[m] < index[n]})
<1> TAKE n \in S
<1> DEFINE T == 0 .. index[n] - 1
           below == {m \in S : index[m] < index[n]}
           restricted == [m \in below |-> index[m]]
<1>1. index[n] \in Nat /\ Cardinality(S) \in Nat
  BY FS_CardinalityType
<1>2. IsFiniteSet(T) /\ Cardinality(T) = index[n]
  <2>1. 0 \in Int /\ index[n] - 1 \in Int
    BY <1>1
  <2>2. IsFiniteSet(T) /\ Cardinality(T) = IF 0 > index[n] - 1 THEN 0
                                           ELSE (index[n] - 1) - 0 + 1
    BY <2>1, FS_Interval
  <2> QED BY <1>1, <2>2
<1>3. restricted \in Injection(below, T)
  BY <1>1 DEF Injection, IsInjective
<1>4. restricted \in Surjection(below, T)
  <2>1. \A t \in T : \E m \in below : restricted[m] = t
    <3> TAKE t \in T
    <3>1. index[n] \in 0 .. Cardinality(S) - 1
      OBVIOUS
    <3>2. t \in 0 .. Cardinality(S) - 1 /\ t < index[n]
      BY <1>1, <3>1
    <3>3. PICK m \in S : index[m] = t
      BY <3>2
    <3> QED BY <3>2, <3>3
  <2>2. restricted \in [below -> T]
    BY <1>1
  <2> HIDE DEF restricted, below, T
  <2> QED BY <2>1, <2>2 DEF Surjection
<1> HIDE DEF T, restricted, below
<1>5. Cardinality(below) = Cardinality(T)
  BY <1>2, <1>3, <1>4, FS_Injection
<1> QED BY <1>2, <1>5 DEF below
LEMMA AcceptedFileIsConsistent == FileInv => AcceptedModulesAreConsistent
<1> SUFFICES ASSUME FileInv, file # NoFile, ModuleError(file) = "none"
             PROVE  AcceptedModulesAreConsistent
  BY DEF AcceptedModulesAreConsistent
<1> DEFINE entries == Entries(file)
           lanes == Lanes(entries)
           count == file.header.sectionCount
           End(n) == entries[n].byteOffset + entries[n].byteSize
<1>1. IsFile(file)
  BY DEF FileInv
<1>2. Valid(file, entries)
  BY <1>1, ModuleDecision
<1>3. /\ DOMAIN entries = 1 .. count /\ count \in Nat /\ Len(entries) = count
      /\ \A n \in 1 .. count : entries[n].sectionIndex \in Nat
  BY <1>1, EntriesTyped
<1>4. \A n \in 1 .. count :
        /\ entries[n].byteOffset \in Nat /\ entries[n].byteSize \in Int
        /\ entries[n].byteOffset >= DirectoryEnd(count)
        /\ End(n) <= file.byteSize
  BY <1>1, <1>2, <1>3, EntryFacts
<1> HIDE DEF entries, count
<1>5. ~Overlapping(entries) /\ ~Duplicated(entries)
      /\ Cardinality(lanes) = file.header.laneStreamCount
      /\ \A n \in lanes : LaneError(file, entries, n) = "none"
  BY <1>2 DEF Valid
<1>6. \A m, n \in 1 .. count : Precedes(entries, m, n) => End(m) <= entries[n].byteOffset
  BY <1>3, <1>4, <1>5, NeighboursSuffice
<1>7. ASSUME NEW m \in DOMAIN entries, NEW n \in DOMAIN entries, m # n
      PROVE  /\ End(m) <= entries[n].byteOffset \/ End(n) <= entries[m].byteOffset
             /\ <<entries[m].type, entries[m].sectionIndex>>
                    # <<entries[n].type, entries[n].sectionIndex>>
  <2>1. m \in 1 .. count /\ n \in 1 .. count /\ m \in Int /\ n \in Int
    BY <1>3, <1>7
  <2>2. entries[m].byteOffset \in Nat /\ entries[n].byteOffset \in Nat
    BY <1>4, <2>1
  <2>3. Precedes(entries, m, n) \/ Precedes(entries, n, m)
    BY <1>7, <2>1, <2>2 DEF Precedes
  <2>4. <<entries[m].type, entries[m].sectionIndex>>
            # <<entries[n].type, entries[n].sectionIndex>>
    BY <1>5, <1>7 DEF Duplicated
  <2> QED BY <1>6, <2>1, <2>3, <2>4
<1>8. {entries[n].sectionIndex : n \in lanes} = 0 .. file.header.laneStreamCount - 1
  <2> DEFINE index == [n \in lanes |-> entries[n].sectionIndex]
  <2>1. IsFiniteSet(lanes)
    <3>1. IsFiniteSet(1 .. count)
      BY <1>3, FS_Interval
    <3>2. lanes \in SUBSET (1 .. count)
      BY <1>3 DEF Lanes
    <3> HIDE DEF lanes
    <3> QED BY <3>1, <3>2, FS_Subset
  <2>2. index \in [lanes -> Nat]
    BY <1>3 DEF Lanes
  <2>3. \A m, n \in lanes : m # n => index[m] # index[n]
    BY <1>5 DEF Duplicated, Lanes
  <2>4. \A n \in lanes : index[n] = Cardinality({m \in lanes : index[m] < index[n]})
    <3> TAKE n \in lanes
    <3>1. entries[n].sectionIndex = LanePosition(entries, n)
      <4>1. LaneError(file, entries, n) = "none"
        BY <1>5
      <4> QED BY <4>1 DEF LaneError
    <3>2. {m \in lanes : index[m] < index[n]}
            = {m \in lanes : entries[m].sectionIndex < entries[n].sectionIndex}
      OBVIOUS
    <3>3. index[n] = entries[n].sectionIndex
      OBVIOUS
    <3> QED BY <3>1, <3>2, <3>3 DEF LanePosition
  <2>5. {entries[n].sectionIndex : n \in lanes} = {index[n] : n \in lanes}
    OBVIOUS
  <2> HIDE DEF index, lanes
  <2>6. {index[n] : n \in lanes} = 0 .. Cardinality(lanes) - 1
    BY <2>1, <2>2, <2>3, <2>4, PositionsAreContiguous
  <2> QED BY <1>5, <2>5, <2>6 DEF lanes
<1>9. ASSUME NEW n \in lanes
      PROVE  LET stream == Subspan(file, entries[n])
             IN  /\ StreamError(stream) = "none"
                 /\ stream.header.laneIndex = entries[n].sectionIndex
                 /\ stream.header.graphHash = file.header.graphHash
  <2>1. LaneError(file, entries, n) = "none"
    BY <1>5, <1>9
  <2> QED BY <2>1 DEF LaneError
<1>10. \A n \in DOMAIN entries :
            entries[n].byteOffset >= DirectoryEnd(Len(entries)) /\ End(n) <= file.byteSize
  BY <1>3, <1>4
<1> QED BY <1>7, <1>8, <1>9, <1>10 DEF AcceptedModulesAreConsistent, entries
-----------------------------------------------------------------------------
(* What the writer emits.                                                  *)

LEMMA VerifiedIsSealed ==
    ASSUME NEW writer, WriterInv(writer), NEW index,
           LaneContentVerified(index, StreamContent(writer))
    PROVE  Sealed(writer)
<1>1. writer.targetByteSize \in Nat /\ writer.isFinished \in BOOLEAN
  BY DEF WriterInv, WriterTyped
<1>2. StreamContent(writer).header = writer.header /\ writer.header.magic = TRUE
  <2>1. StreamContent(writer).header = writer.header
    BY DEF StreamContent
  <2>2. writer.header = FinishedHeader(writer) \/ writer.header = NoStreamHeader
    BY DEF WriterInv, WriterConsistent
  <2>3. writer.header.magic
    BY <2>1 DEF LaneContentVerified
  <2> QED BY <2>1, <2>2, <2>3 DEF FinishedHeader, NoStreamHeader
<1>3. writer.header # NoStreamHeader
  BY <1>2 DEF NoStreamHeader
<1>4. writer.isFinished = TRUE /\ writer.targetByteSize >= StreamHeaderByteSize
  BY <1>1, <1>3 DEF WriterInv, WriterConsistent
<1> QED BY <1>4 DEF Sealed

LEMMA SectionFacts ==
    ASSUME WritersInv, SectionsInv
    PROVE  LET k == Len(pendingSections)
           IN  /\ k \in Nat
               /\ DOMAIN pendingSections = 1 .. k
               /\ DOMAIN Contents = 1 .. k
               /\ Len(Contents) = k
               /\ \A n \in 1 .. k :
                    /\ pendingSections[n].type \in SectionTypes
                    /\ pendingSections[n].sectionIndex \in Nat
                    /\ Contents[n] = ContentOf(pendingSections[n])
                    /\ Contents[n].byteSize \in Nat \ {0}
               /\ \A n \in LaneSections :
                    /\ pendingSections[n].writer \in Writers
                    /\ writers[pendingSections[n].writer].isFinished = TRUE
                    /\ Contents[n].header.laneIndex = pendingSections[n].sectionIndex
                    /\ Contents[n].header.graphHash = ModuleGraphHash
<1> DEFINE k == Len(pendingSections)
<1>1. pendingSections \in Seq(Sections)
  BY DEF SectionsInv
<1>2. k \in Nat /\ DOMAIN pendingSections = 1 .. k
  BY <1>1
<1>3. DOMAIN Contents = 1 .. k /\ Len(Contents) = k
  BY <1>2 DEF Contents
<1>4. \A n \in 1 .. k : Contents[n] = ContentOf(pendingSections[n])
  BY <1>2 DEF Contents
<1>5. \A n \in 1 .. k : pendingSections[n] \in Sections
  BY <1>1
<1> HIDE DEF k
<1>6. \A n \in 1 .. k :
        /\ pendingSections[n].type \in SectionTypes
        /\ pendingSections[n].sectionIndex \in Nat
        /\ pendingSections[n].type = "LaneStream" => pendingSections[n].writer \in Writers
  BY <1>5, TablesAssumption DEF Sections, SectionTypes
<1>7. ASSUME NEW n \in LaneSections
      PROVE  /\ pendingSections[n].writer \in Writers
             /\ writers[pendingSections[n].writer].isFinished = TRUE
             /\ Contents[n].header.laneIndex = pendingSections[n].sectionIndex
             /\ Contents[n].header.graphHash = ModuleGraphHash
             /\ Contents[n].byteSize \in Nat \ {0}
  <2> DEFINE section == pendingSections[n]
             writer == writers[section.writer]
  <2>1. n \in 1 .. k /\ section.type = "LaneStream"
    BY <1>2 DEF LaneSections
  <2>2. section.writer \in Writers
    BY <1>6, <2>1
  <2>3. Contents[n] = StreamContent(writer)
    BY <1>4, <2>1 DEF ContentOf
  <2>4. LaneContentVerified(section.sectionIndex, StreamContent(writer))
    <3>1. LaneContentVerified(section.sectionIndex, ContentOf(section))
      BY DEF SectionsInv
    <3> QED BY <2>1, <3>1 DEF ContentOf
  <2>5. WriterInv(writer)
    BY <2>2 DEF WritersInv
  <2> HIDE DEF section, writer
  <2>6. Sealed(writer)
    BY <2>4, <2>5, VerifiedIsSealed
  <2>7. /\ StreamContent(writer).byteSize = writer.currentByteOffset
        /\ writer.currentByteOffset \in Nat /\ writer.currentByteOffset >= 32
    BY <2>6, ContentFacts
  <2>8. writer.isFinished = TRUE
    BY <2>6 DEF Sealed
  <2>9. StreamContent(writer).byteSize \in Nat \ {0}
    BY <2>7
  <2>10. /\ StreamContent(writer).header.laneIndex = section.sectionIndex
         /\ StreamContent(writer).header.graphHash = ModuleGraphHash
    BY <2>4 DEF LaneContentVerified
  <2> QED BY <2>2, <2>3, <2>8, <2>9, <2>10 DEF section, writer
<1>8. ASSUME NEW n \in 1 .. k
      PROVE  Contents[n].byteSize \in Nat \ {0}
  <2>1. CASE n \in LaneSections
    BY <1>7, <2>1
  <2>2. CASE n \notin LaneSections
    <3>1. pendingSections[n].type \in TableTypes /\ pendingSections[n].type # "LaneStream"
      BY <1>2, <1>6, <2>2 DEF LaneSections, SectionTypes
    <3>2. Contents[n] = TableContent(pendingSections[n].type)
      BY <1>4, <3>1 DEF ContentOf
    <3>3. TableByteSize[pendingSections[n].type] \in Nat \ {0}
      BY <3>1, TablesAssumption
    <3> QED BY <3>2, <3>3 DEF TableContent
  <2> QED BY <2>1, <2>2
<1> QED BY <1>2, <1>3, <1>4, <1>6, <1>7, <1>8 DEF k

\* Sections share no byte, and their order in the file is that of the directory.
LEMMA PlacementFacts ==
    ASSUME WritersInv, SectionsInv
    PROVE  LET k == Len(pendingSections)
           IN  /\ RequiredByteSize \in Nat
               /\ DirectoryEnd(k) <= RequiredByteSize
               /\ \A n \in 1 .. k :
                    /\ SectionOffset(n) \in Nat /\ SectionOffset(n) % 8 = 0
                    /\ DirectoryEnd(k) <= SectionOffset(n)
                    /\ SectionOffset(n) + Contents[n].byteSize <= RequiredByteSize
               /\ \A m, n \in 1 .. k : m < n =>
                    /\ SectionOffset(m) + Contents[m].byteSize <= SectionOffset(n)
                    /\ SectionOffset(m) < SectionOffset(n)
<1> DEFINE k == Len(pendingSections)
           offset == SectionOffsets(Contents)
<1>1. /\ k \in Nat /\ Len(Contents) = k
      /\ \A n \in 1 .. k : Contents[n].byteSize \in Nat \ {0}
  BY SectionFacts
<1>2. \A n : SectionOffset(n) = offset[n - 1]
  BY DEF SectionOffset
<1> HIDE DEF k, offset
<1>3. /\ offset[0] = DirectoryEnd(k)
      /\ \A i \in 0 .. k : offset[i] \in Nat /\ offset[i] % 8 = 0
      /\ \A i \in 1 .. k : offset[i - 1] + Contents[i].byteSize <= offset[i]
      /\ \A i, j \in 0 .. k : i <= j => offset[i] <= offset[j]
  BY <1>1, OffsetFacts DEF offset
<1>4. RequiredByteSize = offset[k]
  BY <1>1, <1>2 DEF RequiredByteSize, k
<1>5. RequiredByteSize \in Nat /\ DirectoryEnd(k) <= RequiredByteSize
  BY <1>1, <1>3, <1>4
<1>6. ASSUME NEW m \in 1 .. k, NEW i \in 0 .. k, m <= i
      PROVE  offset[m - 1] + Contents[m].byteSize <= offset[i] /\ offset[m - 1] < offset[i]
  <2>1. m \in 0 .. k /\ m - 1 \in 0 .. k
    BY <1>1
  <2>2. offset[m] <= offset[i]
    BY <1>3, <1>6, <2>1
  <2>3. offset[m - 1] + Contents[m].byteSize <= offset[m]
    BY <1>3
  <2>4. offset[m - 1] \in Nat /\ offset[m] \in Nat /\ offset[i] \in Nat
        /\ Contents[m].byteSize \in Nat \ {0}
    BY <1>1, <1>3, <2>1
  <2> QED BY <2>2, <2>3, <2>4
<1>7. ASSUME NEW n \in 1 .. k
      PROVE  /\ SectionOffset(n) \in Nat /\ SectionOffset(n) % 8 = 0
             /\ DirectoryEnd(k) <= SectionOffset(n)
             /\ SectionOffset(n) + Contents[n].byteSize <= RequiredByteSize
  <2>1. n - 1 \in 0 .. k /\ k \in 0 .. k /\ n <= k /\ 0 \in 0 .. k /\ 0 <= n - 1
    BY <1>1
  <2>2. offset[n - 1] \in Nat /\ offset[n - 1] % 8 = 0 /\ offset[0] <= offset[n - 1]
    BY <1>3, <2>1
  <2>3. offset[n - 1] + Contents[n].byteSize <= offset[k]
    BY <1>6, <2>1
  <2> QED BY <1>2, <1>3, <1>4, <2>2, <2>3
<1>8. ASSUME NEW m \in 1 .. k, NEW n \in 1 .. k, m < n
      PROVE  /\ SectionOffset(m) + Contents[m].byteSize <= SectionOffset(n)
             /\ SectionOffset(m) < SectionOffset(n)
  <2>1. n - 1 \in 0 .. k /\ m <= n - 1
    BY <1>1, <1>8
  <2> QED BY <1>2, <1>6, <2>1
<1> QED BY <1>5, <1>7, <1>8 DEF k
\* The directory is what the validator reads, and each section's range holds its content.
LEMMA EmittedFacts ==
    ASSUME WritersInv, SectionsInv
    PROVE  LET k == Len(pendingSections)
               entries == Entries(EmittedFile)
           IN  /\ DOMAIN entries = 1 .. k
               /\ \A n \in 1 .. k :
                    /\ entries[n].type = pendingSections[n].type
                    /\ entries[n].reservedFlags = 0
                    /\ entries[n].sectionIndex = pendingSections[n].sectionIndex
                    /\ entries[n].byteOffset = SectionOffset(n)
                    /\ entries[n].byteSize = Contents[n].byteSize
                    /\ Subspan(EmittedFile, entries[n]) = Contents[n]
               /\ Lanes(entries) = LaneSections
<1> DEFINE k == Len(pendingSections)
           entries == Entries(EmittedFile)
<1>1. DOMAIN pendingSections = 1 .. k /\ k \in Nat
  BY SectionFacts
<1>2. DOMAIN entries = 1 .. k
  BY DEF Entries, EmittedFile
<1>3. \A n \in 1 .. k :
        entries[n] = [type |-> pendingSections[n].type,
                      reservedFlags |-> 0,
                      sectionIndex |-> pendingSections[n].sectionIndex,
                      byteOffset |-> SectionOffset(n),
                      byteSize |-> Contents[n].byteSize]
  BY <1>1 DEF Entries, EmittedFile
<1> HIDE DEF k, entries
<1>4. \A n \in 1 .. k :
        /\ entries[n].type = pendingSections[n].type
        /\ entries[n].reservedFlags = 0
        /\ entries[n].sectionIndex = pendingSections[n].sectionIndex
        /\ entries[n].byteOffset = SectionOffset(n)
        /\ entries[n].byteSize = Contents[n].byteSize
  <2> TAKE n \in 1 .. k
  <2> DEFINE entry == entries[n]
             offset == SectionOffset(n)
  <2>1. entry = [type |-> pendingSections[n].type, reservedFlags |-> 0,
                 sectionIndex |-> pendingSections[n].sectionIndex,
                 byteOffset |-> offset, byteSize |-> Contents[n].byteSize]
    BY <1>3
  <2> HIDE DEF entry, offset
  <2>2. /\ entry.type = pendingSections[n].type
        /\ entry.reservedFlags = 0
        /\ entry.sectionIndex = pendingSections[n].sectionIndex
        /\ entry.byteOffset = offset
        /\ entry.byteSize = Contents[n].byteSize
    BY <2>1
  <2> QED BY <2>2 DEF entry, offset
<1>5. ASSUME NEW n \in 1 .. k
      PROVE  Subspan(EmittedFile, entries[n]) = Contents[n]
  <2> DEFINE place(m) == [byteOffset |-> SectionOffset(m), content |-> Contents[m]]
             here == {p \in EmittedFile.placed :
                        /\ p.byteOffset = entries[n].byteOffset
                        /\ p.content.byteSize = entries[n].byteSize}
  <2>1. EmittedFile.placed = {place(m) : m \in 1 .. k}
    BY <1>1 DEF EmittedFile
  <2>2. \A m \in 1 .. k : place(m).byteOffset = SectionOffset(m) /\ place(m).content = Contents[m]
    OBVIOUS
  <2>3. \A m \in 1 .. k : SectionOffset(m) = SectionOffset(n) => m = n
    <3> SUFFICES ASSUME NEW m \in 1 .. k, SectionOffset(m) = SectionOffset(n), m # n
                 PROVE  FALSE
      OBVIOUS
    <3>1. m < n \/ n < m
      BY <1>1
    <3>2. SectionOffset(m) \in Nat /\ SectionOffset(n) \in Nat
      BY PlacementFacts DEF k
    <3>3. SectionOffset(m) < SectionOffset(n) \/ SectionOffset(n) < SectionOffset(m)
      BY <3>1, PlacementFacts DEF k
    <3> QED BY <3>2, <3>3
  <2> HIDE DEF place
  <2>4. here = {place(n)}
    BY <1>4, <1>5, <2>1, <2>2, <2>3
  <2>5. Subspan(EmittedFile, entries[n]) =
            IF here # {} THEN (CHOOSE p \in here : TRUE).content
            ELSE [byteSize |-> entries[n].byteSize, header |-> NoStreamHeader,
                  memory |-> <<>>]
    BY DEF Subspan
  <2> HIDE DEF here
  <2> QED BY <2>2, <2>4, <2>5
<1>6. Lanes(entries) = LaneSections
  BY <1>1, <1>2, <1>4 DEF Lanes, LaneSections
<1> QED BY <1>2, <1>4, <1>5, <1>6 DEF k, entries

LEMMA EmittedIsFile ==
    ASSUME WritersInv, SectionsInv
    PROVE  IsFile(EmittedFile)
<1> DEFINE k == Len(pendingSections)
           f == EmittedFile
<1>1. k \in Nat /\ DOMAIN pendingSections = 1 .. k
      /\ \A n \in 1 .. k :
            /\ pendingSections[n].sectionIndex \in Nat
            /\ Contents[n].byteSize \in Nat \ {0}
  BY SectionFacts
<1>2. /\ RequiredByteSize \in Nat
      /\ \A n \in 1 .. k : SectionOffset(n) \in Nat
  BY PlacementFacts
<1>3. Cardinality(LaneSections) \in Nat
  <2>1. IsFiniteSet(1 .. k)
    BY <1>1, FS_Interval
  <2>2. LaneSections \in SUBSET (1 .. k)
    BY <1>1 DEF LaneSections
  <2> QED BY <2>1, <2>2, FS_Subset, FS_CardinalityType
<1>4. /\ f = [byteSize |-> f.byteSize, header |-> f.header, directory |-> f.directory,
              placed |-> f.placed, changes |-> f.changes]
      /\ f.byteSize \in Nat /\ f.changes \in Nat
  BY <1>2 DEF EmittedFile
<1>5. IsHeader(f.header)
  BY <1>1, <1>2, <1>3 DEF EmittedFile, IsHeader
<1>6. /\ f.directory = [n \in DOMAIN f.directory |-> f.directory[n]]
      /\ DOMAIN f.directory = 1 .. k
      /\ \A n \in 1 .. k :
            f.directory[n] = [type |-> pendingSections[n].type,
                              reservedFlags |-> 0,
                              sectionIndex |-> pendingSections[n].sectionIndex,
                              byteOffset |-> SectionOffset(n),
                              byteSize |-> Contents[n].byteSize]
  BY <1>1 DEF EmittedFile
<1>7. \A n \in DOMAIN f.directory : IsEntry(f.directory[n])
  <2> TAKE n \in DOMAIN f.directory
  <2>1. n \in 1 .. k
    BY <1>6
  <2>2. /\ pendingSections[n].sectionIndex \in Nat /\ SectionOffset(n) \in Int
        /\ Contents[n].byteSize \in Int
    BY <1>1, <1>2, <2>1
  <2> DEFINE entry == f.directory[n]
             offset == SectionOffset(n)
  <2>3. entry = [type |-> pendingSections[n].type, reservedFlags |-> 0,
                 sectionIndex |-> pendingSections[n].sectionIndex,
                 byteOffset |-> offset, byteSize |-> Contents[n].byteSize]
    BY <1>6, <2>1
  <2> HIDE DEF entry, offset
  <2>4. IsEntry(entry)
    BY <2>2, <2>3 DEF IsEntry, offset
  <2> QED BY <2>4 DEF entry
<1> QED BY <1>4, <1>5, <1>6, <1>7 DEF IsFile

LEMMA EmittedIsValid ==
    ASSUME WritersInv, SectionsInv, LanesContiguous,
           \A n \in LaneSections : StreamError(ContentOf(pendingSections[n])) = "none"
    PROVE  Valid(EmittedFile, Entries(EmittedFile))
<1> DEFINE k == Len(pendingSections)
           entries == Entries(EmittedFile)
           header == EmittedFile.header
<1>1. /\ k \in Nat /\ DOMAIN pendingSections = 1 .. k
      /\ \A n \in 1 .. k :
            /\ pendingSections[n].type \in SectionTypes
            /\ pendingSections[n].sectionIndex \in Nat
            /\ Contents[n] = ContentOf(pendingSections[n])
            /\ Contents[n].byteSize \in Nat \ {0}
      /\ \A n \in LaneSections :
            /\ Contents[n].header.laneIndex = pendingSections[n].sectionIndex
            /\ Contents[n].header.graphHash = ModuleGraphHash
  BY SectionFacts
<1>2. /\ RequiredByteSize \in Nat
      /\ DirectoryEnd(k) <= RequiredByteSize
      /\ \A n \in 1 .. k :
            /\ SectionOffset(n) \in Nat /\ SectionOffset(n) % 8 = 0
            /\ DirectoryEnd(k) <= SectionOffset(n)
            /\ SectionOffset(n) + Contents[n].byteSize <= RequiredByteSize
      /\ \A m, n \in 1 .. k : m < n =>
            /\ SectionOffset(m) + Contents[m].byteSize <= SectionOffset(n)
            /\ SectionOffset(m) < SectionOffset(n)
  BY PlacementFacts
<1>3. /\ DOMAIN entries = 1 .. k
      /\ \A n \in 1 .. k :
            /\ entries[n].type = pendingSections[n].type
            /\ entries[n].reservedFlags = 0
            /\ entries[n].sectionIndex = pendingSections[n].sectionIndex
            /\ entries[n].byteOffset = SectionOffset(n)
            /\ entries[n].byteSize = Contents[n].byteSize
            /\ Subspan(EmittedFile, entries[n]) = Contents[n]
      /\ Lanes(entries) = LaneSections
  BY EmittedFacts
<1>4. /\ header.magic = TRUE /\ header.version = TRUE
      /\ header.sectionCount = k
      /\ header.laneStreamCount = Cardinality(LaneSections)
      /\ header.totalByteSize = RequiredByteSize
      /\ EmittedFile.byteSize = RequiredByteSize
      /\ header.graphHash = ModuleGraphHash
  BY DEF EmittedFile
<1>5. \A m, n \in DOMAIN pendingSections :
        m # n => Identity(pendingSections[m]) # Identity(pendingSections[n])
  BY DEF SectionsInv
<1> HIDE DEF k, entries, header
<1>6. DirectoryEnd(k) \in Nat
  BY <1>1, DirectoryEndFacts
<1>7. \A n \in DOMAIN entries : EntryError(entries[n], header) = "none"
  <2> TAKE n \in DOMAIN entries
  <2>1. n \in 1 .. k
    BY <1>3
  <2>2. entries[n].byteOffset % Alignment = 0
    BY <1>2, <1>3, <2>1 DEF Alignment
  <2>3. entries[n].reservedFlags = 0 /\ entries[n].type \in SectionTypes
    BY <1>1, <1>3, <2>1
  <2>4. ~OutOfBounds(entries[n], header)
    <3>1. /\ SectionOffset(n) \in Nat /\ Contents[n].byteSize \in Nat
          /\ DirectoryEnd(k) <= SectionOffset(n)
          /\ SectionOffset(n) + Contents[n].byteSize <= RequiredByteSize
      BY <1>1, <1>2, <2>1
    <3>2. /\ ~(SectionOffset(n) < DirectoryEnd(k))
          /\ ~(SectionOffset(n) > RequiredByteSize)
          /\ ~(Contents[n].byteSize > RequiredByteSize - SectionOffset(n))
      BY <1>2, <1>6, <3>1
    <3>3. entries[n].byteOffset = SectionOffset(n) /\ entries[n].byteSize = Contents[n].byteSize
      BY <1>3, <2>1
    <3> QED BY <1>4, <3>2, <3>3 DEF OutOfBounds
  <2> QED BY <2>2, <2>3, <2>4 DEF EntryError
<1>8. ~Overlapping(entries)
  <2> SUFFICES ASSUME NEW m \in 1 .. k, NEW n \in 1 .. k, Precedes(entries, m, n)
               PROVE  ~(entries[m].byteOffset + entries[m].byteSize > entries[n].byteOffset)
    BY <1>3 DEF Overlapping
  <2>1. /\ SectionOffset(m) \in Nat /\ SectionOffset(n) \in Nat
        /\ Contents[m].byteSize \in Nat
    BY <1>1, <1>2
  <2>2. m < n
    <3>1. m \in Nat /\ n \in Nat
      BY <1>1
    <3>2. \/ SectionOffset(m) < SectionOffset(n)
          \/ SectionOffset(m) = SectionOffset(n) /\ m < n
      <4>1. /\ entries[m].byteOffset = SectionOffset(m)
            /\ entries[n].byteOffset = SectionOffset(n)
        BY <1>3
      <4> QED BY <4>1 DEF Precedes
    <3>3. ~(n < m)
      <4> SUFFICES ASSUME n < m PROVE FALSE
        OBVIOUS
      <4>1. SectionOffset(n) < SectionOffset(m)
        BY <1>2
      <4> QED BY <2>1, <3>1, <3>2, <4>1
    <3>4. m # n
      BY <2>1, <3>1, <3>2
    <3> QED BY <3>1, <3>3, <3>4
  <2>3. SectionOffset(m) + Contents[m].byteSize <= SectionOffset(n)
    BY <1>2, <2>2
  <2> QED BY <1>3, <2>1, <2>3
<1>9. ~Duplicated(entries)
  BY <1>1, <1>3, <1>5 DEF Duplicated, Identity
<1>10. \A n \in Lanes(entries) : entries[n].sectionIndex = LanePosition(entries, n)
  <2> DEFINE index == [n \in LaneSections |-> pendingSections[n].sectionIndex]
  <2>1. LaneSections \in SUBSET (1 .. k)
    BY <1>1 DEF LaneSections
  <2>2. IsFiniteSet(LaneSections)
    <3>1. IsFiniteSet(1 .. k)
      BY <1>1, FS_Interval
    <3> QED BY <2>1, <3>1, FS_Subset
  <2>3. index \in [LaneSections -> Nat]
    BY <1>1, <2>1
  <2>4. \A m, n \in LaneSections : m # n => index[m] # index[n]
    BY <1>5 DEF Identity, LaneSections
  <2>5. {index[n] : n \in LaneSections} = 0 .. Cardinality(LaneSections) - 1
    BY DEF LanesContiguous
  <2>6. \A n \in LaneSections : entries[n].sectionIndex = index[n]
    BY <1>3, <2>1
  <2> HIDE DEF index
  <2>7. \A n \in LaneSections :
            index[n] = Cardinality({m \in LaneSections : index[m] < index[n]})
    BY <2>2, <2>3, <2>4, <2>5, ContiguousArePositions
  <2> SUFFICES ASSUME NEW n \in LaneSections
               PROVE  entries[n].sectionIndex = LanePosition(entries, n)
    BY <1>3
  <2>8. {m \in Lanes(entries) : entries[m].sectionIndex < entries[n].sectionIndex}
            = {m \in LaneSections : index[m] < index[n]}
    BY <1>3, <2>6
  <2> QED BY <2>6, <2>7, <2>8 DEF LanePosition
<1>11. \A n \in Lanes(entries) : LaneError(EmittedFile, entries, n) = "none"
  <2> TAKE n \in Lanes(entries)
  <2>1. n \in LaneSections /\ n \in 1 .. k
    BY <1>1, <1>3 DEF LaneSections
  <2>2. Subspan(EmittedFile, entries[n]) = Contents[n]
        /\ entries[n].sectionIndex = pendingSections[n].sectionIndex
    BY <1>3, <2>1
  <2>3. StreamError(Contents[n]) = "none"
    BY <1>1, <2>1
  <2>4. Contents[n].header.laneIndex = pendingSections[n].sectionIndex
        /\ Contents[n].header.graphHash = EmittedFile.header.graphHash
    BY <1>1, <1>4, <2>1 DEF header
  <2> QED BY <1>10, <2>2, <2>3, <2>4 DEF LaneError
<1>12. /\ header.totalByteSize = EmittedFile.byteSize
       /\ ~(DirectoryEnd(header.sectionCount) > header.totalByteSize)
       /\ Cardinality(Lanes(entries)) = header.laneStreamCount
  BY <1>2, <1>3, <1>4, <1>6
<1> QED BY <1>4, <1>7, <1>8, <1>9, <1>11, <1>12 DEF Valid, header, entries

LEMMA EmittedFileIsAccepted ==
    WritersInv /\ SectionsInv /\ FileInv => WrittenModulesAreAccepted
<1> SUFFICES ASSUME WritersInv, SectionsInv, FileInv, file # NoFile, file.changes = 0,
                    \A n \in LaneSections :
                        StreamError(ContentOf(pendingSections[n])) = "none"
             PROVE  /\ ModuleError(file) = "none"
                    /\ \A n \in DOMAIN pendingSections :
                        FindSection(file, pendingSections[n].type,
                                    pendingSections[n].sectionIndex)
                            = <<ContentOf(pendingSections[n])>>
  BY DEF WrittenModulesAreAccepted
<1>1. file = EmittedFile /\ LanesContiguous /\ IsFile(file)
  BY DEF FileInv
<1>2. ModuleError(file) = "none"
  BY <1>1, EmittedIsValid, ModuleDecision
<1>3. ASSUME NEW n \in DOMAIN pendingSections
      PROVE  FindSection(file, pendingSections[n].type, pendingSections[n].sectionIndex)
                = <<ContentOf(pendingSections[n])>>
  <2> DEFINE k == Len(pendingSections)
             entries == Entries(file)
             found == {m \in DOMAIN entries :
                        /\ entries[m].type = pendingSections[n].type
                        /\ entries[m].sectionIndex = pendingSections[n].sectionIndex}
             first == CHOOSE m \in found : \A i \in found : m <= i
  <2>1. k \in Nat /\ DOMAIN pendingSections = 1 .. k
        /\ Contents[n] = ContentOf(pendingSections[n])
    BY <1>3, SectionFacts
  <2>2. /\ DOMAIN entries = 1 .. k
        /\ \A m \in 1 .. k :
            /\ entries[m].type = pendingSections[m].type
            /\ entries[m].sectionIndex = pendingSections[m].sectionIndex
            /\ Subspan(file, entries[m]) = Contents[m]
    BY <1>1, EmittedFacts
  <2>3. \A m, i \in DOMAIN pendingSections :
            m # i => Identity(pendingSections[m]) # Identity(pendingSections[i])
    BY DEF SectionsInv
  <2> HIDE DEF k, entries
  <2>4. found = {n}
    BY <1>3, <2>1, <2>2, <2>3 DEF Identity
  <2>5. FindSection(file, pendingSections[n].type, pendingSections[n].sectionIndex)
            = IF found = {} THEN <<>> ELSE <<Subspan(file, entries[first])>>
    BY DEF FindSection, entries
  <2>6. first = n
    <3>1. n <= n
      BY <1>3, <2>1
    <3> QED BY <2>4, <3>1
  <2> HIDE DEF first, found
  <2> QED BY <1>3, <2>1, <2>2, <2>4, <2>5, <2>6
<1> QED BY <1>2, <1>3
-----------------------------------------------------------------------------
(* The steps.                                                              *)

\* What the file would be depends on the contents that were verified.
LEMMA EmittedStays ==
    ASSUME UNCHANGED pendingSections, UNCHANGED Contents
    PROVE  EmittedFile' = EmittedFile /\ LanesContiguous' = LanesContiguous
<1>1. LaneSections' = LaneSections
  BY DEF LaneSections
<1>2. \A n : SectionOffset(n)' = SectionOffset(n)
  BY DEF SectionOffset
<1>3. RequiredByteSize' = RequiredByteSize
  BY DEF SectionOffset, RequiredByteSize
<1> QED BY <1>1, <1>2, <1>3 DEF EmittedFile, LanesContiguous

\* The writer of an added lane is finished: no step of a writer reaches it.
LEMMA WriterStepInv ==
    ASSUME ModuleInv, NEW w \in Writers,
           \/ \E command \in Commands :
                AppendCommand(w, command) \/ AppendOverflows(w, command)
           \/ Finish(w),
           UNCHANGED <<pendingSections, usedSectionIdentities, file>>
    PROVE  ModuleInv'
<1> USE DEF ModuleInv
<1>1. /\ writers' = [x \in Writers |-> writers'[x]]
      /\ \A x \in Writers \ {w} : writers'[x] = writers[x]
      /\ WriterInv(writers'[w])
      /\ writers[w].isFinished = FALSE
  BY WriterStep
<1>2. WritersInv'
  BY <1>1 DEF WritersInv
<1>3. /\ DOMAIN pendingSections = 1 .. Len(pendingSections)
      /\ \A n \in LaneSections :
            /\ pendingSections[n].writer \in Writers
            /\ writers[pendingSections[n].writer].isFinished = TRUE
  BY SectionFacts
<1>4. LaneSections' = LaneSections
  BY DEF LaneSections
<1>5. ASSUME NEW n \in DOMAIN pendingSections
      PROVE  ContentOf(pendingSections[n])' = ContentOf(pendingSections[n])
  <2>1. CASE n \in LaneSections
    <3>1. pendingSections[n].writer \in Writers \ {w}
      BY <1>1, <1>3, <2>1
    <3>2. writers'[pendingSections[n].writer] = writers[pendingSections[n].writer]
      BY <1>1, <3>1
    <3> QED BY <3>2 DEF ContentOf
  <2>2. CASE n \notin LaneSections
    BY <2>2 DEF LaneSections, ContentOf
  <2> QED BY <2>1, <2>2
<1>6. SectionsInv'
  <2>1. \A n \in LaneSections :
            LaneContentVerified(pendingSections[n].sectionIndex,
                                ContentOf(pendingSections[n])')
    BY <1>5 DEF SectionsInv, LaneSections
  <2> QED BY <1>4, <2>1 DEF SectionsInv, LaneContentVerified
<1>7. FileInv'
  <2>1. UNCHANGED Contents
    BY <1>5 DEF Contents
  <2>2. EmittedFile' = EmittedFile /\ LanesContiguous' = LanesContiguous
    BY <2>1, EmittedStays
  <2> QED BY <2>2 DEF FileInv
<1> QED BY <1>2, <1>6, <1>7

LEMMA AddSectionInv ==
    ASSUME ModuleInv, NEW section \in Sections, AddSection(section)
    PROVE  ModuleInv'
<1> USE DEF ModuleInv
<1> DEFINE k == Len(pendingSections)
<1>1. UNCHANGED <<writers, file>> /\ file = NoFile
  BY DEF AddSection
<1>2. WritersInv'
  BY <1>1 DEF WritersInv
<1>3. FileInv'
  BY <1>1 DEF FileInv
<1>4. /\ pendingSections \in Seq(Sections) /\ k \in Nat
      /\ DOMAIN pendingSections = 1 .. k
  BY DEF SectionsInv
<1>5. /\ \A n \in 1 .. k : Identity(pendingSections[n]) \in usedSectionIdentities
      /\ \A m, n \in 1 .. k :
            m # n => Identity(pendingSections[m]) # Identity(pendingSections[n])
      /\ \A n \in 1 .. k : pendingSections[n].type = "LaneStream" =>
            LaneContentVerified(pendingSections[n].sectionIndex,
                                ContentOf(pendingSections[n]))
  BY <1>4 DEF SectionsInv, LaneSections
<1>6. /\ Identity(section) \notin usedSectionIdentities
      /\ usedSectionIdentities' = usedSectionIdentities \cup {Identity(section)}
  BY DEF AddSection, Identity
<1>7. \A x : ContentOf(x)' = ContentOf(x)
  BY <1>1 DEF ContentOf
<1>8. CASE section.type = "LaneStream"
           /\ ~LaneContentVerified(section.sectionIndex, ContentOf(section))
  <2>1. pendingSections' = pendingSections
    BY <1>8 DEF AddSection
  <2>2. SectionsInv'
    BY <1>4, <1>5, <1>6, <1>7, <2>1 DEF SectionsInv, LaneSections
  <2> QED BY <1>2, <1>3, <2>2
<1>9. CASE ~(section.type = "LaneStream"
             /\ ~LaneContentVerified(section.sectionIndex, ContentOf(section)))
  <2>1. pendingSections' = Append(pendingSections, section)
    BY <1>9 DEF AddSection
  <2>2. /\ Append(pendingSections, section) \in Seq(Sections)
        /\ DOMAIN Append(pendingSections, section) = 1 .. k + 1
        /\ \A n \in 1 .. k : Append(pendingSections, section)[n] = pendingSections[n]
        /\ Append(pendingSections, section)[k + 1] = section
    BY <1>4
  <2> DEFINE longer == Append(pendingSections, section)
  <2> HIDE DEF longer, k
  <2>3. \A n \in 1 .. k + 1 : n \in 1 .. k \/ n = k + 1
    BY <1>4
  <2>4. /\ \A n \in 1 .. k : longer[n] = pendingSections[n]
        /\ longer[k + 1] = section /\ DOMAIN longer = 1 .. k + 1
    BY <2>2 DEF longer
  <2>5. \A n \in 1 .. k + 1 :
            Identity(longer[n]) \in usedSectionIdentities \cup {Identity(section)}
    BY <1>5, <2>3, <2>4
  <2>6. \A m, n \in 1 .. k + 1 : m # n => Identity(longer[m]) # Identity(longer[n])
    BY <1>5, <1>6, <2>3, <2>4
  <2>7. \A n \in 1 .. k + 1 : longer[n].type = "LaneStream" =>
            LaneContentVerified(longer[n].sectionIndex, ContentOf(longer[n]))
    BY <1>5, <1>9, <2>3, <2>4
  <2>8. longer \in Seq(Sections) /\ pendingSections' = longer
    BY <2>1, <2>2 DEF longer
  <2>9. SectionsInv'
    BY <1>6, <1>7, <2>4, <2>5, <2>6, <2>7, <2>8 DEF SectionsInv, LaneSections
  <2> QED BY <1>2, <1>3, <2>9
<1> QED BY <1>8, <1>9

LEMMA ChangedHeaderIsHeader ==
    ASSUME NEW header, IsHeader(header), NEW after \in ChangedHeaders(header)
    PROVE  IsHeader(after)
<1>1. /\ header = [magic |-> header.magic, version |-> header.version,
                   sectionCount |-> header.sectionCount,
                   laneStreamCount |-> header.laneStreamCount,
                   totalByteSize |-> header.totalByteSize,
                   graphHash |-> header.graphHash]
      /\ header.sectionCount \in Nat
      /\ header.laneStreamCount \in Int
      /\ header.totalByteSize \in Int
  BY DEF IsHeader
<1>2. CASE \/ after = [header EXCEPT !.magic = FALSE]
           \/ after = [header EXCEPT !.version = FALSE]
           \/ after = [header EXCEPT !.graphHash = "other"]
  BY <1>1, <1>2 DEF IsHeader
<1>3. CASE after = [header EXCEPT !.totalByteSize = @ + Alignment]
  <2>1. header.totalByteSize + Alignment \in Int
    BY <1>1 DEF Alignment
  <2> QED BY <1>1, <1>3, <2>1 DEF IsHeader
<1>4. CASE after = [header EXCEPT !.sectionCount = Modulus]
  BY <1>1, <1>4, ModulusAssumption DEF IsHeader
<1>5. CASE \E n \in 0 .. header.sectionCount + 1 : after = [header EXCEPT !.sectionCount = n]
  <2>1. PICK n \in 0 .. header.sectionCount + 1 : after = [header EXCEPT !.sectionCount = n]
    BY <1>5
  <2>2. n \in Nat
    BY <1>1
  <2> QED BY <1>1, <2>1, <2>2 DEF IsHeader
<1>6. CASE \E n \in 0 .. header.laneStreamCount + 1 :
                after = [header EXCEPT !.laneStreamCount = n]
  <2>1. PICK n \in 0 .. header.laneStreamCount + 1 :
                after = [header EXCEPT !.laneStreamCount = n]
    BY <1>6
  <2>2. n \in Int
    BY <1>1
  <2> QED BY <1>1, <2>1, <2>2 DEF IsHeader
<1> QED BY <1>2, <1>3, <1>4, <1>5, <1>6 DEF ChangedHeaders

LEMMA ChangedEntryIsEntry ==
    ASSUME IsFile(file), NEW entry, IsEntry(entry), NEW after \in ChangedEntries(entry)
    PROVE  IsEntry(after)
<1>1. /\ entry = [type |-> entry.type, reservedFlags |-> entry.reservedFlags,
                  sectionIndex |-> entry.sectionIndex, byteOffset |-> entry.byteOffset,
                  byteSize |-> entry.byteSize]
      /\ entry.sectionIndex \in Nat
      /\ entry.byteOffset \in Int
      /\ entry.byteSize \in Int
  BY DEF IsEntry
<1>2. CASE \/ after = [entry EXCEPT !.reservedFlags = 1]
           \/ after = [entry EXCEPT !.type = "unassigned"]
           \/ \E type \in SectionTypes : after = [entry EXCEPT !.type = type]
  BY <1>1, <1>2 DEF IsEntry
<1>3. CASE \E n \in 0 .. 1 : after = [entry EXCEPT !.sectionIndex = n]
  <2>1. PICK n \in 0 .. 1 : after = [entry EXCEPT !.sectionIndex = n]
    BY <1>3
  <2>2. n \in Nat
    OBVIOUS
  <2> QED BY <1>1, <2>1, <2>2 DEF IsEntry
<1> DEFINE offsets == {entry.byteOffset + 4, entry.byteOffset - Alignment,
                       entry.byteOffset + Alignment, Modulus - Alignment}
                      \cup {file.directory[n].byteOffset : n \in DOMAIN file.directory}
           sizes == {0, entry.byteSize + 4, entry.byteSize + Alignment,
                     Modulus - entry.byteOffset, Modulus - 1}
<1>4. offsets \subseteq Int
  <2>1. \A n \in DOMAIN file.directory : file.directory[n].byteOffset \in Int
    BY DEF IsFile, IsEntry
  <2>2. {entry.byteOffset + 4, entry.byteOffset - Alignment,
         entry.byteOffset + Alignment, Modulus - Alignment} \subseteq Int
    BY <1>1, ModulusAssumption DEF Alignment
  <2> QED BY <2>1, <2>2
<1>5. sizes \subseteq Int
  BY <1>1, ModulusAssumption DEF Alignment
<1> HIDE DEF offsets, sizes
<1>6. CASE \E o \in offsets : after = [entry EXCEPT !.byteOffset = o]
  BY <1>1, <1>4, <1>6 DEF IsEntry
<1>7. CASE \E size \in sizes : after = [entry EXCEPT !.byteSize = size]
  BY <1>1, <1>5, <1>7 DEF IsEntry
<1> QED BY <1>2, <1>3, <1>6, <1>7 DEF ChangedEntries, offsets, sizes

LEMMA ChangeFileInv ==
    ASSUME ModuleInv, ChangeFile
    PROVE  ModuleInv'
<1> USE DEF ModuleInv
<1>1. UNCHANGED <<writers, pendingSections, usedSectionIdentities>>
  BY DEF ChangeFile
<1>2. WritersInv'
  BY <1>1 DEF WritersInv
<1>3. SectionsInv'
  BY <1>1 DEF SectionsInv, LaneSections, ContentOf
<1>4. IsFile(file)
  BY DEF FileInv, ChangeFile
<1>5. /\ file = [byteSize |-> file.byteSize, header |-> file.header,
                 directory |-> file.directory, placed |-> file.placed,
                 changes |-> file.changes]
      /\ file.byteSize \in Nat /\ IsHeader(file.header) /\ file.changes \in Nat
      /\ file.directory = [n \in DOMAIN file.directory |-> file.directory[n]]
      /\ \A n \in DOMAIN file.directory : IsEntry(file.directory[n])
  BY <1>4 DEF IsFile
<1>6. file.changes + 1 \in Nat /\ file.changes + 1 # 0
  BY <1>5
<1>7. CASE \E header \in ChangedHeaders(file.header) :
                file' = [file EXCEPT !.header = header, !.changes = @ + 1]
  <2>1. PICK header \in ChangedHeaders(file.header) :
                file' = [file EXCEPT !.header = header, !.changes = @ + 1]
    BY <1>7
  <2>2. IsHeader(header)
    BY <1>5, ChangedHeaderIsHeader
  <2>3. file' = [byteSize |-> file.byteSize, header |-> header,
                 directory |-> file.directory, placed |-> file.placed,
                 changes |-> file.changes + 1]
    BY <1>5, <2>1
  <2>4. IsFile(file') /\ file'.changes # 0
    BY <1>5, <1>6, <2>2, <2>3 DEF IsFile
  <2>5. FileInv'
    BY <2>4 DEF FileInv, IsFile
  <2> QED BY <1>2, <1>3, <2>5
<1>8. CASE \E n \in DOMAIN file.directory :
                \E entry \in ChangedEntries(file.directory[n]) :
                    file' = [file EXCEPT !.directory[n] = entry, !.changes = @ + 1]
  <2>1. PICK n \in DOMAIN file.directory :
                \E entry \in ChangedEntries(file.directory[n]) :
                    file' = [file EXCEPT !.directory[n] = entry, !.changes = @ + 1]
    BY <1>8
  <2>2. PICK entry \in ChangedEntries(file.directory[n]) :
                file' = [file EXCEPT !.directory[n] = entry, !.changes = @ + 1]
    BY <2>1
  <2>3. IsEntry(entry)
    BY <1>4, <1>5, ChangedEntryIsEntry
  <2> DEFINE directory == [file.directory EXCEPT ![n] = entry]
  <2>4. /\ directory = [m \in DOMAIN directory |-> directory[m]]
        /\ \A m \in DOMAIN directory : IsEntry(directory[m])
    BY <1>5, <2>3
  <2>5. file' = [byteSize |-> file.byteSize, header |-> file.header,
                 directory |-> directory, placed |-> file.placed,
                 changes |-> file.changes + 1]
    BY <1>5, <2>2
  <2> HIDE DEF directory
  <2>6. IsFile(file') /\ file'.changes # 0
    BY <1>5, <1>6, <2>4, <2>5 DEF IsFile
  <2>7. FileInv'
    BY <2>6 DEF FileInv, IsFile
  <2> QED BY <1>2, <1>3, <2>7
<1> QED BY <1>7, <1>8 DEF ChangeFile
LEMMA WriteToInv ==
    ASSUME ModuleInv, NEW slack, WriteTo(slack)
    PROVE  ModuleInv'
<1> USE DEF ModuleInv
<1>1. /\ UNCHANGED <<writers, pendingSections, usedSectionIdentities>>
      /\ file' = EmittedFile /\ LanesContiguous
  BY DEF WriteTo
<1>2. WritersInv'
  BY <1>1 DEF WritersInv
<1>3. SectionsInv'
  BY <1>1 DEF SectionsInv, LaneSections, ContentOf
<1>4. UNCHANGED Contents
  BY <1>1 DEF Contents, ContentOf
<1>5. EmittedFile' = EmittedFile /\ LanesContiguous' = LanesContiguous
  BY <1>1, <1>4, EmittedStays
<1>6. IsFile(EmittedFile)
  BY EmittedIsFile
<1>7. FileInv'
  BY <1>1, <1>5, <1>6 DEF FileInv, IsFile
<1> QED BY <1>2, <1>3, <1>7

LEMMA ModuleInitInv == InitModule => ModuleInv
<1> SUFFICES ASSUME InitModule PROVE ModuleInv
  OBVIOUS
<1>1. WritersInv
  BY WritersInit DEF InitModule
<1>2. SectionsInv
  <2>1. pendingSections = <<>>
    BY DEF InitModule
  <2>2. pendingSections \in Seq(Sections) /\ DOMAIN pendingSections = {}
    BY <2>1
  <2> QED BY <2>2 DEF SectionsInv, LaneSections
<1>3. FileInv
  BY DEF InitModule, FileInv
<1> QED BY <1>1, <1>2, <1>3 DEF ModuleInv

LEMMA ModuleStepInv == ModuleInv /\ [ModuleNext]_moduleVars => ModuleInv'
<1> SUFFICES ASSUME ModuleInv, [ModuleNext]_moduleVars PROVE ModuleInv'
  OBVIOUS
<1>1. ASSUME NEW w \in Writers,
             \/ \E command \in Commands :
                    AppendCommand(w, command) \/ AppendOverflows(w, command)
             \/ Finish(w),
             UNCHANGED <<pendingSections, usedSectionIdentities, file>>
      PROVE  ModuleInv'
  BY <1>1, WriterStepInv
<1>2. ASSUME NEW w \in Writers, NEW index \in SectionIndices["LaneStream"],
             AddSection([type |-> "LaneStream", sectionIndex |-> index, writer |-> w])
      PROVE  ModuleInv'
  <2> DEFINE section == [type |-> "LaneStream", sectionIndex |-> index, writer |-> w]
  <2>1. index \in Int
    BY IndicesAssumption DEF SectionTypes
  <2>2. index \in Nat
    BY <1>2, <2>1 DEF AddSection
  <2>3. section \in Sections
    BY <2>2 DEF Sections
  <2> QED BY <1>2, <2>3, AddSectionInv
<1>3. ASSUME NEW type \in TableTypes, NEW index \in SectionIndices[type],
             AddSection([type |-> type, sectionIndex |-> index])
      PROVE  ModuleInv'
  <2> DEFINE section == [type |-> type, sectionIndex |-> index]
  <2>1. index \in Int
    BY IndicesAssumption DEF SectionTypes
  <2>2. index \in Nat
    BY <1>3, <2>1 DEF AddSection
  <2>3. section \in Sections
    BY <2>2 DEF Sections
  <2> QED BY <1>3, <2>3, AddSectionInv
<1>4. ASSUME NEW slack \in TargetSlack, WriteTo(slack)
      PROVE  ModuleInv'
  BY <1>4, WriteToInv
<1>5. CASE ChangeFile
  BY <1>5, ChangeFileInv
<1>6. CASE UNCHANGED moduleVars
  <2>1. /\ UNCHANGED <<writers, pendingSections, usedSectionIdentities, file>>
    BY <1>6 DEF moduleVars
  <2>2. WritersInv'
    BY <2>1 DEF ModuleInv, WritersInv
  <2>3. SectionsInv'
    BY <2>1 DEF ModuleInv, SectionsInv, LaneSections, ContentOf
  <2>4. UNCHANGED Contents
    BY <2>1 DEF Contents, ContentOf
  <2>5. EmittedFile' = EmittedFile /\ LanesContiguous' = LanesContiguous
    BY <2>1, <2>4, EmittedStays
  <2>6. FileInv'
    BY <2>1, <2>5 DEF ModuleInv, FileInv
  <2> QED BY <2>2, <2>3, <2>6 DEF ModuleInv
<1> QED BY <1>1, <1>2, <1>3, <1>4, <1>5, <1>6 DEF ModuleNext

LEMMA ModuleInvAlways == ModuleSpec => []ModuleInv
<1> QED BY ModuleInitInv, ModuleStepInv, PTL DEF ModuleSpec

-----------------------------------------------------------------------------
(* The theorems.                                                           *)

\* The commands that a reader iterates over in an accepted stream are the appends
\* that returned, in their order: an append that fails behind the count makes the
\* count tell, and the validator refuses the stream.
\* (CommandStreamWriter's append methods, CommandStreamValidator::validate)
THEOREM StreamsReplayAppends == ModuleSpec => []AcceptedStreamsReplayAppends
<1>1. ModuleInv => AcceptedStreamsReplayAppends
  BY StreamsReplayed DEF ModuleInv
<1> QED BY <1>1, ModuleInvAlways, PTL

\* The validator refuses no stream that had room for its header and in which every
\* append returned.  (CommandStreamWriter.finish, CommandStreamValidator::validate)
THEOREM CompleteStreamsPass == ModuleSpec => []UndisturbedStreamsAreAccepted
<1>1. ModuleInv => UndisturbedStreamsAreAccepted
  BY StreamsAccepted DEF ModuleInv
<1> QED BY <1>1, ModuleInvAlways, PTL

\* A file that the validator accepts has its sections apart from each other, behind
\* the directory and inside the file, and its lanes numbered 0 .. N - 1, whatever
\* fields were damaged on the way.  (CommandStreamModuleValidator::validate)
THEOREM AcceptedFilesAreConsistent == ModuleSpec => []AcceptedModulesAreConsistent
<1>1. ModuleInv => AcceptedModulesAreConsistent
  BY AcceptedFileIsConsistent DEF ModuleInv
<1> QED BY <1>1, ModuleInvAlways, PTL

\* A file as writeTo emits it is accepted when its lanes are, and the view finds in
\* it each added section, with its content.
\* (CommandStreamModuleWriter.writeTo, CommandStreamModuleView::findSection)
THEOREM WrittenFilesAreAccepted == ModuleSpec => []WrittenModulesAreAccepted
<1>1. ModuleInv => WrittenModulesAreAccepted
  BY EmittedFileIsAccepted DEF ModuleInv
<1> QED BY <1>1, ModuleInvAlways, PTL
=============================================================================
