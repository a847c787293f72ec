------------------------- MODULE CommandStreamModule -------------------------
(***************************************************************************)
(* The module file that holds one graph's lanes and tables:                *)
(* CommandStreamModuleWriter (Java) lays the sections out behind a         *)
(* directory, CommandStreamModuleValidator (native) checks the bytes and   *)
(* CommandStreamModuleView finds sections in what was accepted.            *)
(*                                                                         *)
(* A section's content is the record of CommandStream; that of a table is  *)
(* only its size here, module CommandStreamTables says what it holds.      *)
(***************************************************************************)
EXTENDS CommandStream, FiniteSets

CONSTANTS
    ModuleGraphHash,    \* what the module writer is constructed with
    TableTypes,         \* section types other than "LaneStream"
    TableByteSize,      \* the byte size of the table of each of these types
    SectionIndices,     \* for each section type, the indices callers pass
    TargetSlack,        \* the target's size, relative to requiredByteSize
    StrayEntry,         \* what lies where a damaged sectionCount sees an entry
    Modulus,            \* offsets and sizes of the file are taken modulo this
    MaxChanges          \* bound on the fields that change behind the writer

VARIABLES
    pendingSections,        \* m_pendingSections
    usedSectionIdentities,  \* m_usedSectionIdentities
    file                    \* the bytes that writeTo emitted

moduleVars == <<writers, pendingSections, usedSectionIdentities, file>>

ModuleHeaderByteSize == 32      \* s_moduleHeaderByteSize
SectionEntryByteSize == 24      \* s_sectionEntryByteSize
SectionTypes == TableTypes \cup {"LaneStream"}

\* No table is empty, and the fields of the file are numbers.
ASSUME TablesAssumption ==
    "LaneStream" \notin TableTypes /\ TableByteSize \in [TableTypes -> Nat \ {0}]
ASSUME IndicesAssumption ==
    \A type \in SectionTypes : SectionIndices[type] \subseteq Int
ASSUME StrayEntryAssumption ==
    {StrayEntry.sectionIndex, StrayEntry.byteOffset, StrayEntry.byteSize} \subseteq Nat
ASSUME ModulusAssumption == Modulus \in Nat

NoFile == [byteSize |-> 0]

InitModule ==
    /\ InitWriters
    /\ pendingSections = <<>>
    /\ usedSectionIdentities = {}
    /\ file = NoFile

\* The content a caller passes: a recorded lane, or a table.
TableContent(type) ==
    [byteSize |-> TableByteSize[type], header |-> NoStreamHeader, memory |-> <<>>]

\* A pending section borrows its content: it is read when it is written.
ContentOf(section) ==
    IF section.type = "LaneStream" THEN StreamContent(writers[section.writer])
    ELSE TableContent(section.type)

-----------------------------------------------------------------------------
(* The writer.                                                             *)

\* verifyLaneStreamContent: the version and the commands are not looked at.
LaneContentVerified(sectionIndex, content) ==
    /\ content.byteSize >= StreamHeaderByteSize
    /\ content.header.magic
    /\ content.header.laneIndex = sectionIndex
    /\ content.header.totalByteSize = content.byteSize
    /\ content.header.graphHash = ModuleGraphHash

\* addSection takes the identity before it verifies a lane: a refused lane
\* cannot be added again once it is finished.
AddSection(section) ==
    LET identity == <<section.type, section.sectionIndex>>
    IN  /\ file = NoFile
        /\ section.sectionIndex >= 0
        /\ identity \notin usedSectionIdentities
        /\ usedSectionIdentities' = usedSectionIdentities \cup {identity}
        /\ pendingSections' =
            IF section.type = "LaneStream"
               /\ ~LaneContentVerified(section.sectionIndex, ContentOf(section))
            THEN pendingSections
            ELSE Append(pendingSections, section)
        /\ UNCHANGED <<writers, file>>

\* Sections packed without padding between them.
Packed(byteOffset) == byteOffset

AlignUp(byteOffset) == ((byteOffset + Alignment - 1) \div Alignment) * Alignment

DirectoryEnd(sectionCount) ==
    ModuleHeaderByteSize + sectionCount * SectionEntryByteSize

Contents == [n \in DOMAIN pendingSections |-> ContentOf(pendingSections[n])]

\* Where the sections with some contents go, the first one at 0; behind the last
\* one, requiredByteSize.
SectionOffsets(contents) ==
    LET after[i \in 0 .. Len(contents)] ==
            IF i = 0 THEN DirectoryEnd(Len(contents))
            ELSE AlignUp(after[i - 1] + contents[i].byteSize)
    IN  after

SectionOffset(n) == SectionOffsets(Contents)[n - 1]

RequiredByteSize == SectionOffset(Len(pendingSections) + 1)

LaneSections == {n \in DOMAIN pendingSections : pendingSections[n].type = "LaneStream"}

\* verifyLaneIndexContiguity; identities are unique, so the indices are too.
LanesContiguous ==
    {pendingSections[n].sectionIndex : n \in LaneSections}
        = 0 .. Cardinality(LaneSections) - 1

EmittedFile ==
    [byteSize |-> RequiredByteSize,
     header |->
        [magic |-> TRUE, version |-> TRUE,
         sectionCount |-> Len(pendingSections),
         laneStreamCount |-> Cardinality(LaneSections),
         totalByteSize |-> RequiredByteSize,
         graphHash |-> ModuleGraphHash],
     directory |->
        [n \in DOMAIN pendingSections |->
            [type |-> pendingSections[n].type,
             reservedFlags |-> 0,
             sectionIndex |-> pendingSections[n].sectionIndex,
             byteOffset |-> SectionOffset(n),
             byteSize |-> Contents[n].byteSize]],
     placed |->
        {[byteOffset |-> SectionOffset(n), content |-> Contents[n]] :
            n \in DOMAIN pendingSections},
     changes |-> 0]

\* writeTo: it leaves the writer as it is, and throws without contiguous lanes
\* or with too small a target.
WriteTo(slack) ==
    /\ file = NoFile
    /\ LanesContiguous
    /\ slack >= 0
    /\ file' = EmittedFile
    /\ UNCHANGED <<writers, pendingSections, usedSectionIdentities>>

\* Between the writer and the validator the file can be damaged.  A smaller
\* sectionCount makes a prefix of the directory the whole of it, a larger one
\* makes entries of whatever lies behind.
ChangedHeaders(header) ==
    {[header EXCEPT !.magic = FALSE], [header EXCEPT !.version = FALSE],
     [header EXCEPT !.graphHash = "other"],
     [header EXCEPT !.totalByteSize = @ + Alignment],
     [header EXCEPT !.sectionCount = Modulus]}
    \cup {[header EXCEPT !.sectionCount = n] : n \in 0 .. header.sectionCount + 1}
    \cup {[header EXCEPT !.laneStreamCount = n] : n \in 0 .. header.laneStreamCount + 1}

ChangedEntries(entry) ==
    {[entry EXCEPT !.reservedFlags = 1], [entry EXCEPT !.type = "unassigned"]}
    \cup {[entry EXCEPT !.type = type] : type \in SectionTypes}
    \cup {[entry EXCEPT !.sectionIndex = n] : n \in 0 .. 1}
    \cup {[entry EXCEPT !.byteOffset = o] :
            o \in {entry.byteOffset + 4, entry.byteOffset - Alignment,
                   entry.byteOffset + Alignment, Modulus - Alignment}
                  \cup {file.directory[n].byteOffset : n \in DOMAIN file.directory}}
    \cup {[entry EXCEPT !.byteSize = size] :
            size \in {0, entry.byteSize + 4, entry.byteSize + Alignment,
                      Modulus - entry.byteOffset, Modulus - 1}}

ChangeFile ==
    /\ file # NoFile
    /\ file.changes < MaxChanges
    /\ \/ \E header \in ChangedHeaders(file.header) :
            file' = [file EXCEPT !.header = header, !.changes = @ + 1]
       \/ \E n \in DOMAIN file.directory :
            \E entry \in ChangedEntries(file.directory[n]) :
                file' = [file EXCEPT !.directory[n] = entry, !.changes = @ + 1]
    /\ UNCHANGED <<writers, pendingSections, usedSectionIdentities>>

ModuleNext ==
    \/ \E w \in Writers :
        /\ \/ \E command \in Commands :
                AppendCommand(w, command) \/ AppendOverflows(w, command)
           \/ Finish(w)
        /\ UNCHANGED <<pendingSections, usedSectionIdentities, file>>
    \/ \E w \in Writers, index \in SectionIndices["LaneStream"] :
        AddSection([type |-> "LaneStream", sectionIndex |-> index, writer |-> w])
    \/ \E type \in TableTypes : \E index \in SectionIndices[type] :
        AddSection([type |-> type, sectionIndex |-> index])
    \/ \E slack \in TargetSlack : WriteTo(slack)
    \/ ChangeFile

ModuleSpec == InitModule /\ [][ModuleNext]_moduleVars

-----------------------------------------------------------------------------
(* The validator and the view.                                             *)

Entries(f) ==
    [n \in 1 .. f.header.sectionCount |->
        IF n \in DOMAIN f.directory THEN f.directory[n] ELSE StrayEntry]

\* A range of the file holds what was placed there, or bytes that start with no
\* stream header.
Subspan(f, entry) ==
    LET here == {p \in f.placed : /\ p.byteOffset = entry.byteOffset
                                  /\ p.content.byteSize = entry.byteSize}
    IN  IF here # {} THEN (CHOOSE p \in here : TRUE).content
        ELSE [byteSize |-> entry.byteSize, header |-> NoStreamHeader, memory |-> <<>>]

\* The range test by the sum, as that wraps in the width of the fields.
OutOfBoundsBySum(entry, header) ==
    \/ entry.byteOffset < DirectoryEnd(header.sectionCount)
    \/ (entry.byteOffset + entry.byteSize) % Modulus > header.totalByteSize

\* The range test never adds the offset to the size.
OutOfBounds(entry, header) ==
    \/ entry.byteOffset < DirectoryEnd(header.sectionCount)
    \/ entry.byteOffset > header.totalByteSize
    \/ entry.byteSize > header.totalByteSize - entry.byteOffset

EntryError(entry, header) ==
    IF entry.reservedFlags # 0 THEN "NonZeroReservedFlags"
    ELSE IF entry.type \notin SectionTypes THEN "UnknownSectionType"
    ELSE IF entry.byteOffset % Alignment # 0 THEN "MisalignedSectionOffset"
    ELSE IF OutOfBounds(entry, header) THEN "SectionOutOfBounds"
    ELSE "none"

\* The order of the entries sorted by offset.  The sort may swap entries with the
\* same offset; here they stay as they are in the directory.
Precedes(entries, m, n) ==
    \/ entries[m].byteOffset < entries[n].byteOffset
    \/ entries[m].byteOffset = entries[n].byteOffset /\ m < n

\* Neighbours in that order.
Overlapping(entries) ==
    \E m, n \in DOMAIN entries :
        /\ Precedes(entries, m, n)
        /\ ~\E k \in DOMAIN entries : Precedes(entries, m, k) /\ Precedes(entries, k, n)
        /\ entries[m].byteOffset + entries[m].byteSize > entries[n].byteOffset

Duplicated(entries) ==
    \E m, n \in DOMAIN entries :
        /\ m # n
        /\ entries[m].type = entries[n].type
        /\ entries[m].sectionIndex = entries[n].sectionIndex

Lanes(entries) == {n \in DOMAIN entries : entries[n].type = "LaneStream"}

\* The position of a lane sorted by sectionIndex, which no two lanes share.
LanePosition(entries, n) ==
    Cardinality({m \in Lanes(entries) : entries[m].sectionIndex < entries[n].sectionIndex})

LaneError(f, entries, n) ==
    LET content == Subspan(f, entries[n])
    IN  IF entries[n].sectionIndex # LanePosition(entries, n) THEN "LaneIndexMismatch"
        ELSE IF StreamError(content) # "none" THEN "LaneStreamInvalid"
        ELSE IF content.header.laneIndex # entries[n].sectionIndex THEN "LaneIndexMismatch"
        ELSE IF content.header.graphHash # f.header.graphHash THEN "GraphHashMismatch"
        ELSE "none"

\* Of the errors of some entries, the one of the entry with the least key.
FirstError(errors, key) ==
    LET failed == {n \in DOMAIN errors : errors[n] # "none"}
    IN  IF failed = {} THEN "none"
        ELSE errors[CHOOSE n \in failed : \A m \in failed : key[n] <= key[m]]

\* CommandStreamModuleValidator::validate; the caller aligns the base address
\* and the file is never shorter than its header.
ModuleError(f) ==
    LET entries == Entries(f)
        entryError ==
            FirstError([n \in DOMAIN entries |-> EntryError(entries[n], f.header)],
                       [n \in DOMAIN entries |-> n])
    IN  IF ~f.header.magic THEN "InvalidModuleMagic"
        ELSE IF ~f.header.version THEN "UnsupportedModuleVersion"
        ELSE IF f.header.totalByteSize # f.byteSize THEN "ModuleSizeMismatch"
        ELSE IF DirectoryEnd(f.header.sectionCount) > f.header.totalByteSize
             THEN "DirectoryOutOfBounds"
        ELSE IF entryError # "none" THEN entryError
        ELSE IF Overlapping(entries) THEN "SectionOverlap"
        ELSE IF Duplicated(entries) THEN "DuplicateSection"
        ELSE IF Cardinality(Lanes(entries)) # f.header.laneStreamCount
             THEN "LaneStreamCountMismatch"
        ELSE FirstError([n \in Lanes(entries) |-> LaneError(f, entries, n)],
                        [n \in Lanes(entries) |-> entries[n].sectionIndex])

\* CommandStreamModuleView::findSection: the first entry of that identity.
FindSection(f, type, index) ==
    LET entries == Entries(f)
        found == {n \in DOMAIN entries :
                    entries[n].type = type /\ entries[n].sectionIndex = index}
    IN  IF found = {} THEN <<>>
        ELSE <<Subspan(f, entries[CHOOSE n \in found : \A m \in found : n <= m])>>

-----------------------------------------------------------------------------
(* Properties of the writer, the validator and the view together.          *)

\* What the writer emits is accepted when its lanes are valid streams, and each
\* added section is then found with the content that was added, wherever
\* paddings and directory put it.
\* (CommandStreamModuleWriter.writeTo, CommandStreamModuleView::findSection)
WrittenModulesAreAccepted ==
    /\ file # NoFile
    /\ file.changes = 0
    /\ \A n \in LaneSections : StreamError(ContentOf(pendingSections[n])) = "none"
    => /\ ModuleError(file) = "none"
       /\ \A n \in DOMAIN pendingSections :
            LET section == pendingSections[n]
            IN  FindSection(file, section.type, section.sectionIndex)
                    = <<ContentOf(section)>>

\* Whatever happened to the file, in an accepted one sections lie behind the
\* directory and inside the file, share no byte and no identity, and the lanes
\* are exactly 0 .. N - 1, each a valid stream recorded for that lane of this
\* graph.  (CommandStreamModuleValidator::validate; laneStream relies on it)
AcceptedModulesAreConsistent ==
    file # NoFile /\ ModuleError(file) = "none" =>
    LET entries == Entries(file)
        lanes == Lanes(entries)
        End(n) == entries[n].byteOffset + entries[n].byteSize
    IN  /\ \A n \in DOMAIN entries :
            /\ entries[n].byteOffset >= DirectoryEnd(Len(entries))
            /\ End(n) <= file.byteSize
        /\ \A m, n \in DOMAIN entries : m # n =>
            /\ End(m) <= entries[n].byteOffset \/ End(n) <= entries[m].byteOffset
            /\ <<entries[m].type, entries[m].sectionIndex>>
                # <<entries[n].type, entries[n].sectionIndex>>
        /\ {entries[n].sectionIndex : n \in lanes} = 0 .. file.header.laneStreamCount - 1
        /\ \A n \in lanes :
            LET stream == Subspan(file, entries[n])
            IN  /\ StreamError(stream) = "none"
                /\ stream.header.laneIndex = entries[n].sectionIndex
                /\ stream.header.graphHash = file.header.graphHash
=============================================================================
