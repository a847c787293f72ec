-------------------------- MODULE LibraryExtraction --------------------------
(***************************************************************************)
(* NativeLibraryExtractor.extract: callers in one process publish the      *)
(* packaged Native library under the same content-addressed path, each     *)
(* through a temporary sibling of its own.  The directory is named after   *)
(* the process identifier, which a later process can be given again, with  *)
(* what a killed one has left there.                                       *)
(***************************************************************************)
EXTENDS Integers

CONSTANTS
    Callers,        \* the threads that call extract
    Leftovers       \* what an earlier process can have left at the path

\* A file is absent, has been created and not filled yet, or is complete.
FileStates == {"absent", "partial", "complete"}

ASSUME LeftoversAssumption == Leftovers \subseteq FileStates

VARIABLES
    library,        \* the file at extractedLibraryPath
    temporaries,    \* each caller's temporary file
    extracting,     \* where each caller stands in extract
    movesAtomically \* the file system's answer to ATOMIC_MOVE

extractionVars == <<library, temporaries, extracting, movesAtomically>>

InitExtraction ==
    /\ library \in Leftovers
    /\ temporaries = [c \in Callers |-> "absent"]
    /\ extracting = [c \in Callers |-> "idle"]
    /\ movesAtomically \in BOOLEAN

Goto(c, step) == extracting' = [extracting EXCEPT ![c] = step]

Leave(c, file) == temporaries' = [temporaries EXCEPT ![c] = file]

\* Files.exists
CheckExisting(c) ==
    /\ extracting[c] = "idle"
    /\ Goto(c, IF library = "absent" THEN "write" ELSE "verify")
    /\ UNCHANGED <<library, temporaries, movesAtomically>>

\* A verification that only asks for the file.
IsPresent == library # "absent"

\* verifyPublishedBytes reads what is there now.
HasExpectedBytes == library = "complete"

\* Of a file found at the start, or of a competing publication, behind which
\* the own temporary is deleted.
Verify(c) ==
    /\ extracting[c] \in {"verify", "verifyCompeting"}
    /\ Goto(c, IF HasExpectedBytes THEN "returned" ELSE "failed")
    /\ Leave(c, "absent")
    /\ UNCHANGED <<library, movesAtomically>>

\* createTempFile, and the write.
WriteTemporary(c) ==
    /\ \/ /\ extracting[c] = "write" /\ Goto(c, "writing") /\ Leave(c, "partial")
       \/ /\ extracting[c] = "writing" /\ Goto(c, "move") /\ Leave(c, "complete")
    /\ UNCHANGED <<library, movesAtomically>>

\* The directory, the temporary, the write or the move fails; the finally block
\* deletes the temporary.
ThrowIOException(c) ==
    /\ extracting[c] \in {"idle", "write", "writing", "move"}
    /\ Goto(c, "failed")
    /\ Leave(c, "absent")
    /\ UNCHANGED <<library, movesAtomically>>

\* ATOMIC_MOVE: the target appears with all its bytes, or replaces one that was
\* there; a file system may refuse the second.
MoveAtomically(c) ==
    /\ extracting[c] = "move"
    /\ movesAtomically
    /\ \/ /\ library' = temporaries[c]
          /\ Leave(c, "absent")
          /\ Goto(c, "returned")
       \/ /\ library # "absent"
          /\ Goto(c, "verifyCompeting")
          /\ UNCHANGED <<library, temporaries>>
    /\ UNCHANGED movesAtomically

\* moveWithoutReplacement: the target is created only if it is not there, and
\* filled by and by.
MoveWithoutReplacement(c) ==
    /\ extracting[c] = "move"
    /\ ~movesAtomically
    /\ IF library = "absent"
       THEN library' = "partial" /\ Goto(c, "copying")
       ELSE UNCHANGED library /\ Goto(c, "verifyCompeting")
    /\ UNCHANGED <<temporaries, movesAtomically>>

\* The copy ends, and the source goes; or it fails, and the target goes.
FinishCopy(c) ==
    /\ extracting[c] = "copying"
    /\ \/ library' = "complete" /\ Goto(c, "returned")
       \/ library' = "absent" /\ Goto(c, "failed")
    /\ Leave(c, "absent")
    /\ UNCHANGED movesAtomically

\* The process is killed, and one with its identifier starts: it meets what is
\* left of the library.  (Temporaries of the old one are in nobody's way.)
KillProcess ==
    /\ \E c \in Callers : extracting[c] \notin {"idle", "returned", "failed"}
    /\ extracting' = [c \in Callers |-> "idle"]
    /\ temporaries' = [c \in Callers |-> "absent"]
    /\ UNCHANGED <<library, movesAtomically>>

Extract(c) ==
    \/ CheckExisting(c)
    \/ Verify(c)
    \/ WriteTemporary(c)
    \/ ThrowIOException(c)
    \/ MoveAtomically(c)
    \/ MoveWithoutReplacement(c)
    \/ FinishCopy(c)

HasReturned(c) == extracting[c] = "returned"

ExtractionNext == KillProcess \/ \E c \in Callers : Extract(c)

ExtractionSpec == InitExtraction /\ [][ExtractionNext]_extractionVars

-----------------------------------------------------------------------------
(* Properties.                                                             *)

\* Whoever got the path finds the whole library there, whatever the other
\* callers do, the file system supports or an earlier process left.
\* (NativeLibraryExtractor.extract)
ReturnedIsComplete ==
    \A c \in Callers : HasReturned(c) => library = "complete"
=============================================================================
