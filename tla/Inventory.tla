----------------------------- MODULE Inventory -----------------------------
(***************************************************************************)
(* How the list of speakers is kept in flash (speaker_inventory.cpp): one  *)
(* slice per speaker, rewritten by every save; before v0.8.43 one blob for *)
(* all.  A boot that finds the blob migrates it, or keeps saving the blob  *)
(* when the slices would not fit; either may be cut off by power.          *)
(***************************************************************************)
EXTENDS FiniteSets

CONSTANTS Dev,       \* the speakers
          Record,     \* what is kept of a speaker: name, address, hidden, owned ...
          NoRecord,
          Estimates  \* is the estimate of migrationFits_ right? a set of answers

ASSUME InventoryAssumption == NoRecord \notin Record /\ Estimates \subseteq BOOLEAN

VARIABLES
  speakers,     \* speakers_: an entry of each speaker, or NoRecord
  sliceOf,   \* flash: the slice of each speaker
  wholeList,    \* flash: the legacy blob, [there, of]
  sliced,  \* slicedMode_
  at,      \* what the holder of the lock does: "off", "ready", or a step of a save
  left,    \* the slices that step has yet to deal with
  unwritten,  \* the slices it could not write
  may,     \* history: what a reboot may find of each speaker
  exact    \* the answer of this behaviour

inventory == <<speakers, sliceOf, wholeList, sliced, at, left, unwritten, may, exact>>

Listed == {d \in Dev : speakers[d] # NoRecord}
Sliced == {d \in Dev : sliceOf[d] # NoRecord}
NoBlob == [there |-> FALSE, of |-> [d \in Dev |-> NoRecord]]

\* Mutation of Loaded: the blob counts only when there is no slice at all.
LoadedEither(d) ==
  IF Sliced # {} THEN sliceOf[d] ELSE wholeList.of[d]

\* What a boot reads: a slice wins over the blob.
Loaded(d) == IF sliceOf[d] # NoRecord THEN sliceOf[d] ELSE wholeList.of[d]

\* A stick from before v0.8.43 with its blob, or a new one
InventoryInit ==
  /\ speakers = [d \in Dev |-> NoRecord] /\ sliceOf = [d \in Dev |-> NoRecord]
  /\ \E of \in [Dev -> Record \cup {NoRecord}] :
       wholeList = [there |-> \E d \in Dev : of[d] # NoRecord, of |-> of]
  /\ sliced = TRUE /\ at = "off" /\ left = {} /\ unwritten = {}
  /\ may = [d \in Dev |-> {wholeList.of[d]}] /\ exact \in Estimates

-----------------------------------------------------------------------------
(* loadFromNVS and the migration                                           *)

Flash == UNCHANGED <<sliceOf, wholeList>>

Loads ==
  /\ at = "off"
  /\ speakers' = [d \in Dev |-> Loaded(d)]
  /\ unwritten' = {}
  /\ \/ ~wholeList.there /\ at' = "ready" /\ left' = {} /\ sliced' = TRUE
     \/ wholeList.there /\ at' = "beside" /\ left' = Listed' /\ sliced' = TRUE
     \/ wholeList.there /\ at' = "retract" /\ left' = Sliced /\ sliced' = FALSE
  /\ Flash /\ UNCHANGED <<may, exact>>

\* The slices of an earlier attempt are taken back.
Retracts(d) ==
  /\ at = "retract" /\ d \in left
  /\ sliceOf' = [sliceOf EXCEPT ![d] = NoRecord] /\ left' = left \ {d}
  /\ UNCHANGED <<speakers, wholeList, sliced, at, unwritten, may, exact>>

\* Phase A: a slice is written beside the blob, if there is room for both.  One that is
\* there already is not written again.
WritesBeside(d) ==
  /\ at = "beside" /\ d \in left
  /\ left' = left \ {d}
  /\ \/ sliceOf' = [sliceOf EXCEPT ![d] = speakers[d]] /\ UNCHANGED unwritten
     \/ sliceOf[d] # speakers[d] /\ UNCHANGED sliceOf /\ unwritten' = unwritten \cup {d}
  /\ UNCHANGED <<speakers, wholeList, sliced, at, may, exact>>

\* Without the blob there is room for the others.
ErasesBlob ==
  /\ at = "beside" /\ left = {}
  /\ wholeList' = NoBlob /\ at' = "instead" /\ left' = unwritten /\ unwritten' = {}
  /\ UNCHANGED <<speakers, sliceOf, sliced, may, exact>>

\* Phase B: so it is if the estimate was right.
WritesInstead(d) ==
  /\ at = "instead" /\ d \in left
  /\ left' = left \ {d}
  /\ \/ sliceOf' = [sliceOf EXCEPT ![d] = speakers[d]]
     \/ ~exact /\ sliceOf[d] # speakers[d] /\ UNCHANGED sliceOf
  /\ UNCHANGED <<speakers, wholeList, sliced, at, unwritten, may, exact>>

Migrated ==
  /\ at \in {"instead", "retract"} /\ left = {}
  /\ at' = "ready"
  /\ Flash /\ UNCHANGED <<speakers, sliced, left, unwritten, may, exact>>

-----------------------------------------------------------------------------
(* Changes, each followed by saveToNVS                                     *)

\* A speaker is found, edited, hidden or removed.
Changes ==
  /\ at = "ready"
  /\ \E d \in Dev, e \in Record \cup {NoRecord} :
       /\ speakers[d] # e
       /\ speakers' = [speakers EXCEPT ![d] = e]
       /\ may' = [may EXCEPT ![d] = @ \cup {e}]
  /\ at' = IF sliced THEN "slices" ELSE "blob"
  /\ left' = IF sliced THEN Listed' ELSE {}
  /\ unwritten' = {}
  /\ Flash /\ UNCHANGED <<sliced, exact>>

WritesSlice(d) ==
  /\ at = "slices" /\ d \in left
  /\ left' = left \ {d}
  /\ \/ sliceOf' = [sliceOf EXCEPT ![d] = speakers[d]] /\ UNCHANGED unwritten
     \/ sliceOf[d] # speakers[d] /\ UNCHANGED sliceOf /\ unwritten' = unwritten \cup {d}
  /\ UNCHANGED <<speakers, wholeList, sliced, at, may, exact>>

\* Mutation of SlicesWritten: the slices of removed speakers stay.
SlicesWrittenNoSweep ==
  /\ at = "slices" /\ left = {}
  /\ at' = "sweep" /\ left' = {}
  /\ Flash /\ UNCHANGED <<speakers, sliced, unwritten, may, exact>>

SlicesWritten ==
  /\ at = "slices" /\ left = {}
  /\ at' = "sweep" /\ left' = Sliced \ Listed
  /\ Flash /\ UNCHANGED <<speakers, sliced, unwritten, may, exact>>

\* The slice of a speaker that was removed
Sweeps(d) ==
  /\ at = "sweep" /\ d \in left
  /\ sliceOf' = [sliceOf EXCEPT ![d] = NoRecord] /\ left' = left \ {d}
  /\ UNCHANGED <<speakers, wholeList, sliced, at, unwritten, may, exact>>

\* The end of a save: what was written without a failure is what a reboot must find.
Swept ==
  /\ at = "sweep" /\ left = {}
  /\ wholeList' = IF unwritten = {} THEN NoBlob ELSE wholeList
  /\ may' = [d \in Dev |-> IF d \in unwritten THEN may[d] ELSE {speakers[d]}]
  /\ at' = "ready"
  /\ UNCHANGED <<speakers, sliceOf, sliced, left, unwritten, exact>>

\* saveLegacyBlobToNVS_
WritesBlob ==
  /\ at = "blob" /\ at' = "ready"
  /\ \/ /\ wholeList' = [there |-> TRUE, of |-> speakers]
        /\ may' = [d \in Dev |-> {speakers[d]}]
     \/ UNCHANGED <<wholeList, may>>
  /\ UNCHANGED <<speakers, sliceOf, sliced, left, unwritten, exact>>

\* Between the erased blob and the slice that did not fit beside it nothing can help.
InventoryPowerFails ==
  /\ at # "off" /\ at' = "off"
  /\ speakers' = [d \in Dev |-> NoRecord] /\ left' = {} /\ unwritten' = {}
  /\ sliced' = TRUE
  /\ may' = [d \in Dev |-> IF at = "instead" /\ d \in left THEN {NoRecord} ELSE may[d]]
  /\ Flash /\ UNCHANGED exact

InventoryNext ==
  \/ Loads \/ ErasesBlob \/ Migrated \/ Changes \/ SlicesWritten \/ Swept \/ WritesBlob
  \/ \E d \in Dev : Retracts(d) \/ WritesBeside(d) \/ WritesInstead(d)
                    \/ WritesSlice(d) \/ Sweeps(d)
  \/ InventoryPowerFails

-----------------------------------------------------------------------------
InventoryTypeOK ==
  /\ \A d \in Dev : speakers[d] \in Record \cup {NoRecord} /\ sliceOf[d] \in Record \cup {NoRecord}
  /\ at \in {"off", "ready", "retract", "beside", "instead", "slices", "sweep", "blob"}
  /\ left \subseteq Dev /\ unwritten \subseteq Dev

\* A boot lists every speaker as the last save that reached it left it, or as a change since
\* whose save failed or was cut off: no migration, refused migration or power cut brings an
\* older state back, loses a speaker, or revives a removed one
\* (speaker_inventory.cpp:236-378 and 433-465).  The exceptions are a speaker whose slice
\* waits for the room of the blob when power fails, and an estimate that was wrong.
SpeakersKept ==
  exact /\ at \in {"off", "ready"} => \A d \in Dev : Loaded(d) \in may[d]
=============================================================================
