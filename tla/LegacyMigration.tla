-------------------------- MODULE LegacyMigration --------------------------
(***************************************************************************)
(* The two migrations of stored data, both at boot, before anything else   *)
(* runs: the entries of a bosefix namespace are copied to its sixback      *)
(* namespace (nvs_helper.cpp), and the blob with the presets of all        *)
(* speakers is split into one slice for each (preset_store.cpp).  Every    *)
(* write may fail, and power may be lost between any two steps.            *)
(***************************************************************************)
CONSTANTS
  Entry,    \* the entries of one old namespace
  Speaker   \* the speakers that have presets in the old blob

VARIABLES
  boot,     \* how far the boot is
  oldNs,    \* flash: the entries in the old namespace
  newNs,    \* flash: those in the new one
  todo,     \* entries the copy has not reached
  failed,   \* entries whose copy failed; then the slices of phase A
  blob,     \* flash: the old blob is there
  slice,    \* flash: the speakers with a slice
  ram,      \* the speakers whose presets the store has in memory
  cutShort, \* history: a boot has ended with a part of the copies only
  pressed   \* history: phase B has erased the blob before the slices were there

legacy == <<boot, oldNs, newNs, todo, failed, blob, slice, ram, cutShort, pressed>>

LegacyInit ==
  /\ boot = "start"
  /\ oldNs = Entry /\ newNs = {} /\ todo = {} /\ failed = {}
  /\ blob = TRUE /\ slice = {} /\ ram = {} /\ pressed = FALSE /\ cutShort = FALSE

LegacyPowerLoss ==
  /\ boot' = "start" /\ todo' = {} /\ failed' = {} /\ ram' = {}
  /\ cutShort' = (cutShort \/ (oldNs # {} /\ newNs # {} /\ ~(oldNs \subseteq newNs)))
  /\ UNCHANGED <<oldNs, newNs, blob, slice, pressed>>

-----------------------------------------------------------------------------
(* migrateNvsNamespace: an old namespace is erased when the new one has an  *)
(* entry, and after a copy without a failure.                               *)

EraseOld ==
  /\ oldNs' = {} /\ boot' = "load"
  /\ UNCHANGED <<newNs, todo, failed, blob, slice, ram, cutShort, pressed>>

\* No old entries, or a namespace cannot be opened.
CopySkipped ==
  /\ boot = "start"
  /\ boot' = "load" /\ UNCHANGED <<oldNs, newNs, todo, failed, blob, slice, ram, cutShort, pressed>>

AlreadyMigrated == boot = "start" /\ oldNs # {} /\ newNs # {} /\ EraseOld

CopyStarts ==
  /\ boot = "start" /\ oldNs # {} /\ newNs = {}
  /\ boot' = "copy" /\ todo' = oldNs
  /\ UNCHANGED <<oldNs, newNs, failed, blob, slice, ram, cutShort, pressed>>

CopyOne(e) ==
  /\ boot = "copy" /\ e \in todo
  /\ todo' = todo \ {e}
  /\ \/ newNs' = newNs \cup {e} /\ UNCHANGED failed
     \/ failed' = failed \cup {e} /\ UNCHANGED newNs
  /\ UNCHANGED <<boot, oldNs, blob, slice, ram, cutShort, pressed>>

\* Mutation of CopyDone: the old namespace goes before the copies are done.
CopyDoneEarly == boot = "copy" /\ failed = {} /\ newNs # {} /\ EraseOld
CopyDone == boot = "copy" /\ todo = {} /\ failed = {} /\ newNs # {} /\ EraseOld

\* Partial: the old namespace stays.
CopyPartial ==
  /\ boot = "copy" /\ todo = {} /\ failed # {}
  /\ boot' = "load" /\ UNCHANGED <<oldNs, newNs, todo, failed, blob, slice, ram, cutShort, pressed>>

-----------------------------------------------------------------------------
(* PresetStore::loadFromNVS with migrateLegacyBlob_.                        *)

Pending == ram \ slice

\* Slices win over the blob; without a blob nothing is left to do.
Load ==
  /\ boot = "load"
  /\ ram' = slice \cup (IF blob THEN Speaker ELSE {})
  /\ boot' = IF blob THEN "phaseA" ELSE "up"
  /\ failed' = {} /\ UNCHANGED <<oldNs, newNs, todo, blob, slice, cutShort, pressed>>

\* Phase A writes the slices beside the blob.
SliceBesideBlob(d) ==
  /\ boot = "phaseA" /\ d \in Pending \ failed
  /\ \/ slice' = slice \cup {d} /\ UNCHANGED failed
     \/ failed' = failed \cup {d} /\ UNCHANGED slice
  /\ UNCHANGED <<boot, oldNs, newNs, todo, blob, ram, cutShort, pressed>>

EraseBlob ==
  /\ blob' = FALSE
  /\ UNCHANGED <<oldNs, newNs, todo, failed, slice, ram, cutShort>>

\* Mutation of PhaseADone: slices that failed count as written.
PhaseADoneAnyway == boot = "phaseA" /\ Pending \subseteq failed /\ boot' = "up" /\ EraseBlob /\ UNCHANGED pressed
PhaseADone == boot = "phaseA" /\ Pending = {} /\ boot' = "up" /\ EraseBlob /\ UNCHANGED pressed

\* Phase B: not all fit beside the blob, so it goes first.
PhaseB ==
  /\ boot = "phaseA" /\ Pending # {} /\ Pending \subseteq failed
  /\ boot' = "phaseB" /\ EraseBlob /\ pressed' = TRUE

SliceAfterBlob(d) ==
  /\ boot = "phaseB" /\ d \in failed
  /\ failed' = failed \ {d} /\ slice' \in {slice, slice \cup {d}}
  /\ UNCHANGED <<boot, oldNs, newNs, todo, blob, ram, cutShort, pressed>>

PhaseBDone ==
  /\ boot = "phaseB" /\ failed = {}
  /\ boot' = "up" /\ UNCHANGED <<oldNs, newNs, todo, failed, blob, slice, ram, cutShort, pressed>>

LegacyNext ==
  \/ LegacyPowerLoss \/ CopySkipped \/ AlreadyMigrated \/ CopyStarts
  \/ \E e \in Entry : CopyOne(e)
  \/ CopyDone \/ CopyPartial \/ Load
  \/ \E d \in Speaker : SliceBesideBlob(d) \/ SliceAfterBlob(d)
  \/ PhaseADone \/ PhaseB \/ PhaseBDone

-----------------------------------------------------------------------------
(* Properties.                                                              *)

LegacyTypeOK ==
  /\ boot \in {"start", "copy", "load", "phaseA", "phaseB", "up"}
  /\ {oldNs, newNs, todo} \subseteq SUBSET Entry
  /\ failed \subseteq Entry \cup Speaker
  /\ {slice, ram} \subseteq SUBSET Speaker /\ {blob, cutShort, pressed} \subseteq BOOLEAN

\* The old namespace is the backup of a copy that went wrong, until a boot has repeated it
\* (nvs_helper.cpp:668-672, "bleibt einen Boot lang erhalten falls beim Schreiben in neue NS was
\* schiefging und der naechste Boot retry will"): no entry is lost, whatever copies fail and
\* wherever the boots end.
BackupKept == oldNs \cup newNs = Entry

\* That is so until a boot ends, by power or in the regular way, with a part of the copies: the
\* next one erases the backup (nvs_helper.cpp:673-682).  No boot loses an entry of its own
\* copy, and none loses an entry after a whole one.
EntriesSurvive == cutShort \/ BackupKept

\* The presets of every speaker stay in the flash until phase B, and in
\* memory until the power is lost (preset_store.cpp:324-336).
PresetsSurvive ==
  /\ blob \/ slice = Speaker \/ pressed
  /\ boot \in {"phaseB", "up"} => ram = Speaker \/ pressed
  /\ boot = "phaseB" => ram = Speaker
=============================================================================
