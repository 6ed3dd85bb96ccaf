----------------------------- MODULE PresetSync -----------------------------
(***************************************************************************)
(* The preset store at work: the web API that edits it, the imports from   *)
(* the speakers, the migration that points a speaker to this cloud, the    *)
(* cloud endpoints the speakers poll, and the task that heals a slice with *)
(* gaps (api_endpoints.cpp, bose_endpoints.cpp, auto_mode.cpp).            *)
(*                                                                         *)
(* A speaker adopts a preset list that is answered with 200: a slot the    *)
(* list lacks is deleted on the speaker.  A 404 leaves it as it is.        *)
(***************************************************************************)
EXTENDS PresetStore

CONSTANTS
  Nobody,    \* no inventory entry has the requester's address
  NoRecord,  \* no recording is under way
  Skipped    \* presets account/full cannot render (no cached media server)

ASSUME PresetSyncAssumption ==
  /\ Nobody \notin Device /\ Skipped \subseteq Preset
  /\ NoRecord \notin Slot \X Preset

VARIABLES
  hw,         \* device -> presets in the speaker
  ours,       \* speakers that poll this cloud
  migrating,  \* speakers whose migration job is queued or runs
  seen,       \* speaker -> whose inventory entry has its address, or Nobody
  job,        \* device -> state of its gap-heal task
  recording   \* device -> slot and preset recorded and not yet imported

vars == <<store, hw, ours, migrating, seen, job, recording>>
speakers == <<hw, ours, migrating, seen>>

NoJob == [phase |-> "none", list |-> Blank]
Phases == {"none", "fetch", "fill", "store", "finish"}

Init ==
  /\ StoreInit
  /\ hw \in [Device -> Slots]
  /\ ours = {} /\ migrating = {}
  /\ seen = [d \in Device |-> d]
  /\ job = [d \in Device |-> NoJob]
  /\ recording = [d \in Device |-> NoRecord]

\* What reading and normalising the presets of a speaker can give.
Reads(d) ==
  {[k \in Slot |-> IF k \in lost THEN Empty ELSE hw[d][k]] :
     lost \in IF "abandon" \in Env THEN SUBSET Slot ELSE {{}}}

-----------------------------------------------------------------------------
(* The web API.                                                             *)

\* The UI imports a speaker at first contact, before it can be edited.
MayEdit(d) ==
  /\ InDoubt(d) => "editGated" \in Env
  /\ HasAny(d) \/ hw[d] = Blank \/ "editEarly" \in Env

PutPreset(d, k, p) ==
  /\ MayEdit(d)
  /\ SetSlot(d, k, p)
  /\ UNCHANGED <<speakers, job, recording>>

DeletePreset(d, k) ==
  /\ MayEdit(d)
  /\ ClearSlot(d, k)
  /\ UNCHANGED <<speakers, job, recording>>

\* The slot becomes what the speaker has, or empty if that cannot be stored.
RevertPresetToHw(d, k) ==
  /\ MayEdit(d)
  /\ \E list \in Reads(d) :
       \/ list[k] # Empty /\ SetSlot(d, k, list[k])
       \/ list[k] = Empty /\ ram[d] = NoEntry /\ UNCHANGED store
       \/ /\ list[k] = Empty /\ ram[d] # NoEntry
          /\ Save({d}, [Stored(d) EXCEPT ![k] = Empty])
          /\ UNCHANGED gone
  /\ UNCHANGED <<speakers, job, recording>>

ImportPresetsSet(d, s) ==
  /\ ReplaceSlots({d}, s)
  /\ UNCHANGED <<speakers, job, recording>>

SyncGroup(src, T) ==
  /\ SyncToGroup(src, T)
  /\ UNCHANGED <<speakers, job, recording>>

ImportFromDevice(d) ==
  /\ \E list \in Reads(d) : SetSlots(d, list)
  /\ UNCHANGED <<speakers, job, recording>>

\* Mutation of Migrate: no import.
MigrateUnseeded(d) ==
  /\ migrating' = migrating \cup {d}
  /\ UNCHANGED <<store, hw, ours, seen, job, recording>>

\* handleMigrate: imports first if the store has nothing for the speaker.
Migrate(d) ==
  /\ IF HasAny(d) THEN UNCHANGED store
     ELSE \E list \in Reads(d) : SetSlots(d, list)
  /\ migrating' = migrating \cup {d}
  /\ UNCHANGED <<hw, ours, seen, job, recording>>

\* migrateOne_ of the auto mode: always imports, refuses if nothing was usable.
AutoMigrate(d) ==
  /\ d \notin ours
  /\ \E list \in Reads(d) :
       /\ hw[d] # Blank => list # Blank
       /\ SetSlots(d, list)
  /\ migrating' = migrating \cup {d}
  /\ UNCHANGED <<hw, ours, seen, job, recording>>

\* The telnet job of either migration ends.
MigrationEnds(d) ==
  /\ d \in migrating
  /\ migrating' = migrating \ {d}
  /\ ours' \in {ours, ours \cup {d}}
  /\ UNCHANGED <<store, hw, seen, job, recording>>

\* Someone points the speaker to another cloud.
LeavesCloud(d) ==
  /\ d \in ours
  /\ ours' = ours \ {d}
  /\ UNCHANGED <<store, hw, migrating, seen, job, recording>>

-----------------------------------------------------------------------------
(* Recording a media-server preset: a long press, then an import.           *)

RecordPress(d, k, p) ==
  /\ "record" \in Env /\ recording[d] = NoRecord
  /\ hw' = [hw EXCEPT ![d][k] = p]
  /\ gone' = [gone EXCEPT ![d] = @ \ {k}]
  /\ recording' = [recording EXCEPT ![d] = <<k, p>>]
  /\ UNCHANGED <<ram, flash, marker, suspect, failed, ours, migrating, seen, job>>

\* Also when the import fails: the worker only logs it.
RecordImport(d) ==
  /\ recording[d] # NoRecord
  /\ \E list \in Reads(d) \cup {Blank} : SetSlots(d, list)
  /\ recording' = [recording EXCEPT ![d] = NoRecord]
  /\ UNCHANGED <<speakers, job>>

-----------------------------------------------------------------------------
(* The cloud the speakers poll.                                             *)

\* Mutation of Servable: gaps are served.
ServableWithGaps(e) == HasAny(e)

Servable(e) == HasAny(e) /\ e \notin suspect

Rendered(e) == [k \in Slot |-> IF Stored(e)[k] \in Skipped THEN Empty ELSE Stored(e)[k]]

Adopts(d, list) ==
  /\ hw' = [hw EXCEPT ![d] = list]
  /\ UNCHANGED <<store, ours, migrating, seen, job, recording>>

\* tryBeginGapHeal: at most one heal task per speaker.
StartHeal(e) ==
  /\ HasAny(e) /\ e \in suspect
  /\ job[e] = NoJob
  /\ job' = [job EXCEPT ![e].phase = "fetch"]
  /\ UNCHANGED <<store, speakers, recording>>

(***************************************************************************)
(* handleAccountFull: the requester is found by address and its block is   *)
(* put first, the one a speaker adopts.  Nothing is served while a slice   *)
(* is unreadable; an unknown requester is served if every speaker could    *)
(* be, and adopts whichever block comes first.                             *)
(***************************************************************************)
AccountFull(d) ==
  /\ d \in ours /\ failed = {}
  /\ \E first \in Device :
       /\ IF seen[d] = Nobody THEN \A e \in Device : Servable(e)
                              ELSE first = seen[d] /\ Servable(first)
       /\ Adopts(d, Rendered(first))

AccountFullHeals(d) ==
  /\ d \in ours /\ failed = {}
  /\ \E e \in Device : seen[d] \in {e, Nobody} /\ StartHeal(e)

AccountPresets(d) ==
  /\ d \in ours
  /\ seen[d] # Nobody
  /\ \/ Servable(seen[d]) /\ Adopts(d, Stored(seen[d]))
     \/ StartHeal(seen[d])

DevicePresets(d) ==
  /\ d \in ours
  /\ \/ Servable(d) /\ Adopts(d, Stored(d))
     \/ StartHeal(d)

-----------------------------------------------------------------------------
(* gapHealTask_: fetch the speaker's presets, keep those whose slot is      *)
(* empty in the store, store them, lift the suspicion.                      *)

Goto(d, phase, list) == job' = [job EXCEPT ![d] = [phase |-> phase, list |-> list]]

HealFetch(d) ==
  /\ job[d].phase = "fetch"
  /\ \E list \in Reads(d) : Goto(d, IF list = Blank THEN "finish" ELSE "fill", list)
  /\ UNCHANGED <<store, speakers, recording>>

\* Mutation of HealFails: the failed read counts as a finished one.
HealFailsUnnoticed(d) ==
  /\ job[d].phase = "fetch"
  /\ Goto(d, "finish", Blank)
  /\ UNCHANGED <<store, speakers, recording>>

\* The speaker does not answer.
HealFails(d) ==
  /\ job[d].phase = "fetch"
  /\ job' = [job EXCEPT ![d] = NoJob]
  /\ UNCHANGED <<store, speakers, recording>>

HealFill(d) ==
  /\ job[d].phase = "fill"
  /\ LET fill == [k \in Slot |-> IF Stored(d)[k] = Empty THEN job[d].list[k] ELSE Empty]
     IN Goto(d, IF fill = Blank THEN "finish" ELSE "store", fill)
  /\ UNCHANGED <<store, speakers, recording>>

\* Whether or not the save succeeds.
HealStore(d) ==
  /\ job[d].phase = "store"
  /\ SetSlots(d, job[d].list)
  /\ Goto(d, "finish", Blank)
  /\ UNCHANGED <<speakers, recording>>

\* Mutation of HealFinish: the suspicion stays.
HealFinishSuspect(d) ==
  /\ job[d].phase = "finish"
  /\ job' = [job EXCEPT ![d] = NoJob]
  /\ UNCHANGED <<store, speakers, recording>>

HealFinish(d) ==
  /\ job[d].phase = "finish"
  /\ job' = [job EXCEPT ![d] = NoJob]
  /\ suspect' = suspect \ {d}
  /\ UNCHANGED <<ram, flash, marker, failed, gone, speakers, recording>>

-----------------------------------------------------------------------------
(* Boots, and what happens elsewhere.                                       *)

Boot(f, m, g) ==
  /\ LoadFromNVS(f, m, g)
  /\ job' = [d \in Device |-> NoJob]
  /\ recording' = [d \in Device |-> NoRecord]
  /\ migrating' = {}
  /\ UNCHANGED <<hw, ours, seen>>

Reboot == Boot(flash, marker, gone)

\* Power is lost after a slice was written and before its marker was removed.
PowerLossInSave(d, k, p) ==
  LET s == [Stored(d) EXCEPT ![k] = p] IN
  /\ MayEdit(d)
  /\ Boot([flash EXCEPT ![d] = IF s = Blank THEN NoSlice ELSE s], marker,
          GoneAfter(d, k, p))

SliceDamaged(d) ==
  /\ "corrupt" \in Env /\ flash[d] # NoSlice
  /\ \E f \in {NoSlice, Unreadable} : Boot([flash EXCEPT ![d] = f], marker, gone)

\* The stick is erased and flashed anew; the speakers still poll it.
FreshErase == Boot([d \in Device |-> NoSlice], {}, gone)

HwEdit(d, k, p) ==
  /\ "hwEdit" \in Env /\ d \notin ours
  /\ hw' = [hw EXCEPT ![d][k] = p]
  /\ gone' = [gone EXCEPT ![d] = @ \ {k}]
  /\ UNCHANGED <<ram, flash, marker, suspect, failed, ours, migrating, seen, job, recording>>

AddressesMove ==
  /\ "ipMoved" \in Env
  /\ seen' \in [Device -> Device \cup {Nobody}]
  /\ \A d, e \in Device : seen'[d] = seen'[e] => d = e \/ seen'[d] = Nobody
  /\ UNCHANGED <<store, hw, ours, migrating, job, recording>>

Edits(d) ==
  \/ \E k \in Slot : \/ \E p \in Preset \cup {Empty} : PutPreset(d, k, p)
                     \/ DeletePreset(d, k) \/ RevertPresetToHw(d, k)
  \/ \E s \in Slots : ImportPresetsSet(d, s)
  \/ \E T \in SUBSET Device : SyncGroup(d, T)
  \/ ImportFromDevice(d)
  \/ \E k \in Slot, p \in Preset : RecordPress(d, k, p)
  \/ RecordImport(d)

Moves(d) == Migrate(d) \/ AutoMigrate(d) \/ MigrationEnds(d) \/ LeavesCloud(d)

Polls(d) == AccountFull(d) \/ AccountFullHeals(d) \/ AccountPresets(d) \/ DevicePresets(d)

Heals(d) == HealFetch(d) \/ HealFails(d) \/ HealFill(d) \/ HealStore(d) \/ HealFinish(d)

Boots ==
  \/ Reboot
  \/ \E d \in Device, k \in Slot, p \in Preset \cup {Empty} : PowerLossInSave(d, k, p)
  \/ \E d \in Device : SliceDamaged(d)
  \/ FreshErase

Next ==
  \/ \E d \in Device : Edits(d) \/ Moves(d) \/ Polls(d) \/ Heals(d)
  \/ \E d \in Device, k \in Slot, p \in Preset : HwEdit(d, k, p)
  \/ AddressesMove
  \/ Boots

Spec == Init /\ [][Next]_vars

(***************************************************************************)
(* Speakers keep polling account/full, the heal task keeps running, and a  *)
(* speaker that is asked for its presets again and again answers one day.  *)
(***************************************************************************)
Fairness ==
  \A d \in Device :
    /\ WF_vars(AccountFullHeals(d))
    /\ SF_vars(HealFetch(d))
    /\ WF_vars(HealFill(d)) /\ WF_vars(HealStore(d)) /\ WF_vars(HealFinish(d))

LiveSpec == Spec /\ Fairness

-----------------------------------------------------------------------------
(* Properties.                                                              *)

\* Every variable stays in its range.
TypeOK ==
  /\ StoreTypeOK
  /\ hw \in [Device -> Slots]
  /\ ours \subseteq Device /\ migrating \subseteq Device
  /\ seen \in [Device -> Device \cup {Nobody}]
  /\ job \in [Device -> [phase : Phases, list : Slots]]
  /\ recording \in [Device -> (Slot \X Preset) \cup {NoRecord}]

\* The cloud never makes a speaker delete a preset that the user did not remove:
\* not after a failed save, a damaged slice, a reboot or a fresh erase of the
\* stick (bose_endpoints.cpp:571-573, "ein 200 ohne <presets> ist unter keinen
\* Umstaenden sicher"; preset_store.cpp:103-107).
NoWipe ==
  [][\A d \in Device, k \in Slot :
       hw[d][k] # Empty /\ hw'[d][k] = Empty => k \in gone[d]]_vars

\* A slice that differs from the RAM carries the marker, so the next boot knows
\* that what it loads may have gaps (preset_store.cpp:98-102).
MarkerCovers ==
  \A d \in Device :
    flash[d] # Unreadable /\ d \notin marker =>
      Stored(d) = IF flash[d] = NoSlice THEN Blank ELSE flash[d]

\* When a heal task lifts the suspicion, the RAM holds every slot the speaker
\* holds, save those the user emptied (bose_endpoints.cpp:242-243, "RAM ist
\* jetzt vollstaendig").
HealCovers ==
  [][\A d \in Device :
       HealFinish(d) =>
         \A k \in Slot : hw[d][k] # Empty => Stored(d)[k] # Empty \/ k \in gone[d]]_vars

\* A migration starts only once the store has every preset the speaker holds
\* (api_endpoints.cpp:779-780, "erst freischalten, wenn die Presets im Store sind"),
\* or while the gap gate keeps the store from being served to it.
MigrationCovered ==
  [][\A d \in Device :
       d \in migrating' \ migrating /\ d \notin suspect =>
         \A k \in Slot : hw[d][k] # Empty => Stored(d)'[k] # Empty \/ k \in gone[d]]_vars

\* A heal task fills gaps only: a slot that holds a preset when the task stores
\* its list keeps it (preset_store.h:147-148, "belegte Store-Slots gewinnen").
EditKept ==
  [][\A d \in Device :
       HealStore(d) =>
         \A k \in Slot : Stored(d)[k] # Empty => Stored(d)'[k] = Stored(d)[k]]_vars

\* A list a speaker adopts is its own, not that of another speaker
\* (bose_endpoints.cpp:473-477, "jeder Speaker seinen eigenen Block").
OwnListOnly ==
  [][\A d \in Device : hw'[d] # hw[d] => hw'[d] \in {Stored(d), Rendered(d)}]_vars

\* If the stick stays up, a speaker that polls it does not stay gated by a gap
\* for ever (bose_endpoints.cpp:226-229).  Unreadable slices close account/full by a
\* gate of their own, until one of their saves succeeds.
GateOpens ==
  <>[][~Boots]_vars =>
    \A d \in Device :
      LET gated == d \in suspect /\ HasAny(d) /\ d \in ours /\ failed = {}
      IN  gated ~> ~gated
=============================================================================
