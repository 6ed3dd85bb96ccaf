-------------------------- MODULE StoredDataProofs --------------------------
(***************************************************************************)
(* Proofs about what the stick keeps in flash besides the presets, each    *)
(* component on its own: the stereo pairs, the migrations of old data and  *)
(* the list of speakers.                                                   *)
(***************************************************************************)
EXTENDS Groups, LegacyMigration, Inventory, WellFoundedInduction, TLAPS

-----------------------------------------------------------------------------
(* The stereo pairs.                                                        *)

GroupsSpec == GroupsInit /\ [][GroupsNext]_group

GroupRecord == [id : 1..MaxId, master : Device, members : SUBSET Device]

Apart(gs) == \A g, h \in gs : g.members \cap h.members # {} => g = h

Numbered(gs, next) ==
  /\ \A g \in gs : g.id < next
  /\ \A g, h \in gs : g.id = h.id => g = h

\* What the stick keeps, in RAM or in flash.
Sound(gs, next) ==
  /\ next \in 1..(MaxId + 1)
  /\ gs \subseteq GroupRecord
  /\ Numbered(gs, next)
  /\ "reroled" \notin groupEnv => Apart(gs)

\* What a speaker was told, where every save succeeds and no update brings in others.
Told ==
  /\ stored = Store
  /\ \A d \in Device : holds[d] < nextId
  /\ \A g \in groups, d \in Device : holds[d] = g.id => d \in In(g)
  /\ \A g \in groups : g.master \in g.members

(***************************************************************************)
(* OnePair of the groups in RAM is not inductive: a restart takes those in *)
(* flash, which may be older.  OwnGroup needs, besides, that no group and  *)
(* no speaker has an id that is still to be given out.                     *)
(***************************************************************************)
GroupsInv ==
  /\ Sound(groups, nextId) /\ Sound(stored.groups, stored.next)
  /\ persistOk \in BOOLEAN /\ holds \in [Device -> 0..MaxId]
  /\ groupEnv = {} => Told

\* A set of naturals has a smallest one.
LEMMA SmallestExists ==
  ASSUME NEW S \in SUBSET Nat, S # {} PROVE \E i \in S : \A j \in S : i <= j
<1>1. PICK i \in S : \A j \in S : ~(<<j, i>> \in OpToRel(<, Nat))
    BY NatLessThanWellFounded, WFMin
<1>2. ASSUME NEW j \in S PROVE i <= j
    <2>1. SUFFICES ASSUME j < i PROVE FALSE
        OBVIOUS
    <2>2. <<j, i>> \in {ss \in Nat \X Nat : ss[1] < ss[2]}
        BY <2>1
    <2> QED
        BY <1>1, <2>2 DEF OpToRel
<1> QED
    BY <1>2

\* So is a group with the smallest id among some groups.
LEMMA FirstGroup ==
  ASSUME NEW gs \in SUBSET GroupRecord, gs # {}
  PROVE  (CHOOSE g \in gs : \A h \in gs : g.id <= h.id) \in gs
<1> DEFINE ids == {g.id : g \in gs}
<1>1. ids \in SUBSET Nat /\ ids # {}
    BY GroupsAssumption DEF GroupRecord
<1> HIDE DEF ids
<1>2. PICK i \in ids : \A j \in ids : i <= j
    BY <1>1, SmallestExists
<1>3. \E g \in gs : \A h \in gs : g.id <= h.id
    BY <1>2 DEF ids
<1> QED
    BY <1>3

\* A save keeps the older image or takes the new one.
LEMMA SaveKeeps ==
  ASSUME GroupsInv, GroupsSave, UNCHANGED groupEnv, Sound(groups, nextId)',
         holds' \in [Device -> 0..MaxId],
         groupEnv = {} => /\ \A d \in Device : holds'[d] < nextId'
                          /\ \A g \in groups', d \in Device : holds'[d] = g.id => d \in In(g)
                          /\ \A g \in groups' : g.master \in g.members
  PROVE  GroupsInv'
<1>1. \/ stored' = [groups |-> groups', next |-> nextId'] /\ persistOk' = TRUE
      \/ groupEnv # {} /\ stored' = stored /\ persistOk' = FALSE
    BY DEF GroupsSave, Store
<1>2. Sound(stored.groups, stored.next)'
    BY <1>1 DEF GroupsInv, Sound
<1>3. groupEnv' = {} => Told'
    BY <1>1 DEF Told, Store
<1> QED
    BY <1>1, <1>2, <1>3 DEF GroupsInv

\* At first there are no groups.
LEMMA GroupsStart == GroupsInit => GroupsInv
BY GroupsAssumption DEF GroupsInit, GroupsInv, Sound, Numbered, Apart, Told, Store

\* Every step of the group store.
LEMMA GroupsStep == GroupsInv /\ [GroupsNext]_group => GroupsInv'
<1> SUFFICES ASSUME GroupsInv, [GroupsNext]_group PROVE GroupsInv'
    OBVIOUS
<1> USE GroupsAssumption
<1>0. /\ nextId \in 1..(MaxId + 1) /\ groups \subseteq GroupRecord
      /\ \A g \in groups : g.id < nextId
      /\ \A g, h \in groups : g.id = h.id => g = h
      /\ "reroled" \notin groupEnv => Apart(groups)
      /\ holds \in [Device -> 0..MaxId]
      /\ groupEnv = {} =>
           /\ \A d \in Device : holds[d] < nextId
           /\ \A g \in groups, d \in Device : holds[d] = g.id => d \in In(g)
           /\ \A g \in groups : g.master \in g.members
    BY DEF GroupsInv, Sound, Numbered, Told
<1>1. ASSUME NEW members \in SUBSET Device, NEW m \in Device, Create(m, members)
      PROVE  GroupsInv'
    <2> DEFINE g == [id |-> nextId, master |-> m, members |-> members]
    <2>1. /\ groups' = (groups \ Stale(g)) \cup {g} /\ nextId' = nextId + 1
          /\ GroupsSave /\ UNCHANGED groupEnv
          /\ holds' = [d \in Device |-> IF d \in In(g) THEN nextId ELSE holds[d]]
          /\ nextId \in 1..MaxId
        BY <1>0, <1>1 DEF Create
    <2>2. /\ g \in GroupRecord /\ g.members = members /\ g.id = nextId
          /\ groupEnv = {} => g.master \in g.members
        BY <1>1, <2>1 DEF Create, GroupRecord
    <2> HIDE DEF g
    <2>3. Apart(groups) => Apart(groups')
        BY <2>1, <2>2 DEF Apart, Stale
    <2>4. \A h \in groups' : h = g \/ (h \in groups /\ h.id < nextId /\ h.id \in Nat)
        BY <1>0, <2>1 DEF GroupRecord
    <2>5. Sound(groups, nextId)'
      <3>1. Numbered(groups', nextId')
          BY <1>0, <2>1, <2>2, <2>4 DEF Numbered
      <3>2. groups' \subseteq GroupRecord
          BY <1>0, <2>2, <2>4
      <3> QED
          BY <1>0, <2>1, <2>3, <3>1, <3>2 DEF Sound
    <2>6. holds' \in [Device -> 0..MaxId]
        BY <1>0, <2>1
    <2>7. ASSUME groupEnv = {}
          PROVE  /\ \A d \in Device : holds'[d] < nextId'
                 /\ \A h \in groups', d \in Device : holds'[d] = h.id => d \in In(h)
                 /\ \A h \in groups' : h.master \in h.members
      <3>1. \A d \in Device : holds'[d] < nextId'
          BY <1>0, <2>1, <2>7
      <3>2. ASSUME NEW h \in groups', NEW d \in Device, holds'[d] = h.id
            PROVE  d \in In(h)
          BY <1>0, <2>1, <2>2, <2>4, <2>7, <3>2
      <3>3. \A h \in groups' : h.master \in h.members
          BY <1>0, <2>2, <2>4, <2>7
      <3> QED
          BY <3>1, <3>2, <3>3
    <2> QED
        BY <2>1, <2>5, <2>6, <2>7, SaveKeeps
<1>2. ASSUME NEW members \in SUBSET Device, NEW d \in Device, Update(d, members)
      PROVE  GroupsInv'
    <2>1. PICK g \in groups, master \in Device :
            /\ members = g.members \/ "reroled" \in groupEnv
            /\ master \in members \cup {g.master}
            /\ groups' = (groups \ {g}) \cup {[g EXCEPT !.master = master, !.members = members]}
        BY <1>0, <1>2 DEF Update, GroupRecord
    <2> DEFINE new == [g EXCEPT !.master = master, !.members = members]
    <2>3. /\ new \in GroupRecord /\ new.members = members /\ new.id = g.id
          /\ new.master = master
        BY <1>0 DEF GroupRecord
    <2> HIDE DEF new
    <2>4. groups' = (groups \ {g}) \cup {new}
        BY <2>1 DEF new
    <2>5. "reroled" \notin groupEnv => Apart(groups')
        BY <1>0, <2>1, <2>3, <2>4 DEF Apart
    <2>6. GroupsSave /\ UNCHANGED <<nextId, holds, groupEnv>>
        BY <1>2 DEF Update
    <2>7. Numbered(groups', nextId')
        BY <1>0, <2>3, <2>4, <2>6 DEF Numbered
    <2>8. Sound(groups, nextId)'
        BY <1>0, <2>3, <2>4, <2>5, <2>6, <2>7 DEF Sound
    <2>9. groupEnv = {} => \A h \in groups', e \in Device : holds[e] = h.id => e \in In(h)
      <3>1. SUFFICES ASSUME groupEnv = {}, NEW h \in groups', NEW e \in Device, holds[e] = h.id
                     PROVE  e \in In(h)
          OBVIOUS
      <3>2. CASE h \in groups
          BY <1>0, <3>1, <3>2
      <3>3. CASE h = new
          BY <1>0, <2>1, <2>3, <3>1, <3>3 DEF In
      <3> QED
          BY <2>4, <3>2, <3>3
    <2>10. groupEnv = {} => \A h \in groups' : h.master \in h.members
        BY <1>0, <2>1, <2>3, <2>4
    <2> QED
        BY <1>0, <2>6, <2>8, <2>9, <2>10, SaveKeeps
<1>3. ASSUME NEW d \in Device, Delete(d) PROVE GroupsInv'
    <2>1. /\ GroupsSave /\ UNCHANGED <<nextId, groupEnv>> /\ groups' \subseteq groups
          /\ holds' = [holds EXCEPT ![d] = 0]
        BY <1>3 DEF Delete
    <2>2. Sound(groups, nextId)'
        BY <1>0, <2>1 DEF Sound, Numbered, Apart
    <2>3. holds' \in [Device -> 0..MaxId]
        BY <1>0, <2>1
    <2>4. ASSUME groupEnv = {}
          PROVE  /\ \A e \in Device : holds'[e] < nextId'
                 /\ \A h \in groups', e \in Device : holds'[e] = h.id => e \in In(h)
                 /\ \A h \in groups' : h.master \in h.members
        BY <1>0, <2>1, <2>4 DEF GroupRecord
    <2> QED
        BY <2>1, <2>2, <2>3, <2>4, SaveKeeps
<1>4. ASSUME NEW d \in Device, Get(d) PROVE GroupsInv'
    <2> DEFINE mine == {g \in groups : d \in In(g)}
               first == CHOOSE g \in mine : \A h \in mine : g.id <= h.id
    <2>1. /\ holds' = [holds EXCEPT ![d] = IF mine = {} THEN 0 ELSE first.id]
          /\ UNCHANGED <<groups, nextId, stored, persistOk, groupEnv>>
        BY <1>4 DEF Get
    <2>2. mine # {} => first \in mine
        BY <1>0, FirstGroup
    <2> HIDE DEF first
    <2>3. holds'[d] = 0 \/ \E g \in groups : d \in In(g) /\ holds'[d] = g.id
        BY <1>0, <2>1, <2>2
    <2> HIDE DEF mine
    <2>4. \A e \in Device : e # d => holds'[e] = holds[e]
        BY <2>1, <1>0
    <2>5. holds' \in [Device -> 0..MaxId]
        BY <1>0, <2>1, <2>3, <2>4 DEF GroupRecord
    <2>6. groupEnv = {} => Told'
      <3>1. ASSUME groupEnv = {}, NEW g \in groups, NEW e \in Device, holds'[e] = g.id
            PROVE  e \in In(g)
          BY <1>0, <2>3, <2>4, <3>1 DEF GroupRecord
      <3>2. groupEnv = {} => \A e \in Device : holds'[e] < nextId
          BY <1>0, <2>3, <2>4
      <3> QED
          BY <2>1, <3>1, <3>2 DEF GroupsInv, Told, Store
    <2> QED
        BY <2>1, <2>5, <2>6 DEF GroupsInv, Sound
<1>5. CASE Restart
    BY <1>5 DEF Restart, GroupsInv, Told, Store, Sound
<1>6. CASE UNCHANGED group
    BY <1>6 DEF group, GroupsInv, Told, Store, Sound
<1> QED
    BY <1>1, <1>2, <1>3, <1>4, <1>5, <1>6 DEF GroupsNext

\* For any speakers and any number of groups: unless an update brings in the speaker of
\* another pair, a speaker has a role in one group only, also where masters without a role
\* were accepted (bose_endpoints.cpp:1358-1380).
THEOREM OnePairTheorem == GroupsSpec => []OnePair
<1>1. GroupsInv => OnePair
    BY DEF GroupsInv, Sound, OnePair, RolesKept, Apart
<1> QED
    BY <1>1, GroupsStart, GroupsStep, PTL DEF GroupsSpec

\* And where every save succeeds, the id a speaker was given never names a group of others
\* (bose_endpoints.cpp:1382, 1219): ids are given out once, restarts included.
THEOREM OwnGroupTheorem == GroupsSpec => []OwnGroup
<1>1. GroupsInv => OwnGroup
    BY DEF GroupsInv, Told, OwnGroup
<1> QED
    BY <1>1, GroupsStart, GroupsStep, PTL DEF GroupsSpec

\* Every variable of the group store keeps its type (GroupsTypeOK).
THEOREM GroupsTypesTheorem == GroupsSpec => []GroupsTypeOK
<1>1. GroupsInv => GroupsTypeOK
    BY DEF GroupsInv, Sound, GroupRecord, In, GroupsTypeOK
<1> QED
    BY <1>1, GroupsStart, GroupsStep, PTL DEF GroupsSpec

-----------------------------------------------------------------------------
(* Old data.                                                                *)

LegacySpec == LegacyInit /\ [][LegacyNext]_legacy

(***************************************************************************)
(* Where the entries are, as long as no boot has ended with a part of the  *)
(* copies: nowhere new, or also new, when a boot starts; those the copy    *)
(* has dealt with are new or failed.                                       *)
(***************************************************************************)
EntriesInv ==
  ~cutShort =>
    /\ oldNs \cup newNs = Entry
    /\ boot = "start" => newNs = {} \/ oldNs \subseteq newNs
    /\ boot = "copy" => oldNs \subseteq newNs \cup todo \cup failed

\* Where the presets are.
PresetsInv ==
  /\ slice \subseteq Speaker /\ ram \subseteq Speaker /\ PresetsSurvive
  /\ boot = "phaseA" => blob /\ ram = Speaker

\* Every step of the namespace migration keeps every entry somewhere it is read from.
LEMMA EntriesStep == EntriesInv /\ [LegacyNext]_legacy => EntriesInv'
<1> SUFFICES ASSUME EntriesInv, [LegacyNext]_legacy PROVE EntriesInv'
    OBVIOUS
<1> USE DEF EntriesInv
<1>1. CASE LegacyPowerLoss
    BY <1>1 DEF LegacyPowerLoss
<1>2. CASE CopySkipped \/ AlreadyMigrated \/ CopyStarts
    BY <1>2 DEF CopySkipped, AlreadyMigrated, CopyStarts, EraseOld
<1>3. CASE \E e \in Entry : CopyOne(e)
    BY <1>3 DEF CopyOne
<1>4. CASE CopyDone \/ CopyPartial
    BY <1>4 DEF CopyDone, CopyPartial, EraseOld
<1>5. CASE Load
    BY <1>5 DEF Load
<1>6. CASE \E d \in Speaker : SliceBesideBlob(d) \/ SliceAfterBlob(d)
    BY <1>6 DEF SliceBesideBlob, SliceAfterBlob
<1>7. CASE PhaseADone \/ PhaseB \/ PhaseBDone
    BY <1>7 DEF PhaseADone, PhaseB, PhaseBDone, EraseBlob
<1>8. CASE UNCHANGED legacy
    BY <1>8 DEF legacy
<1> QED
    BY <1>1, <1>2, <1>3, <1>4, <1>5, <1>6, <1>7, <1>8 DEF LegacyNext

\* For any set of entries, copies that fail and power lost between any two steps: no entry is
\* lost until a boot has ended with a part of the copies (nvs_helper.cpp:654-724).
THEOREM EntriesTheorem == LegacySpec => []EntriesSurvive
<1>1. LegacyInit => EntriesInv
    BY DEF LegacyInit, EntriesInv
<1>2. EntriesInv => EntriesSurvive
    BY DEF EntriesInv, EntriesSurvive, BackupKept
<1> QED
    BY <1>1, <1>2, EntriesStep, PTL DEF LegacySpec

\* Every step of the preset migration keeps the presets in the blob or in the slices.
LEMMA PresetsStep == PresetsInv /\ [LegacyNext]_legacy => PresetsInv'
<1> SUFFICES ASSUME PresetsInv, [LegacyNext]_legacy PROVE PresetsInv'
    OBVIOUS
<1> USE DEF PresetsInv, PresetsSurvive
<1>1. CASE LegacyPowerLoss \/ CopySkipped \/ AlreadyMigrated \/ CopyStarts
    BY <1>1 DEF LegacyPowerLoss, CopySkipped, AlreadyMigrated, CopyStarts, EraseOld
<1>2. CASE \E e \in Entry : CopyOne(e)
    BY <1>2 DEF CopyOne
<1>3. CASE CopyDone \/ CopyPartial
    BY <1>3 DEF CopyDone, CopyPartial, EraseOld
<1>4. CASE Load
    BY <1>4 DEF Load
<1>5. CASE \E d \in Speaker : SliceBesideBlob(d) \/ SliceAfterBlob(d)
    BY <1>5 DEF SliceBesideBlob, SliceAfterBlob, Pending
<1>6. CASE PhaseADone \/ PhaseB \/ PhaseBDone
    BY <1>6 DEF PhaseADone, PhaseB, PhaseBDone, EraseBlob, Pending
<1>7. CASE UNCHANGED legacy
    BY <1>7 DEF legacy
<1> QED
    BY <1>1, <1>2, <1>3, <1>4, <1>5, <1>6, <1>7 DEF LegacyNext

\* For any set of speakers: the presets of all stay in flash until the second phase, and in
\* memory until the power is lost (preset_store.cpp:324-336).
THEOREM PresetsTheorem == LegacySpec => []PresetsSurvive
<1>1. LegacyInit => PresetsInv
    BY DEF LegacyInit, PresetsInv, PresetsSurvive
<1>2. PresetsInv => PresetsSurvive
    BY DEF PresetsInv
<1> QED
    BY <1>1, <1>2, PresetsStep, PTL DEF LegacySpec

\* Every step of a boot.
LEMMA LegacyTypesStep == LegacyTypeOK /\ [LegacyNext]_legacy => LegacyTypeOK'
<1> SUFFICES ASSUME LegacyTypeOK, [LegacyNext]_legacy PROVE LegacyTypeOK'
    OBVIOUS
<1> USE DEF LegacyTypeOK
<1>1. CASE LegacyPowerLoss
    BY <1>1 DEF LegacyPowerLoss
<1>2. CASE CopySkipped \/ AlreadyMigrated \/ CopyStarts
    BY <1>2 DEF CopySkipped, AlreadyMigrated, CopyStarts, EraseOld
<1>3. CASE \E e \in Entry : CopyOne(e)
    BY <1>3 DEF CopyOne
<1>4. CASE CopyDone \/ CopyPartial
    BY <1>4 DEF CopyDone, CopyPartial, EraseOld
<1>5. CASE Load
    BY <1>5 DEF Load
<1>6. CASE \E d \in Speaker : SliceBesideBlob(d)
    BY <1>6 DEF SliceBesideBlob
<1>7. CASE \E d \in Speaker : SliceAfterBlob(d)
    BY <1>7 DEF SliceAfterBlob
<1>8. CASE PhaseADone \/ PhaseB \/ PhaseBDone
    BY <1>8 DEF PhaseADone, PhaseB, PhaseBDone, EraseBlob
<1>9. CASE UNCHANGED legacy
    BY <1>9 DEF legacy
<1> QED
    BY <1>1, <1>2, <1>3, <1>4, <1>5, <1>6, <1>7, <1>8, <1>9 DEF LegacyNext

\* The entries, slices and copies stay in their ranges, whatever fails (nvs_helper.cpp:640-700,
\* preset_store.cpp:324-336).
THEOREM LegacyTypesTheorem == LegacySpec => []LegacyTypeOK
<1>1. LegacyInit => LegacyTypeOK
    BY DEF LegacyInit, LegacyTypeOK
<1> QED
    BY <1>1, LegacyTypesStep, PTL DEF LegacySpec

-----------------------------------------------------------------------------
(* The list of speakers.                                                    *)

InventorySpec == InventoryInit /\ [][InventoryNext]_inventory

Kept == Record \cup {NoRecord}

InventoryTypes ==
  /\ speakers \in [Dev -> Kept] /\ sliceOf \in [Dev -> Kept]
  /\ wholeList \in [there : BOOLEAN, of : [Dev -> Kept]]
  /\ may \in [Dev -> SUBSET Kept]
  /\ left \subseteq Dev /\ unwritten \subseteq Dev
  /\ at \in {"off", "ready", "retract", "beside", "instead", "slices", "sweep", "blob"}

\* No blob, no entries; and slices beside a blob say the same.
Agree ==
  /\ ~wholeList.there => \A d \in Dev : wholeList.of[d] = NoRecord
  /\ wholeList.there => \A d \in Dev : sliceOf[d] \in {NoRecord, wholeList.of[d]}

\* What the holder of the lock has in memory, and which form it saves.
Holds ==
  /\ at # "off" => \A d \in Dev : speakers[d] \in may[d]
  /\ at \in {"slices", "sweep", "instead"} => sliced
  /\ at \in {"retract", "blob"} => ~sliced
  /\ at \in {"beside", "retract"} =>
       wholeList.there /\ \A d \in Dev : speakers[d] = wholeList.of[d]
  /\ at = "beside" => sliced
  /\ at \in {"ready", "slices", "sweep", "instead"} /\ sliced => ~wholeList.there

\* How far each step has come with the slices.
Progress ==
  /\ at = "retract" => \A d \in Dev \ left : sliceOf[d] = NoRecord
  /\ at \in {"ready", "blob"} /\ ~sliced => \A d \in Dev : sliceOf[d] = NoRecord
  /\ at = "beside" => \A d \in Dev \ (left \cup unwritten) : sliceOf[d] = speakers[d]
  /\ at = "beside" => left \cap unwritten = {} /\ \A d \in unwritten : sliceOf[d] = NoRecord
  /\ at = "instead" => \A d \in Dev :
       IF d \in left THEN sliceOf[d] = NoRecord ELSE sliceOf[d] = speakers[d]
  /\ at \in {"slices", "sweep"} =>
       \A d \in Listed \ (left \cup unwritten) : sliceOf[d] = speakers[d]
  /\ at = "sweep" => left \cap Listed = {} /\ Sliced \subseteq Listed \cup left
  /\ at = "slices" => left \subseteq Listed
  /\ at \in {"slices", "sweep"} => unwritten \subseteq Listed

\* Except for slices that wait for the room of the blob, what is stored may be found.
SpeakersFound == \A d \in Dev : (at = "instead" /\ d \in left) \/ Loaded(d) \in may[d]

(***************************************************************************)
(* SpeakersKept speaks of a list at rest.  Between two steps it matters    *)
(* which slices are written and that a slice never differs from a blob     *)
(* beside it.                                                              *)
(***************************************************************************)
InventoryInv == exact => InventoryTypes /\ Agree /\ Holds /\ Progress /\ SpeakersFound

Parts == InventoryTypes /\ Agree /\ Holds /\ Progress /\ SpeakersFound

\* The migration at a boot.
LEMMA MigrationStep ==
  ASSUME exact, Parts,
         \/ Loads \/ ErasesBlob \/ Migrated
         \/ \E d \in Dev : Retracts(d) \/ WritesBeside(d) \/ WritesInstead(d)
  PROVE  Parts'
<1> USE DEF Parts, Kept
<1>1. CASE Loads
    <2>1. InventoryTypes'
        BY <1>1 DEF Loads, Loaded, Flash, InventoryTypes, Listed, Sliced
    <2>2. \A d \in Dev : speakers'[d] = Loaded(d) /\ Loaded(d) \in may[d]
        BY <1>1 DEF Loads, SpeakersFound
    <2>3. at' = "ready" => ~wholeList.there /\ sliced'
        BY <1>1 DEF Loads
    <2>4. at' \in {"beside", "retract"} => wholeList.there /\ (sliced' <=> at' = "beside")
        BY <1>1 DEF Loads
    <2>5. UNCHANGED <<sliceOf, wholeList, may>> /\ at' \in {"ready", "beside", "retract"}
          /\ unwritten' = {}
        BY <1>1 DEF Loads, Flash
    <2>6. Agree' /\ SpeakersFound'
        BY <1>1, <2>2, <2>5 DEF Agree, SpeakersFound, Loaded
    <2>7. Holds'
        BY <2>2, <2>3, <2>4, <2>5 DEF Holds, Agree, Loaded
    <2>8. Progress'
        <3>1. at' = "retract" => left' = Sliced
            BY <1>1 DEF Loads
        <3>2. at' = "beside" => left' = Listed'
            BY <1>1 DEF Loads
        <3>3. \A d \in Dev \ Listed' : speakers'[d] = NoRecord
            BY DEF Listed
        <3>4. \A d \in Dev \ Listed' : sliceOf[d] = NoRecord
            BY <2>2, <3>3 DEF Loaded
        <3> QED
            BY <2>3, <2>5, <3>1, <3>2, <3>3, <3>4 DEF Progress, Sliced
    <2> QED
        BY <2>1, <2>6, <2>7, <2>8
<1>2. ASSUME NEW d \in Dev, Retracts(d) PROVE Parts'
    BY <1>2 DEF Retracts, InventoryTypes, Agree, Holds, Progress, SpeakersFound, Loaded, Listed, Sliced
<1>3. ASSUME NEW d \in Dev, WritesBeside(d) PROVE Parts'
    <2>1. sliceOf[d] # speakers[d] => sliceOf[d] = NoRecord
        BY <1>3 DEF WritesBeside, Agree, Holds
    <2>2. /\ at = "beside" /\ left' = left \ {d} /\ d \in left
          /\ UNCHANGED <<speakers, wholeList, sliced, at, may, exact>>
        BY <1>3 DEF WritesBeside
    <2>3. \/ sliceOf' = [sliceOf EXCEPT ![d] = speakers[d]] /\ unwritten' = unwritten
          \/ sliceOf' = sliceOf /\ unwritten' = unwritten \cup {d} /\ sliceOf[d] = NoRecord
        BY <1>3, <2>1 DEF WritesBeside
    <2>4. wholeList.there /\ \A x \in Dev : speakers[x] = wholeList.of[x]
        BY <2>2 DEF Holds
    <2>5. InventoryTypes'
        BY <2>2, <2>3 DEF InventoryTypes
    <2>6. Agree' /\ Holds'
        BY <2>2, <2>3, <2>4 DEF Agree, Holds, InventoryTypes
    <2>7. Progress'
        <3>1. /\ \A x \in Dev \ (left \cup unwritten) : sliceOf[x] = speakers[x]
              /\ left \cap unwritten = {} /\ \A x \in unwritten : sliceOf[x] = NoRecord
            BY <2>2 DEF Progress
        <3>2. CASE sliceOf' = [sliceOf EXCEPT ![d] = speakers[d]] /\ unwritten' = unwritten
            BY <2>2, <3>1, <3>2 DEF Progress, InventoryTypes
        <3>3. CASE sliceOf' = sliceOf /\ unwritten' = unwritten \cup {d} /\ sliceOf[d] = NoRecord
            BY <2>2, <3>1, <3>3 DEF Progress, InventoryTypes
        <3> QED
            BY <2>3, <3>2, <3>3
    <2>8. SpeakersFound'
        BY <2>2, <2>3, <2>4 DEF SpeakersFound, Loaded, InventoryTypes, Holds
    <2> QED
        BY <2>5, <2>6, <2>7, <2>8
<1>4. CASE ErasesBlob
    <2>1. InventoryTypes'
        BY <1>4 DEF ErasesBlob, NoBlob, InventoryTypes
    <2>2. ~wholeList'.there /\ \A d \in Dev : wholeList'.of[d] = NoRecord
        BY <1>4 DEF ErasesBlob, NoBlob
    <2>5. /\ at = "beside" /\ at' = "instead" /\ left = {} /\ left' = unwritten
          /\ UNCHANGED <<speakers, sliceOf, sliced, may, exact>>
        BY <1>4 DEF ErasesBlob
    <2>6. Agree' /\ Holds'
        BY <2>2, <2>5 DEF Agree, Holds
    <2>7. Progress'
        <3>1. /\ \A d \in Dev \ unwritten : sliceOf[d] = speakers[d]
              /\ \A d \in unwritten : sliceOf[d] = NoRecord
            BY <2>5 DEF Progress
        <3> QED
            BY <2>5, <3>1 DEF Progress
    <2>3. Agree' /\ Holds' /\ Progress'
        BY <2>6, <2>7
    <2>4. SpeakersFound'
        <3>1. SUFFICES ASSUME NEW d \in Dev, d \notin left' PROVE Loaded(d)' \in may'[d]
            BY <2>5 DEF SpeakersFound
        <3>2. sliceOf'[d] = speakers[d] /\ wholeList'.of[d] = NoRecord
            BY <2>2, <2>5, <3>1 DEF Progress
        <3>3. Loaded(d)' = speakers[d]
            BY <3>2 DEF Loaded
        <3> QED
            BY <2>5, <3>3 DEF Holds
    <2> QED
        BY <2>1, <2>3, <2>4
<1>5. ASSUME NEW d \in Dev, WritesInstead(d) PROVE Parts'
    BY <1>5
       DEF WritesInstead, InventoryTypes, Agree, Holds, Progress, SpeakersFound, Loaded, Listed, Sliced
<1>6. CASE Migrated
    BY <1>6 DEF Migrated, Flash, InventoryTypes, Agree, Holds, Progress, SpeakersFound, Loaded
<1> QED
    BY <1>1, <1>2, <1>3, <1>4, <1>5, <1>6

\* A change and its save.
LEMMA SaveStep ==
  ASSUME exact, Parts,
         \/ Changes \/ SlicesWritten \/ Swept \/ WritesBlob
         \/ \E d \in Dev : WritesSlice(d) \/ Sweeps(d)
  PROVE  Parts'
<1> USE DEF Parts, Kept
<1>1. CASE Changes
    <2>1. PICK d \in Dev, e \in Kept :
            /\ speakers' = [speakers EXCEPT ![d] = e]
            /\ may' = [may EXCEPT ![d] = @ \cup {e}]
        BY <1>1 DEF Changes
    <2>2. /\ UNCHANGED <<sliceOf, wholeList, sliced>> /\ at = "ready" /\ unwritten' = {}
          /\ at' = IF sliced THEN "slices" ELSE "blob"
          /\ left' = IF sliced THEN Listed' ELSE {}
        BY <1>1 DEF Changes, Flash
    <2>3. InventoryTypes'
        BY <2>1, <2>2 DEF InventoryTypes, Listed
    <2>4. Agree' /\ Holds' /\ SpeakersFound'
        BY <2>1, <2>2 DEF Agree, Holds, SpeakersFound, Loaded, InventoryTypes
    <2>5. Progress'
        BY <2>1, <2>2 DEF Progress
    <2> QED
        BY <2>3, <2>4, <2>5
<1>2. ASSUME NEW d \in Dev, WritesSlice(d) PROVE Parts'
    <2>1. InventoryTypes' /\ Agree' /\ Holds' /\ SpeakersFound'
        BY <1>2 DEF WritesSlice, InventoryTypes, Agree, Holds, SpeakersFound, Loaded
    <2>2. Progress'
        BY <1>2 DEF WritesSlice, InventoryTypes, Progress, Listed, Sliced
    <2> QED
        BY <2>1, <2>2
<1>3. CASE SlicesWritten
    <2>1. InventoryTypes' /\ Agree' /\ Holds' /\ SpeakersFound'
        BY <1>3 DEF SlicesWritten, Flash, InventoryTypes, Agree, Holds, SpeakersFound, Loaded, Sliced
    <2>2. Progress'
        BY <1>3 DEF SlicesWritten, Flash, Progress, Listed, Sliced
    <2> QED
        BY <2>1, <2>2
<1>4. ASSUME NEW d \in Dev, Sweeps(d) PROVE Parts'
    <2>1. speakers[d] = NoRecord
        BY <1>4 DEF Sweeps, Progress, Listed
    <2>2. InventoryTypes' /\ Agree' /\ Holds' /\ SpeakersFound'
        BY <1>4, <2>1 DEF Sweeps, InventoryTypes, Agree, Holds, SpeakersFound, Loaded
    <2>3. Progress'
        BY <1>4, <2>1 DEF Sweeps, InventoryTypes, Progress, Listed, Sliced
    <2> QED
        BY <2>2, <2>3
<1>5. CASE Swept
    <2>1. ~wholeList.there /\ sliced
        BY <1>5 DEF Swept, Holds
    <2>2. \A d \in Dev : wholeList.of[d] = NoRecord /\ wholeList'.of[d] = NoRecord
        BY <1>5, <2>1 DEF Swept, Agree, NoBlob
    <2>3. ~wholeList'.there
        BY <1>5, <2>1 DEF Swept, NoBlob
    <2>4. \A d \in Dev \ unwritten : sliceOf[d] = speakers[d]
        BY <1>5 DEF Swept, Progress, Listed, Sliced
    <2>5. InventoryTypes'
        BY <1>5 DEF Swept, InventoryTypes, NoBlob
    <2>6. Agree' /\ Holds' /\ Progress'
        BY <1>5, <2>1, <2>2, <2>3 DEF Swept, Agree, Holds, Progress, InventoryTypes
    <2>7. SpeakersFound'
        BY <1>5, <2>2, <2>4 DEF Swept, SpeakersFound, Loaded, InventoryTypes
    <2> QED
        BY <2>5, <2>6, <2>7
<1>6. CASE WritesBlob
    <2>1. /\ at = "blob" /\ at' = "ready"
          /\ UNCHANGED <<speakers, sliceOf, sliced, left, unwritten, exact>>
        BY <1>6 DEF WritesBlob
    <2>2. ~sliced /\ \A d \in Dev : sliceOf[d] = NoRecord
        BY <2>1 DEF Holds, Progress
    <2>3. CASE UNCHANGED <<wholeList, may>>
        BY <2>1, <2>2, <2>3 DEF InventoryTypes, Agree, Holds, Progress, SpeakersFound, Loaded
    <2>4. CASE /\ wholeList' = [there |-> TRUE, of |-> speakers]
               /\ may' = [d \in Dev |-> {speakers[d]}]
        <3>1. InventoryTypes' /\ Agree' /\ Holds'
            BY <2>1, <2>2, <2>4 DEF InventoryTypes, Agree, Holds
        <3>2. Progress'
            BY <2>1, <2>2 DEF Progress
        <3>3. SpeakersFound'
            BY <2>1, <2>2, <2>4 DEF SpeakersFound, Loaded
        <3> QED
            BY <3>1, <3>2, <3>3
    <2> QED
        BY <1>6, <2>3, <2>4 DEF WritesBlob
<1> QED
    BY <1>1, <1>2, <1>3, <1>4, <1>5, <1>6

\* Power fails: the memory is lost, and what nothing could save.
LEMMA CutStep ==
  ASSUME exact, Parts, InventoryPowerFails PROVE Parts'
<1> USE DEF Parts, Kept
<1>1. InventoryTypes'
    BY DEF InventoryPowerFails, Flash, InventoryTypes
<1>2. Agree' /\ Holds' /\ Progress'
    BY DEF InventoryPowerFails, Flash, Agree, Holds, Progress
<1>3. SpeakersFound'
    <2>1. SUFFICES ASSUME NEW d \in Dev PROVE Loaded(d)' \in may'[d]
        BY DEF SpeakersFound
    <2>2. Loaded(d)' = Loaded(d)
        BY DEF InventoryPowerFails, Flash, Loaded
    <2>3. CASE at = "instead" /\ d \in left
        BY <2>2, <2>3 DEF InventoryPowerFails, Progress, Holds, Agree, Loaded
    <2>4. CASE ~(at = "instead" /\ d \in left)
        BY <2>2, <2>4 DEF InventoryPowerFails, SpeakersFound
    <2> QED
        BY <2>3, <2>4
<1> QED
    BY <1>1, <1>2, <1>3

\* Every step keeps the speakers that were saved.
LEMMA InventoryStep == InventoryInv /\ [InventoryNext]_inventory => InventoryInv'
<1> SUFFICES ASSUME InventoryInv, [InventoryNext]_inventory, exact' PROVE Parts'
    BY DEF InventoryInv, Parts
<1>1. exact /\ Parts
    BY DEF InventoryInv, Parts, InventoryNext, inventory, Loads, Retracts, WritesBeside,
           ErasesBlob, WritesInstead, Migrated, Changes, WritesSlice, SlicesWritten, Sweeps,
           Swept, WritesBlob, InventoryPowerFails
<1>2. CASE UNCHANGED inventory
    BY <1>1, <1>2 DEF inventory, Parts, InventoryTypes, Agree, Holds, Progress, SpeakersFound, Loaded,
                      Listed, Sliced
<1> QED
    BY <1>1, <1>2, MigrationStep, SaveStep, CutStep DEF InventoryNext

\* For any set of speakers, power lost between any two steps and slices refused at any time: a
\* boot lists every speaker as a save or a later change left it
\* (speaker_inventory.cpp:236-378 and 433-465).
THEOREM SpeakersTheorem == InventorySpec => []SpeakersKept
<1>1. InventoryInit => InventoryInv
    <2> SUFFICES ASSUME InventoryInit PROVE Parts
        BY DEF InventoryInv, Parts
    <2>1. InventoryTypes
        BY DEF InventoryInit, InventoryTypes, Kept
    <2>2. Agree /\ Holds /\ Progress /\ SpeakersFound
        BY DEF InventoryInit, Agree, Holds, Progress, SpeakersFound, Loaded
    <2> QED
        BY <2>1, <2>2 DEF Parts
<1>2. InventoryInv => SpeakersKept
    BY DEF InventoryInv, SpeakersFound, SpeakersKept
<1> QED
    BY <1>1, <1>2, InventoryStep, PTL DEF InventorySpec

\* Every step of a load, a migration or a save, also when the estimate of its room is wrong.
LEMMA InventoryTypesStep == InventoryTypes /\ [InventoryNext]_inventory => InventoryTypes'
<1> SUFFICES ASSUME InventoryTypes, [InventoryNext]_inventory PROVE InventoryTypes'
    OBVIOUS
<1>0. NoRecord \in Kept /\ NoBlob \in [there : BOOLEAN, of : [Dev -> Kept]]
      /\ \A d \in Dev : Loaded(d) \in Kept
    BY DEF Kept, NoBlob, Loaded, InventoryTypes
<1> USE DEF InventoryTypes
<1>1. CASE Loads
    BY <1>0, <1>1 DEF Loads, Flash, Listed, Sliced
<1>2. CASE ErasesBlob \/ Migrated
    BY <1>0, <1>2 DEF ErasesBlob, Migrated, Flash
<1>3. ASSUME NEW d \in Dev,
             Retracts(d) \/ WritesBeside(d) \/ WritesInstead(d) \/ WritesSlice(d) \/ Sweeps(d)
      PROVE  InventoryTypes'
  <2>1. sliceOf' \in [Dev -> Kept]
    <3>1. sliceOf' = sliceOf \/ \E k \in Kept : sliceOf' = [sliceOf EXCEPT ![d] = k]
        BY <1>0, <1>3 DEF Retracts, WritesBeside, WritesInstead, WritesSlice, Sweeps
    <3> QED
        BY <3>1
  <2>2. left' \subseteq Dev /\ unwritten' \subseteq Dev
      BY <1>3 DEF Retracts, WritesBeside, WritesInstead, WritesSlice, Sweeps
  <2>3. UNCHANGED <<speakers, wholeList, at, may>>
      BY <1>3 DEF Retracts, WritesBeside, WritesInstead, WritesSlice, Sweeps
  <2> QED
      BY <2>1, <2>2, <2>3
<1>4. CASE Changes
  <2>1. PICK d \in Dev, e \in Kept :
          speakers' = [speakers EXCEPT ![d] = e] /\ may' = [may EXCEPT ![d] = @ \cup {e}]
      BY <1>4 DEF Changes, Kept
  <2>2. speakers' \in [Dev -> Kept] /\ may' \in [Dev -> SUBSET Kept]
      BY <2>1
  <2> QED
      BY <1>4, <2>2 DEF Changes, Flash, Listed
<1>5. CASE SlicesWritten \/ Swept
    BY <1>0, <1>5 DEF SlicesWritten, Swept, Flash, Sliced
<1>6. CASE WritesBlob
  <2>1. [there |-> TRUE, of |-> speakers] \in [there : BOOLEAN, of : [Dev -> Kept]]
      OBVIOUS
  <2>2. [d \in Dev |-> {speakers[d]}] \in [Dev -> SUBSET Kept]
      OBVIOUS
  <2>3. /\ wholeList' \in [there : BOOLEAN, of : [Dev -> Kept]]
        /\ may' \in [Dev -> SUBSET Kept]
      BY <1>6, <2>1, <2>2, Zenon DEF WritesBlob
  <2> QED
      BY <1>6, <2>3 DEF WritesBlob
<1>7. CASE InventoryPowerFails
    BY <1>0, <1>7 DEF InventoryPowerFails, Flash
<1>8. CASE UNCHANGED inventory
    BY <1>8 DEF inventory
<1> QED
    BY <1>1, <1>2, <1>3, <1>4, <1>5, <1>6, <1>7, <1>8 DEF InventoryNext

\* The list in memory and in flash stays in its range, also when the estimate is wrong
\* (speaker_inventory.cpp:236-378).
THEOREM InventoryTypesTheorem == InventorySpec => []InventoryTypeOK
<1>1. InventoryInit => InventoryTypes
    BY DEF InventoryInit, InventoryTypes, Kept
<1>2. InventoryTypes => InventoryTypeOK
    BY DEF InventoryTypes, InventoryTypeOK, Kept
<1> QED
    BY <1>1, <1>2, InventoryTypesStep, PTL DEF InventorySpec

=============================================================================
