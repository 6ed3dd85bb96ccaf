---------------------------- MODULE PresetProofs ----------------------------
(***************************************************************************)
(* Proofs about PresetSync for any set of speakers, slots and presets.     *)
(***************************************************************************)
EXTENDS PresetSync, TLAPS

-----------------------------------------------------------------------------
(* Slots.                                                                   *)

\* The blank slots are slots, and so is what laying one set over another gives.
LEMMA SlotsClosed ==
  /\ Blank \in Slots
  /\ \A s, list \in Slots : Overlay(s, list) \in Slots
  /\ \A s \in Slots, k \in Slot, p \in Preset \cup {Empty} : [s EXCEPT ![k] = p] \in Slots
BY DEF Slots, Blank, Overlay

\* What the store answers for a speaker is a set of slots.
LEMMA StoredType ==
  ASSUME StoreTypeOK, NEW d \in Device
  PROVE  Stored(d) \in Slots
BY SlotsClosed DEF StoreTypeOK, Stored

\* What an import reads from a speaker is a set of slots.
LEMMA ReadsType ==
  ASSUME TypeOK, NEW d \in Device, NEW list \in Reads(d)
  PROVE  list \in Slots
BY DEF TypeOK, Reads, Slots

-----------------------------------------------------------------------------
(* Saves.                                                                   *)

StoreTypeButGone ==
  /\ ram \in [Device -> Slots \cup {NoEntry}]
  /\ flash \in [Device -> Slots \cup {NoSlice, Unreadable}]
  /\ marker \subseteq Device /\ suspect \subseteq Device /\ failed \subseteq Device

\* A save keeps the types of what it writes.
LEMMA SaveType ==
  ASSUME StoreTypeOK, NEW T \in SUBSET Device, NEW s \in Slots, Save(T, s)
  PROVE  StoreTypeButGone'
<1>1. PICK fails \in SUBSET T, unmarked \in SUBSET T :
        /\ ram' = [d \in Device |-> IF d \in T THEN s ELSE ram[d]]
        /\ flash' = [d \in Device |-> IF d \notin T \ fails THEN flash[d]
                                      ELSE IF s = Blank THEN NoSlice ELSE s]
        /\ marker' = (marker \ (T \ fails)) \cup (fails \ unmarked)
        /\ suspect' = suspect \ (T \ fails)
        /\ failed' = failed \ (T \ fails)
  BY DEF Save
<1>2. ram' \in [Device -> Slots \cup {NoEntry}]
  BY <1>1 DEF StoreTypeOK
<1>3. flash' \in [Device -> Slots \cup {NoSlice, Unreadable}]
  BY <1>1 DEF StoreTypeOK
<1>4. marker' \subseteq Device /\ suspect' \subseteq Device /\ failed' \subseteq Device
  BY <1>1 DEF StoreTypeOK
<1> QED BY <1>2, <1>3, <1>4 DEF StoreTypeButGone

\* What a save does for each speaker, where markers always fit.
LEMMA SaveEffect ==
  ASSUME StoreTypeOK, "nomarker" \notin Env,
         NEW T \in SUBSET Device, NEW s \in Slots, Save(T, s), NEW d \in Device
  PROVE  /\ ram'[d] = IF d \in T THEN s ELSE ram[d]
         /\ \/ /\ d \in T
               /\ flash'[d] = IF s = Blank THEN NoSlice ELSE s
               /\ d \notin marker' /\ d \notin suspect'
            \/ /\ d \in T => d \in marker' /\ s # Blank
               /\ flash'[d] = flash[d]
               /\ d \in marker => d \in marker'
               /\ d \notin T => (d \in marker' <=> d \in marker)
               /\ d \in suspect' <=> d \in suspect
<1>1. PICK fails \in SUBSET T :
        /\ fails # {} => s # Blank
        /\ ram' = [e \in Device |-> IF e \in T THEN s ELSE ram[e]]
        /\ flash' = [e \in Device |-> IF e \notin T \ fails THEN flash[e]
                                      ELSE IF s = Blank THEN NoSlice ELSE s]
        /\ marker' = (marker \ (T \ fails)) \cup fails
        /\ suspect' = suspect \ (T \ fails)
  BY DEF Save
<1>2. CASE d \in T \ fails
  BY <1>1, <1>2
<1>3. CASE d \notin T \ fails
  BY <1>1, <1>3
<1> QED BY <1>2, <1>3

-----------------------------------------------------------------------------
(* Types.                                                                   *)

\* Editing one slot keeps the types.
LEMMA SetSlotType ==
  ASSUME StoreTypeOK, NEW d \in Device, NEW k \in Slot, NEW p \in Preset \cup {Empty},
         SetSlot(d, k, p)
  PROVE  StoreTypeOK'
<1>1. StoreTypeButGone'
  BY SaveType, StoredType, SlotsClosed DEF SetSlot
<1>2. gone' \in [Device -> SUBSET Slot]
  BY DEF SetSlot, GoneAfter, StoreTypeOK
<1> QED BY <1>1, <1>2 DEF StoreTypeOK, StoreTypeButGone

\* Storing an imported list keeps the types.
LEMMA SetSlotsType ==
  ASSUME StoreTypeOK, NEW d \in Device, NEW list \in Slots, SetSlots(d, list)
  PROVE  StoreTypeOK'
<1>1. CASE UNCHANGED store
  BY <1>1 DEF store, StoreTypeOK
<1>2. CASE Save({d}, Overlay(Stored(d), list)) /\ gone' = [gone EXCEPT ![d] = @ \cap EmptyIn(list)]
  <2>1. StoreTypeButGone'
    BY <1>2, SaveType, StoredType, SlotsClosed
  <2>2. gone' \in [Device -> SUBSET Slot]
    BY <1>2 DEF StoreTypeOK
  <2> QED BY <2>1, <2>2 DEF StoreTypeOK, StoreTypeButGone
<1> QED BY <1>1, <1>2 DEF SetSlots

\* Replacing all slots keeps the types.
LEMMA ReplaceSlotsType ==
  ASSUME StoreTypeOK, NEW T \in SUBSET Device, NEW s \in Slots, ReplaceSlots(T, s)
  PROVE  StoreTypeOK'
<1>1. StoreTypeButGone'
  BY SaveType DEF ReplaceSlots
<1>2. gone' \in [Device -> SUBSET Slot]
  BY DEF ReplaceSlots, StoreTypeOK, EmptyIn
<1> QED BY <1>1, <1>2 DEF StoreTypeOK, StoreTypeButGone

\* A boot that finds slices of the right kind starts with the right types.
LEMMA BootType ==
  ASSUME NEW f \in [Device -> Slots \cup {NoSlice, Unreadable}], NEW m \in SUBSET Device,
         NEW g \in [Device -> SUBSET Slot], LoadFromNVS(f, m, g)
  PROVE  StoreTypeOK'
<1> DEFINE loaded == [d \in Device |-> IF f[d] \in Slots THEN f[d] ELSE NoEntry]
<1>1. loaded \in [Device -> Slots \cup {NoEntry}]
  OBVIOUS
<1>2. gone' \in [Device -> SUBSET Slot]
  BY DEF LoadFromNVS, EmptyIn
<1> QED BY <1>1, <1>2 DEF LoadFromNVS, StoreTypeOK

TypeOfOthers ==
  /\ hw \in [Device -> Slots]
  /\ ours \subseteq Device /\ migrating \subseteq Device
  /\ seen \in [Device -> Device \cup {Nobody}]
  /\ job \in [Device -> [phase : Phases, list : Slots]]
  /\ recording \in [Device -> (Slot \X Preset) \cup {NoRecord}]

\* A boot keeps the types.
LEMMA BootStepType ==
  ASSUME TypeOK,
         NEW f \in [Device -> Slots \cup {NoSlice, Unreadable}], NEW m \in SUBSET Device,
         NEW g \in [Device -> SUBSET Slot], Boot(f, m, g)
  PROVE  TypeOK'
<1>1. StoreTypeOK'
  BY BootType DEF Boot
<1>2. TypeOfOthers'
  BY SlotsClosed DEF TypeOK, TypeOfOthers, Boot, NoJob, Phases
<1> QED BY <1>1, <1>2 DEF TypeOK, TypeOfOthers

\* The web API's steps keep the types.
LEMMA EditsType == ASSUME TypeOK, NEW d \in Device, Edits(d) PROVE TypeOK'
<1>1. ASSUME NEW k \in Slot, NEW p \in Preset \cup {Empty}, PutPreset(d, k, p) PROVE TypeOK'
  BY <1>1, SetSlotType DEF PutPreset, TypeOK, speakers
<1>2. ASSUME NEW k \in Slot, DeletePreset(d, k) PROVE TypeOK'
  BY <1>2, SetSlotType DEF DeletePreset, ClearSlot, TypeOK, speakers
<1>3. ASSUME NEW s \in Slots, ImportPresetsSet(d, s) PROVE TypeOK'
  BY <1>3, ReplaceSlotsType DEF ImportPresetsSet, TypeOK, speakers
<1>4. ASSUME NEW T \in SUBSET Device, SyncGroup(d, T) PROVE TypeOK'
  <2>1. ram[d] \in Slots /\ ReplaceSlots(T \ {d}, ram[d])
    BY <1>4 DEF SyncGroup, SyncToGroup, TypeOK, StoreTypeOK
  <2> QED BY <2>1, <1>4, ReplaceSlotsType DEF SyncGroup, TypeOK, speakers
<1>5. CASE ImportFromDevice(d)
  <2>1. PICK list \in Reads(d) : SetSlots(d, list)
    BY <1>5 DEF ImportFromDevice
  <2> QED BY <2>1, <1>5, ReadsType, SetSlotsType DEF ImportFromDevice, TypeOK, speakers
<1>6. ASSUME NEW k \in Slot, NEW p \in Preset, RecordPress(d, k, p) PROVE TypeOK'
  <2>1. hw' \in [Device -> Slots]
    BY <1>6 DEF RecordPress, TypeOK, Slots
  <2>2. gone' \in [Device -> SUBSET Slot]
    BY <1>6 DEF RecordPress, TypeOK, StoreTypeOK
  <2>3. recording' \in [Device -> (Slot \X Preset) \cup {NoRecord}]
    BY <1>6 DEF RecordPress, TypeOK
  <2> QED BY <2>1, <2>2, <2>3, <1>6 DEF RecordPress, TypeOK, StoreTypeOK
<1>7. CASE RecordImport(d)
  <2>1. PICK list \in Reads(d) \cup {Blank} : SetSlots(d, list)
    BY <1>7 DEF RecordImport
  <2>2. StoreTypeOK'
    BY <2>1, ReadsType, SlotsClosed, SetSlotsType DEF TypeOK
  <2> QED BY <2>2, <1>7 DEF RecordImport, TypeOK, speakers
<1>8. ASSUME NEW k \in Slot, RevertPresetToHw(d, k) PROVE TypeOK'
  <2>0. PICK list \in Reads(d) :
          \/ SetSlot(d, k, list[k])
          \/ UNCHANGED store
          \/ Save({d}, [Stored(d) EXCEPT ![k] = Empty]) /\ UNCHANGED gone
    BY <1>8 DEF RevertPresetToHw
  <2>1. CASE SetSlot(d, k, list[k])
    <3>1. list[k] \in Preset \cup {Empty}
      BY ReadsType DEF Slots
    <3> QED BY <1>8, <2>1, <3>1, SetSlotType DEF RevertPresetToHw, TypeOK, speakers
  <2>2. CASE UNCHANGED store
    BY <1>8, <2>2 DEF RevertPresetToHw, TypeOK, StoreTypeOK, store, speakers
  <2>3. CASE Save({d}, [Stored(d) EXCEPT ![k] = Empty]) /\ UNCHANGED gone
    <3>1. StoreTypeButGone'
      BY <2>3, SaveType, StoredType, SlotsClosed DEF TypeOK
    <3> QED BY <1>8, <2>3, <3>1 DEF RevertPresetToHw, TypeOK, StoreTypeOK, StoreTypeButGone,
              speakers
  <2> QED BY <2>0, <2>1, <2>2, <2>3
<1> QED BY <1>1, <1>2, <1>3, <1>4, <1>5, <1>6, <1>7, <1>8 DEF Edits

\* Migrations keep the types.
LEMMA MovesType == ASSUME TypeOK, NEW d \in Device, Moves(d) PROVE TypeOK'
<1>1. CASE Migrate(d)
  <2>1. StoreTypeOK'
    BY <1>1, ReadsType, SetSlotsType DEF Migrate, TypeOK, StoreTypeOK, store
  <2> QED BY <2>1, <1>1 DEF Migrate, TypeOK
<1>2. CASE AutoMigrate(d)
  <2>1. StoreTypeOK'
    BY <1>2, ReadsType, SetSlotsType DEF AutoMigrate, TypeOK
  <2> QED BY <2>1, <1>2 DEF AutoMigrate, TypeOK
<1>3. CASE MigrationEnds(d)
  BY <1>3 DEF MigrationEnds, TypeOK, StoreTypeOK, store
<1>4. CASE LeavesCloud(d)
  BY <1>4 DEF LeavesCloud, TypeOK, StoreTypeOK, store
<1> QED BY <1>1, <1>2, <1>3, <1>4 DEF Moves

\* A speaker that adopts a set of slots keeps the types.
LEMMA AdoptsType ==
  ASSUME TypeOK, NEW d \in Device, NEW list \in Slots, Adopts(d, list)
  PROVE  TypeOK'
BY DEF Adopts, TypeOK, StoreTypeOK, store

\* A heal that starts keeps the types.
LEMMA StartHealType == ASSUME TypeOK, NEW e \in Device, StartHeal(e) PROVE TypeOK'
<1>1. job' \in [Device -> [phase : Phases, list : Slots]]
  BY DEF StartHeal, TypeOK, Phases
<1> QED BY <1>1 DEF StartHeal, TypeOK, StoreTypeOK, store, speakers

\* The polls keep the types.
LEMMA PollsType == ASSUME TypeOK, NEW d \in Device, Polls(d) PROVE TypeOK'
<1>1. \A e \in Device : Stored(e) \in Slots /\ Rendered(e) \in Slots
  BY StoredType DEF TypeOK, Rendered, Slots
<1>2. CASE AccountFull(d)
  BY <1>1, <1>2, AdoptsType DEF AccountFull
<1>3. CASE AccountFullHeals(d)
  BY <1>3, StartHealType DEF AccountFullHeals
<1>4. CASE AccountPresets(d)
  <2>1. seen[d] \in Device
    BY <1>4 DEF AccountPresets, TypeOK
  <2> QED BY <2>1, <1>1, <1>4, AdoptsType, StartHealType DEF AccountPresets
<1>5. CASE DevicePresets(d)
  BY <1>1, <1>5, AdoptsType, StartHealType DEF DevicePresets
<1> QED BY <1>2, <1>3, <1>4, <1>5 DEF Polls

\* The heal task keeps the types.
LEMMA HealsType == ASSUME TypeOK, NEW d \in Device, Heals(d) PROVE TypeOK'
<1>1. Blank \in Slots /\ NoJob \in [phase : Phases, list : Slots]
  BY SlotsClosed DEF NoJob, Phases
<1>2. CASE HealFetch(d)
  <2>1. PICK list \in Reads(d) : Goto(d, IF list = Blank THEN "finish" ELSE "fill", list)
    BY <1>2 DEF HealFetch
  <2>2. job' \in [Device -> [phase : Phases, list : Slots]]
    BY <2>1, ReadsType DEF Goto, TypeOK, Phases
  <2> QED BY <2>2, <1>2 DEF HealFetch, TypeOK, StoreTypeOK, store, speakers
<1>3. CASE HealFails(d)
  BY <1>1, <1>3 DEF HealFails, TypeOK, StoreTypeOK, store, speakers
<1>4. CASE HealFill(d)
  <2> DEFINE fill == [k \in Slot |-> IF Stored(d)[k] = Empty THEN job[d].list[k] ELSE Empty]
  <2>1. fill \in Slots
    BY DEF TypeOK, Slots
  <2>2. job' \in [Device -> [phase : Phases, list : Slots]]
    BY <2>1, <1>4 DEF HealFill, Goto, TypeOK, Phases
  <2> QED BY <2>2, <1>4 DEF HealFill, TypeOK, StoreTypeOK, store, speakers
<1>5. CASE HealStore(d)
  <2>1. StoreTypeOK'
    BY <1>5, SetSlotsType DEF HealStore, TypeOK
  <2>2. job' \in [Device -> [phase : Phases, list : Slots]]
    BY <1>1, <1>5 DEF HealStore, Goto, TypeOK, Phases
  <2> QED BY <2>1, <2>2, <1>5 DEF HealStore, TypeOK, speakers
<1>6. CASE HealFinish(d)
  BY <1>1, <1>6 DEF HealFinish, TypeOK, StoreTypeOK, speakers
<1> QED BY <1>2, <1>3, <1>4, <1>5, <1>6 DEF Heals

\* What a boot step finds.
LEMMA BootsCase ==
  ASSUME TypeOK, Boots
  PROVE  \/ Boot(flash, marker, gone)
         \/ \E d \in Device, k \in Slot, p \in Preset \cup {Empty} :
              /\ MayEdit(d)
              /\ LET s == [Stored(d) EXCEPT ![k] = p]
                 IN Boot([flash EXCEPT ![d] = IF s = Blank THEN NoSlice ELSE s], marker,
                         GoneAfter(d, k, p))
         \/ \E d \in Device, f \in {NoSlice, Unreadable} :
              Boot([flash EXCEPT ![d] = f], marker, gone)
         \/ Boot([d \in Device |-> NoSlice], {}, gone)
BY DEF Boots, Reboot, PowerLossInSave, SliceDamaged, FreshErase

\* Every kind of boot keeps the types.
LEMMA BootsType == ASSUME TypeOK, Boots PROVE TypeOK'
<1>0. /\ flash \in [Device -> Slots \cup {NoSlice, Unreadable}]
      /\ marker \in SUBSET Device /\ gone \in [Device -> SUBSET Slot]
  BY DEF TypeOK, StoreTypeOK
<1>1. CASE Boot(flash, marker, gone)
  BY <1>0, <1>1, BootStepType
<1>2. ASSUME NEW d \in Device, NEW k \in Slot, NEW p \in Preset \cup {Empty},
             LET s == [Stored(d) EXCEPT ![k] = p]
             IN Boot([flash EXCEPT ![d] = IF s = Blank THEN NoSlice ELSE s], marker,
                     GoneAfter(d, k, p))
      PROVE TypeOK'
  <2> DEFINE s == [Stored(d) EXCEPT ![k] = p]
             f == [flash EXCEPT ![d] = IF s = Blank THEN NoSlice ELSE s]
  <2>1. s \in Slots
    BY StoredType, SlotsClosed DEF TypeOK
  <2>2. f \in [Device -> Slots \cup {NoSlice, Unreadable}]
    BY <1>0, <2>1
  <2>3. GoneAfter(d, k, p) \in [Device -> SUBSET Slot]
    BY <1>0 DEF GoneAfter
  <2>4. Boot(f, marker, GoneAfter(d, k, p))
    BY <1>2
  <2> HIDE DEF f
  <2> QED BY <1>0, <2>2, <2>3, <2>4, BootStepType
<1>3. ASSUME NEW d \in Device, NEW f \in {NoSlice, Unreadable},
             Boot([flash EXCEPT ![d] = f], marker, gone)
      PROVE TypeOK'
  BY <1>0, <1>3, BootStepType
<1>4. CASE Boot([d \in Device |-> NoSlice], {}, gone)
  BY <1>0, <1>4, BootStepType
<1> QED BY <1>1, <1>2, <1>3, <1>4, BootsCase

\* Every step keeps the types.
LEMMA TypeStep == TypeOK /\ [Next]_vars => TypeOK'
<1> SUFFICES ASSUME TypeOK, [Next]_vars PROVE TypeOK' OBVIOUS
<1>1. ASSUME NEW d \in Device, Edits(d) \/ Moves(d) \/ Polls(d) \/ Heals(d) PROVE TypeOK'
  BY <1>1, EditsType, MovesType, PollsType, HealsType
<1>2. ASSUME NEW d \in Device, NEW k \in Slot, NEW p \in Preset, HwEdit(d, k, p) PROVE TypeOK'
  <2>1. hw' \in [Device -> Slots]
    BY <1>2 DEF HwEdit, TypeOK, Slots
  <2>2. gone' \in [Device -> SUBSET Slot]
    BY <1>2 DEF HwEdit, TypeOK, StoreTypeOK
  <2> QED BY <2>1, <2>2, <1>2 DEF HwEdit, TypeOK, StoreTypeOK
<1>3. CASE AddressesMove
  BY <1>3 DEF AddressesMove, TypeOK, StoreTypeOK, store
<1>4. CASE Boots
  BY <1>4, BootsType
<1>5. CASE UNCHANGED vars
  BY <1>5 DEF vars, TypeOK, StoreTypeOK, store
<1> QED BY <1>1, <1>2, <1>3, <1>4, <1>5 DEF Next

\* The initial states have the right types.
LEMMA TypeInit == Init => TypeOK
BY SlotsClosed DEF Init, StoreInit, TypeOK, StoreTypeOK, NoJob, Phases

\* Type correctness, whatever the environment does.
THEOREM TypeTheorem == Spec => []TypeOK
BY TypeInit, TypeStep, PTL DEF Spec

-----------------------------------------------------------------------------
(* The marker.                                                              *)

(***************************************************************************)
(* MarkerCovers is inductive together with two facts: a slice in flash is  *)
(* never blank, and only a marked speaker is suspect.                      *)
(***************************************************************************)
FlashNeverBlank == \A d \in Device : flash[d] # Blank
SuspectMarked == suspect \subseteq marker
StoreInv == FlashNeverBlank /\ SuspectMarked /\ MarkerCovers

Slices == (Slots \ {Blank}) \cup {NoSlice, Unreadable}

\* A save keeps the marker invariant.
LEMMA SaveStoreInv ==
  ASSUME StoreTypeOK, StoreInv, "nomarker" \notin Env,
         NEW T \in SUBSET Device, NEW s \in Slots, Save(T, s)
  PROVE  StoreInv'
<1>0. NoSlice # Blank /\ NoEntry \notin Slots
  BY SlotsClosed, PresetStoreAssumption DEF Slots
<1>1. ASSUME NEW d \in Device PROVE flash'[d] # Blank
  BY <1>0, SaveEffect DEF StoreInv, FlashNeverBlank
<1>2. ASSUME NEW d \in suspect' PROVE d \in marker'
  <2>1. d \in Device
    BY SaveType DEF StoreTypeButGone
  <2> QED BY <2>1, SaveEffect DEF StoreInv, SuspectMarked
<1>3. ASSUME NEW d \in Device, flash'[d] # Unreadable, d \notin marker'
      PROVE  (IF ram'[d] = NoEntry THEN Blank ELSE ram'[d])
               = IF flash'[d] = NoSlice THEN Blank ELSE flash'[d]
  <2>1. CASE d \in T
    <3>1. ram'[d] = s /\ flash'[d] = IF s = Blank THEN NoSlice ELSE s
      BY <1>3, <2>1, SaveEffect
    <3>2. s # NoSlice
      BY PresetStoreAssumption DEF Slots
    <3> QED BY <1>0, <3>1, <3>2
  <2>2. CASE d \notin T
    BY <1>3, <2>2, SaveEffect DEF StoreInv, MarkerCovers, Stored
  <2> QED BY <2>1, <2>2
<1> QED BY <1>1, <1>2, <1>3 DEF StoreInv, FlashNeverBlank, SuspectMarked, MarkerCovers, Stored

\* A boot establishes the marker invariant.
LEMMA BootStoreInv ==
  ASSUME NEW f \in [Device -> Slices], NEW m \in SUBSET Device, NEW g, LoadFromNVS(f, m, g)
  PROVE  StoreInv'
<1>0. NoSlice # Blank /\ Unreadable # Blank /\ NoEntry \notin Slots
      /\ NoSlice \notin Slots
  BY SlotsClosed, PresetStoreAssumption DEF Slots
<1>1. flash' = f /\ marker' = m /\ suspect' = m
      /\ ram' = [d \in Device |-> IF f[d] \in Slots THEN f[d] ELSE NoEntry]
  BY DEF LoadFromNVS
<1>2. \A d \in Device : f[d] # Unreadable =>
         (IF ram'[d] = NoEntry THEN Blank ELSE ram'[d]) = IF f[d] = NoSlice THEN Blank ELSE f[d]
  BY <1>0, <1>1 DEF Slices
<1>3. \A d \in Device : f[d] # Blank
  BY <1>0 DEF Slices
<1> QED BY <1>1, <1>2, <1>3 DEF StoreInv, FlashNeverBlank, SuspectMarked, MarkerCovers, Stored

\* Steps that leave the store alone keep the marker invariant.
LEMMA IdleStoreInv ==
  ASSUME StoreInv, UNCHANGED <<ram, flash, marker>>, suspect' \subseteq suspect
  PROVE  StoreInv'
BY DEF StoreInv, FlashNeverBlank, SuspectMarked, MarkerCovers, Stored

\* Storing an imported list keeps the marker invariant.
LEMMA SetSlotsStoreInv ==
  ASSUME StoreTypeOK, StoreInv, "nomarker" \notin Env,
         NEW d \in Device, NEW list \in Slots, SetSlots(d, list)
  PROVE  StoreInv'
<1>1. CASE UNCHANGED store
  BY <1>1, IdleStoreInv DEF store
<1>2. CASE Save({d}, Overlay(Stored(d), list))
  BY <1>2, SaveStoreInv, StoredType, SlotsClosed
<1> QED BY <1>1, <1>2 DEF SetSlots

\* What the different kinds of boot find are slices that are not blank.
LEMMA BootsSlices ==
  ASSUME TypeOK, StoreInv, Boots
  PROVE  \E f \in [Device -> Slices], m \in SUBSET Device, g \in [Device -> SUBSET Slot] :
           Boot(f, m, g)
<1>0. flash \in [Device -> Slices] /\ marker \in SUBSET Device
      /\ gone \in [Device -> SUBSET Slot]
  BY DEF TypeOK, StoreTypeOK, StoreInv, FlashNeverBlank, Slices
<1>1. CASE Boot(flash, marker, gone)
  BY <1>0, <1>1
<1>2. ASSUME NEW d \in Device, NEW k \in Slot, NEW p \in Preset \cup {Empty},
             LET s == [Stored(d) EXCEPT ![k] = p]
             IN Boot([flash EXCEPT ![d] = IF s = Blank THEN NoSlice ELSE s], marker,
                     GoneAfter(d, k, p))
      PROVE \E f \in [Device -> Slices], m \in SUBSET Device, g \in [Device -> SUBSET Slot] :
              Boot(f, m, g)
  <2> DEFINE s == [Stored(d) EXCEPT ![k] = p]
             f == [flash EXCEPT ![d] = IF s = Blank THEN NoSlice ELSE s]
  <2>1. s \in Slots
    BY StoredType, SlotsClosed DEF TypeOK
  <2>2. f \in [Device -> Slices]
    <3> HIDE DEF s
    <3> QED BY <1>0, <2>1 DEF Slices
  <2>3. GoneAfter(d, k, p) \in [Device -> SUBSET Slot]
    BY <1>0 DEF GoneAfter
  <2>4. Boot(f, marker, GoneAfter(d, k, p))
    BY <1>2
  <2> HIDE DEF f
  <2> QED BY <1>0, <2>2, <2>3, <2>4
<1>3. ASSUME NEW d \in Device, NEW f \in {NoSlice, Unreadable},
             Boot([flash EXCEPT ![d] = f], marker, gone)
      PROVE \E f2 \in [Device -> Slices], m \in SUBSET Device, g \in [Device -> SUBSET Slot] :
              Boot(f2, m, g)
  <2>1. [flash EXCEPT ![d] = f] \in [Device -> Slices]
    BY <1>0 DEF Slices
  <2> QED BY <1>0, <1>3, <2>1
<1>4. CASE Boot([d \in Device |-> NoSlice], {}, gone)
  <2>1. [d \in Device |-> NoSlice] \in [Device -> Slices]
    BY DEF Slices
  <2> QED BY <1>0, <1>4, <2>1
<1> QED BY <1>1, <1>2, <1>3, <1>4, BootsCase

\* Every step keeps the marker invariant.
LEMMA StoreInvStep ==
  ASSUME TypeOK, StoreInv, "nomarker" \notin Env, [Next]_vars
  PROVE  StoreInv'
<1>0. StoreTypeOK
  BY DEF TypeOK
<1>1. ASSUME NEW d \in Device, Edits(d) PROVE StoreInv'
  <2>1. ASSUME NEW k \in Slot, NEW p \in Preset \cup {Empty}, SetSlot(d, k, p) PROVE StoreInv'
    BY <1>0, <2>1, SaveStoreInv, StoredType, SlotsClosed DEF SetSlot
  <2>2. ASSUME NEW T \in SUBSET Device, NEW s \in Slots, ReplaceSlots(T, s) PROVE StoreInv'
    BY <1>0, <2>2, SaveStoreInv DEF ReplaceSlots
  <2>3. ASSUME NEW list \in Reads(d) \cup {Blank}, SetSlots(d, list) PROVE StoreInv'
    BY <1>0, <2>3, SetSlotsStoreInv, ReadsType, SlotsClosed
  <2>4. ASSUME NEW T \in SUBSET Device, SyncGroup(d, T) PROVE StoreInv'
    <3>1. ram[d] \in Slots /\ ReplaceSlots(T \ {d}, ram[d])
      BY <1>0, <2>4 DEF SyncGroup, SyncToGroup, StoreTypeOK
    <3> QED BY <3>1, <2>2
  <2>5. ASSUME NEW k \in Slot, NEW p \in Preset, RecordPress(d, k, p) PROVE StoreInv'
    BY <2>5, IdleStoreInv DEF RecordPress
  <2>6. ASSUME NEW k \in Slot, RevertPresetToHw(d, k) PROVE StoreInv'
    <3>0. PICK list \in Reads(d) :
            \/ SetSlot(d, k, list[k])
            \/ UNCHANGED store
            \/ Save({d}, [Stored(d) EXCEPT ![k] = Empty])
      BY <2>6 DEF RevertPresetToHw
    <3>1. list[k] \in Preset \cup {Empty}
      BY ReadsType DEF Slots
    <3>2. [Stored(d) EXCEPT ![k] = Empty] \in Slots
      BY <1>0, StoredType, SlotsClosed
    <3>3. UNCHANGED store => StoreInv'
      BY IdleStoreInv DEF store
    <3>4. Save({d}, [Stored(d) EXCEPT ![k] = Empty]) => StoreInv'
      BY <1>0, <3>2, SaveStoreInv
    <3> QED BY <2>1, <3>0, <3>1, <3>3, <3>4
  <2> QED BY <1>1, <2>1, <2>2, <2>3, <2>4, <2>5, <2>6
        DEF Edits, PutPreset, DeletePreset, ClearSlot, ImportPresetsSet, ImportFromDevice,
            RecordImport
<1>2. ASSUME NEW d \in Device, Moves(d) PROVE StoreInv'
  <2>1. ASSUME UNCHANGED store PROVE StoreInv'
    BY <2>1, IdleStoreInv DEF store
  <2>2. ASSUME NEW list \in Reads(d), SetSlots(d, list) PROVE StoreInv'
    BY <1>0, <2>2, SetSlotsStoreInv, ReadsType
  <2> QED BY <1>2, <2>1, <2>2 DEF Moves, Migrate, AutoMigrate, MigrationEnds, LeavesCloud
<1>3. ASSUME NEW d \in Device, Polls(d) PROVE StoreInv'
  <2>1. UNCHANGED store
    BY <1>3 DEF Polls, AccountFull, AccountFullHeals, AccountPresets, DevicePresets,
         Adopts, StartHeal
  <2> QED BY <2>1, IdleStoreInv DEF store
<1>4. ASSUME NEW d \in Device, Heals(d) PROVE StoreInv'
  <2>1. CASE HealStore(d)
    <3>1. job[d].list \in Slots
      BY DEF TypeOK
    <3> QED BY <1>0, <2>1, <3>1, SetSlotsStoreInv DEF HealStore
  <2>2. CASE ~HealStore(d)
    BY <1>4, <2>2, IdleStoreInv
       DEF Heals, HealFetch, HealFails, HealFill, HealFinish, store
  <2> QED BY <2>1, <2>2
<1>5. ASSUME NEW d \in Device, NEW k \in Slot, NEW p \in Preset, HwEdit(d, k, p) PROVE StoreInv'
  BY <1>5, IdleStoreInv DEF HwEdit
<1>6. CASE AddressesMove
  BY <1>6, IdleStoreInv DEF AddressesMove, store
<1>7. CASE Boots
  BY <1>7, BootsSlices, BootStoreInv DEF Boot
<1>8. CASE UNCHANGED vars
  BY <1>8, IdleStoreInv DEF vars, store
<1> QED BY <1>1, <1>2, <1>3, <1>4, <1>5, <1>6, <1>7, <1>8 DEF Next

\* The marker invariant holds initially.
LEMMA StoreInvInit == Init => StoreInv
<1>1. NoSlice # Blank
  BY SlotsClosed, PresetStoreAssumption DEF Slots
<1> QED BY <1>1 DEF Init, StoreInit, StoreInv, FlashNeverBlank, SuspectMarked, MarkerCovers, Stored

\* Whatever happens, a slice that differs from the RAM carries its marker, as
\* long as flash always has room for a marker.
THEOREM MarkerTheorem ==
  ASSUME "nomarker" \notin Env
  PROVE  Spec => []MarkerCovers
<1>1. Init => TypeOK /\ StoreInv
  BY TypeInit, StoreInvInit
<1>2. TypeOK /\ StoreInv /\ [Next]_vars => (TypeOK /\ StoreInv)'
  BY TypeStep, StoreInvStep
<1>3. StoreInv => MarkerCovers
  BY DEF StoreInv
<1> QED BY <1>1, <1>2, <1>3, PTL DEF Spec

-----------------------------------------------------------------------------
(***************************************************************************)
(* What the speakers are served: no speaker loses a preset to the cloud    *)
(* (NoWipe), while saves may fail and slices may be damaged.               *)
(***************************************************************************)

(***************************************************************************)
(* The environment of the theorem: saves fail and slices are damaged, and  *)
(* nothing else happens that the gates of the code are not made for.       *)
(***************************************************************************)
Tame ==
  /\ "nomarker" \notin Env /\ "abandon" \notin Env /\ "editGated" \notin Env
  /\ "editEarly" \notin Env /\ "hwEdit" \notin Env /\ "record" \notin Env
  /\ "ipMoved" \notin Env
  /\ Skipped = {}

-----------------------------------------------------------------------------
(* The inductive invariant.                                                 *)

\* Every slot that the speaker fills is filled in s or was emptied by the user.
Covers(d, s) == \A k \in Slot : hw[d][k] # Empty /\ s[k] = Empty => k \in gone[d]

\* A speaker that would be served is covered by what it would be served.
GapsKnown(d) == HasAny(d) /\ d \notin suspect => Covers(d, Stored(d))

\* A heal task that has its list will cover the speaker.
HealSound(d) ==
  /\ job[d].phase \in {"fill", "store"} => Covers(d, Overlay(Stored(d), job[d].list))
  /\ job[d].phase = "finish" => Covers(d, Stored(d))

Sound(d) == GapsKnown(d) /\ HealSound(d)

WipeInv ==
  /\ TypeOK /\ StoreInv
  /\ seen = [d \in Device |-> d]
  /\ \A d \in Device : Sound(d)

-----------------------------------------------------------------------------
(* One speaker.                                                             *)

\* A speaker that the store covers after a step is sound, whatever its heal task has read.
LEMMA CoveredIsSound ==
  ASSUME NEW d \in Device, Covers(d, Stored(d))' PROVE Sound(d)'
BY DEF Sound, GapsKnown, HealSound, Covers, Overlay

\* A speaker that a step leaves alone stays sound; suspicion may be added to it.
LEMMA UntouchedIsSound ==
  ASSUME NEW d \in Device, Sound(d),
         ram'[d] = ram[d], gone'[d] = gone[d], hw'[d] = hw[d],
         job'[d] \in {job[d], NoJob}, d \in suspect => d \in suspect'
  PROVE  Sound(d)'
<1>1. Stored(d)' = Stored(d)
  BY DEF Stored
<1>2. \A s : (\A k \in Slot : hw[d][k] # Empty /\ s[k] = Empty => k \in gone[d])
             => (\A k \in Slot : hw'[d][k] # Empty /\ s[k] = Empty => k \in gone'[d])
  OBVIOUS
<1>3. GapsKnown(d)'
  BY <1>1, <1>2 DEF Sound, GapsKnown, HasAny, Covers
<1>4. CASE job'[d] = job[d]
  BY <1>1, <1>2, <1>3, <1>4 DEF Sound, HealSound, Covers, Overlay
<1>5. CASE job'[d] = NoJob
  BY <1>3, <1>5 DEF Sound, HealSound, NoJob
<1> QED BY <1>4, <1>5

\* A speaker the user may edit is covered.
LEMMA EditableIsCovered ==
  ASSUME Tame, NEW d \in Device, Sound(d), MayEdit(d) PROVE Covers(d, Stored(d))
<1>1. CASE HasAny(d)
  BY <1>1 DEF Tame, MayEdit, InDoubt, Sound, GapsKnown
<1>2. CASE ~HasAny(d)
  BY <1>2 DEF Tame, MayEdit, Covers, Blank
<1> QED BY <1>1, <1>2

\* What is read from a speaker is what it has.
LEMMA ReadsAll ==
  ASSUME Tame, TypeOK, NEW d \in Device, NEW list \in Reads(d) PROVE list = hw[d]
BY DEF Tame, Reads, TypeOK, Slots

-----------------------------------------------------------------------------
(* Steps of the store.                                                      *)

\* What the store answers after a save for a speaker that was saved.
LEMMA SaveStored ==
  ASSUME StoreTypeOK, Tame, NEW T \in SUBSET Device, NEW s \in Slots, Save(T, s),
         NEW d \in T
  PROVE  Stored(d)' = s
<1>1. NoEntry \notin Slots
  BY PresetStoreAssumption DEF Slots
<1> QED BY <1>1, SaveEffect DEF Tame, Stored

\* A save leaves the other speakers alone.
LEMMA SaveElsewhere ==
  ASSUME StoreTypeOK, Tame, NEW T \in SUBSET Device, NEW s \in Slots, Save(T, s),
         NEW d \in Device \ T
  PROVE  ram'[d] = ram[d] /\ (d \in suspect => d \in suspect')
BY SaveEffect DEF Tame

\* Editing a slot of a covered speaker leaves every speaker sound.
LEMMA SetSlotSound ==
  ASSUME StoreTypeOK, Tame, \A e \in Device : Sound(e),
         NEW d \in Device, Covers(d, Stored(d)),
         NEW k \in Slot, NEW p \in Preset \cup {Empty}, SetSlot(d, k, p),
         UNCHANGED <<hw, job>>, NEW e \in Device
  PROVE  Sound(e)'
<1>1. [Stored(d) EXCEPT ![k] = p] \in Slots /\ Stored(d) \in Slots
  BY StoredType, SlotsClosed
<1>2. gone' = [gone EXCEPT ![d] = IF p = Empty THEN @ \cup {k} ELSE @ \ {k}]
  BY DEF SetSlot, GoneAfter
<1>3. CASE e = d
  <2>1. Stored(d)' = [Stored(d) EXCEPT ![k] = p]
    BY <1>1, SaveStored DEF SetSlot
  <2>2. gone'[d] = IF p = Empty THEN gone[d] \cup {k} ELSE gone[d] \ {k}
    BY <1>2 DEF StoreTypeOK
  <2>3. \A i \in Slot : Stored(d)'[i] = IF i = k THEN p ELSE Stored(d)[i]
    BY <1>1, <2>1 DEF Slots
  <2>4. Covers(d, Stored(d))'
    BY <2>2, <2>3 DEF Covers
  <2> QED BY <1>3, <2>4, CoveredIsSound
<1>4. CASE e # d
  <2>0. {d} \in SUBSET Device /\ e \in Device \ {d}
    BY <1>4
  <2>1. ram'[e] = ram[e] /\ (e \in suspect => e \in suspect')
    BY <1>1, <2>0, SaveElsewhere DEF SetSlot
  <2>2. gone'[e] = gone[e]
    BY <1>2, <1>4 DEF StoreTypeOK
  <2> QED BY <2>1, <2>2, UntouchedIsSound
<1> QED BY <1>3, <1>4

\* Replacing all slots leaves every speaker sound.
LEMMA ReplaceSlotsSound ==
  ASSUME StoreTypeOK, Tame, \A e \in Device : Sound(e),
         NEW T \in SUBSET Device, NEW s \in Slots, ReplaceSlots(T, s),
         UNCHANGED <<hw, job>>, NEW e \in Device
  PROVE  Sound(e)'
<1>1. Save(T, s) /\ gone'[e] = IF e \in T THEN EmptyIn(s) ELSE gone[e]
  BY DEF ReplaceSlots
<1>2. CASE e \in T
  <2>1. Covers(e, Stored(e))'
    BY <1>1, <1>2, SaveStored DEF Covers, EmptyIn
  <2> QED BY <2>1, CoveredIsSound
<1>3. CASE e \notin T
  <2>1. ram'[e] = ram[e] /\ (e \in suspect => e \in suspect')
    BY <1>1, <1>3, SaveElsewhere
  <2> QED BY <1>1, <1>3, <2>1, UntouchedIsSound
<1> QED BY <1>2, <1>3

(***************************************************************************)
(* Storing a list that covers the speaker, alone or over what is stored,   *)
(* leaves every speaker sound.                                             *)
(***************************************************************************)
LEMMA SetSlotsSound ==
  ASSUME StoreTypeOK, Tame, \A e \in Device : Sound(e),
         NEW d \in Device, NEW list \in Slots, Covers(d, Overlay(Stored(d), list)),
         SetSlots(d, list), UNCHANGED hw, NEW e \in Device,
         e # d => job'[e] = job[e]
  PROVE  Sound(e)'
<1>1. CASE list = Blank
  <2>1. UNCHANGED <<ram, gone, suspect>>
    BY <1>1 DEF SetSlots, store
  <2>2. CASE e = d
    <3>1. Covers(d, Stored(d))'
      BY <1>1, <2>1 DEF Covers, Overlay, Blank, Stored
    <3> QED BY <2>2, <3>1, CoveredIsSound
  <2>3. CASE e # d
    BY <2>1, <2>3, UntouchedIsSound
  <2> QED BY <2>2, <2>3
<1>2. CASE list # Blank
  <2>0. Overlay(Stored(d), list) \in Slots
    BY StoredType, SlotsClosed
  <2>1. /\ Save({d}, Overlay(Stored(d), list))
        /\ gone' = [gone EXCEPT ![d] = @ \cap EmptyIn(list)]
    BY <1>2 DEF SetSlots
  <2>2. CASE e = d
    <3>1. Stored(d)' = Overlay(Stored(d), list)
      BY <2>0, <2>1, SaveStored
    <3>2. gone'[d] = gone[d] \cap EmptyIn(list)
      BY <2>1 DEF StoreTypeOK
    <3>3. Covers(d, Stored(d))'
      BY <3>1, <3>2 DEF Covers, Overlay, EmptyIn
    <3> QED BY <2>2, <3>3, CoveredIsSound
  <2>3. CASE e # d
    <3>0. {d} \in SUBSET Device /\ e \in Device \ {d}
      BY <2>3
    <3>1. ram'[e] = ram[e] /\ (e \in suspect => e \in suspect')
      BY <2>0, <2>1, <3>0, SaveElsewhere
    <3>2. gone'[e] = gone[e]
      BY <2>1, <2>3 DEF StoreTypeOK
    <3> QED BY <2>3, <3>1, <3>2, UntouchedIsSound
  <2> QED BY <2>2, <2>3
<1> QED BY <1>1, <1>2

\* What a speaker has covers it, over any stored slots.
LEMMA OwnListCovers ==
  ASSUME NEW d \in Device, NEW s PROVE Covers(d, Overlay(s, hw[d]))
BY DEF Covers, Overlay

-----------------------------------------------------------------------------
(* Steps of the system.                                                     *)

AllSound == \A e \in Device : Sound(e)

\* The web API's steps leave every speaker sound.
LEMMA EditsSound ==
  ASSUME Tame, WipeInv, NEW d \in Device, Edits(d) PROVE AllSound'
<1>0. StoreTypeOK /\ TypeOK /\ \A e \in Device : Sound(e)
  BY DEF WipeInv, TypeOK
<1>1. ASSUME NEW k \in Slot, NEW p \in Preset \cup {Empty},
             MayEdit(d), SetSlot(d, k, p), UNCHANGED <<hw, job>>
      PROVE  AllSound'
  <2>1. Covers(d, Stored(d))
    BY <1>0, <1>1, EditableIsCovered
  <2> QED BY <1>0, <1>1, <2>1, SetSlotSound DEF AllSound
<1>2. ASSUME NEW T \in SUBSET Device, NEW s \in Slots, ReplaceSlots(T, s), UNCHANGED <<hw, job>>
      PROVE  AllSound'
  BY <1>0, <1>2, ReplaceSlotsSound DEF AllSound
<1>3. ASSUME NEW list \in Reads(d) \cup {Blank}, SetSlots(d, list), UNCHANGED <<hw, job>>
      PROVE  AllSound'
  <2>1. CASE list = Blank
    <3>1. UNCHANGED <<ram, gone, suspect>>
      BY <1>3, <2>1 DEF SetSlots, store
    <3> QED BY <1>0, <1>3, <3>1, UntouchedIsSound DEF AllSound
  <2>2. CASE list # Blank
    <3>1. list = hw[d] /\ list \in Slots
      BY <1>0, <2>2, ReadsAll, ReadsType
    <3>2. Covers(d, Overlay(Stored(d), list))
      BY <3>1, OwnListCovers
    <3> QED BY <1>0, <1>3, <3>1, <3>2, SetSlotsSound DEF AllSound
  <2> QED BY <2>1, <2>2
<1>4. ASSUME NEW T \in SUBSET Device, SyncGroup(d, T) PROVE AllSound'
  <2>1. ram[d] \in Slots /\ ReplaceSlots(T \ {d}, ram[d])
    BY <1>0, <1>4 DEF SyncGroup, SyncToGroup, StoreTypeOK
  <2> QED BY <2>1, <1>2, <1>4 DEF SyncGroup, speakers
<1>5. ASSUME NEW k \in Slot, RevertPresetToHw(d, k) PROVE AllSound'
  <2>0. UNCHANGED <<hw, job>>
    BY <1>5 DEF RevertPresetToHw, speakers
  <2>1. PICK list \in Reads(d) :
          \/ SetSlot(d, k, list[k])
          \/ UNCHANGED store
          \/ /\ list[k] = Empty
             /\ Save({d}, [Stored(d) EXCEPT ![k] = Empty]) /\ UNCHANGED gone
    BY <1>5 DEF RevertPresetToHw
  <2>2. list = hw[d] /\ list[k] \in Preset \cup {Empty}
    BY <1>0, ReadsAll, ReadsType DEF Slots
  <2>3. MayEdit(d) /\ Covers(d, Stored(d))
    BY <1>0, <1>5, EditableIsCovered DEF RevertPresetToHw
  <2>4. CASE SetSlot(d, k, list[k])
    BY <1>1, <2>0, <2>2, <2>3, <2>4
  <2>5. CASE UNCHANGED store
    BY <1>0, <2>0, <2>5, UntouchedIsSound DEF AllSound, store
  <2>6. CASE list[k] = Empty /\ Save({d}, [Stored(d) EXCEPT ![k] = Empty]) /\ UNCHANGED gone
    <3>1. Stored(d) \in Slots /\ [Stored(d) EXCEPT ![k] = Empty] \in Slots
      BY <1>0, StoredType, SlotsClosed
    <3>2. Stored(d)' = [Stored(d) EXCEPT ![k] = Empty]
      BY <1>0, <2>6, <3>1, SaveStored
    <3>3. \A i \in Slot : Stored(d)'[i] = IF i = k THEN Empty ELSE Stored(d)[i]
      BY <3>1, <3>2 DEF Slots
    <3>4. Covers(d, Stored(d))'
      BY <2>0, <2>2, <2>3, <2>6, <3>3 DEF Covers
    <3>5. ASSUME NEW e \in Device \ {d} PROVE Sound(e)'
      <4>1. ram'[e] = ram[e] /\ (e \in suspect => e \in suspect')
        BY <1>0, <2>6, <3>1, SaveElsewhere
      <4> QED BY <1>0, <2>0, <2>6, <4>1, UntouchedIsSound
    <3> QED BY <3>4, <3>5, CoveredIsSound DEF AllSound
  <2> QED BY <2>1, <2>4, <2>5, <2>6
<1>6. ASSUME NEW k \in Slot, NEW p \in Preset, RecordPress(d, k, p) PROVE AllSound'
  BY <1>6 DEF RecordPress, Tame
<1>7. ASSUME NEW k \in Slot, NEW p \in Preset \cup {Empty}, PutPreset(d, k, p) PROVE AllSound'
  BY <1>1, <1>7 DEF PutPreset, speakers
<1>8. ASSUME NEW k \in Slot, DeletePreset(d, k) PROVE AllSound'
  BY <1>1, <1>8 DEF DeletePreset, ClearSlot, speakers
<1>9. ASSUME NEW s \in Slots, ImportPresetsSet(d, s) PROVE AllSound'
  BY <1>2, <1>9 DEF ImportPresetsSet, speakers
<1>10. CASE ImportFromDevice(d) \/ RecordImport(d)
  BY <1>3, <1>10 DEF ImportFromDevice, RecordImport, speakers
<1> QED BY <1>4, <1>5, <1>6, <1>7, <1>8, <1>9, <1>10 DEF Edits

\* Migrations leave every speaker sound.
LEMMA MovesSound ==
  ASSUME Tame, WipeInv, NEW d \in Device, Moves(d) PROVE AllSound'
<1>0. StoreTypeOK /\ TypeOK /\ \A e \in Device : Sound(e)
  BY DEF WipeInv, TypeOK
<1>1. UNCHANGED <<hw, job>>
  BY DEF Moves, Migrate, AutoMigrate, MigrationEnds, LeavesCloud
<1>2. CASE UNCHANGED store
  BY <1>0, <1>1, <1>2, UntouchedIsSound DEF AllSound, store
<1>3. ASSUME NEW list \in Reads(d), SetSlots(d, list) PROVE AllSound'
  <2>1. list = hw[d] /\ list \in Slots
    BY <1>0, ReadsAll, ReadsType
  <2>2. Covers(d, Overlay(Stored(d), list))
    BY <2>1, OwnListCovers
  <2> QED BY <1>0, <1>1, <1>3, <2>1, <2>2, SetSlotsSound DEF AllSound
<1> QED BY <1>2, <1>3 DEF Moves, Migrate, AutoMigrate, MigrationEnds, LeavesCloud

\* A speaker adopts only its own list, and only when it is complete.
LEMMA PollsServe ==
  ASSUME Tame, WipeInv, NEW d \in Device, Polls(d)
  PROVE  \/ Servable(d) /\ Adopts(d, Stored(d))
         \/ \E e \in Device : StartHeal(e)
<1>0. seen[d] = d /\ d # Nobody
  BY PresetSyncAssumption DEF WipeInv
<1>1. \A e \in Device : Rendered(e) = Stored(e)
  <2>1. \A e \in Device : Stored(e) \in Slots
    BY StoredType DEF WipeInv, TypeOK
  <2> QED BY <2>1 DEF Rendered, Tame, Slots
<1>2. CASE AccountFull(d)
  BY <1>0, <1>1, <1>2 DEF AccountFull
<1>3. CASE AccountFullHeals(d)
  BY <1>3 DEF AccountFullHeals
<1>4. CASE AccountPresets(d) \/ DevicePresets(d)
  BY <1>0, <1>4 DEF AccountPresets, DevicePresets
<1> QED BY <1>2, <1>3, <1>4 DEF Polls

\* Polls leave every speaker sound.
LEMMA PollsSound ==
  ASSUME Tame, WipeInv, NEW d \in Device, Polls(d) PROVE AllSound'
<1>0. TypeOK /\ \A e \in Device : Sound(e)
  BY DEF WipeInv
<1>1. CASE Servable(d) /\ Adopts(d, Stored(d))
  <2>1. hw' = [hw EXCEPT ![d] = Stored(d)] /\ UNCHANGED <<ram, gone, suspect, job>>
    BY <1>1 DEF Adopts, store
  <2>2. hw'[d] = Stored(d) /\ Stored(d)' = Stored(d)
    BY <1>0, <2>1 DEF TypeOK, Stored
  <2>3. Covers(d, Stored(d))'
    BY <2>2 DEF Covers
  <2>4. ASSUME NEW e \in Device \ {d} PROVE Sound(e)'
    <3>1. hw'[e] = hw[e]
      BY <1>0, <2>1 DEF TypeOK
    <3> QED BY <1>0, <2>1, <3>1, UntouchedIsSound
  <2> QED BY <2>3, <2>4, CoveredIsSound DEF AllSound
<1>2. ASSUME NEW e \in Device, StartHeal(e) PROVE AllSound'
  <2>1. UNCHANGED <<ram, gone, suspect, hw>> /\ e \in suspect
        /\ job' = [job EXCEPT ![e].phase = "fetch"]
    BY <1>2 DEF StartHeal, store, speakers
  <2>2. job'[e].phase = "fetch"
    BY <1>0, <2>1 DEF TypeOK
  <2>3. Sound(e)'
    BY <2>1, <2>2 DEF Sound, GapsKnown, HealSound
  <2>4. ASSUME NEW f \in Device \ {e} PROVE Sound(f)'
    <3>1. job'[f] = job[f]
      BY <1>0, <2>1 DEF TypeOK
    <3> QED BY <1>0, <2>1, <3>1, UntouchedIsSound
  <2> QED BY <2>3, <2>4 DEF AllSound
<1> QED BY <1>1, <1>2, PollsServe

\* A heal step that leaves the store alone touches its own speaker only.
LEMMA OthersSound ==
  ASSUME TypeOK, AllSound, NEW d \in Device, NEW j, UNCHANGED <<ram, gone, hw>>,
         job' = [job EXCEPT ![d] = j], suspect \ {d} \subseteq suspect', Sound(d)'
  PROVE  AllSound'
<1>1. ASSUME NEW e \in Device \ {d} PROVE Sound(e)'
  <2>1. job'[e] = job[e] /\ (e \in suspect => e \in suspect')
    BY DEF TypeOK
  <2> QED BY <2>1, UntouchedIsSound DEF AllSound
<1> QED BY <1>1 DEF AllSound

\* The heal task leaves every speaker sound.
LEMMA HealsSound ==
  ASSUME Tame, WipeInv, NEW d \in Device, Heals(d) PROVE AllSound'
<1>0. TypeOK /\ StoreTypeOK /\ AllSound /\ Sound(d)
  BY DEF WipeInv, TypeOK, AllSound
<1>1. CASE HealFetch(d)
  <2>1. PICK list \in Reads(d) : Goto(d, IF list = Blank THEN "finish" ELSE "fill", list)
    BY <1>1 DEF HealFetch
  <2> DEFINE j == [phase |-> IF list = Blank THEN "finish" ELSE "fill", list |-> list]
  <2>2. job' = [job EXCEPT ![d] = j] /\ UNCHANGED <<ram, gone, suspect, hw>>
    BY <1>1, <2>1 DEF HealFetch, Goto, store, speakers
  <2>3. job'[d] = j /\ list = hw[d]
    BY <1>0, <2>2, ReadsAll DEF TypeOK
  <2>4. GapsKnown(d)'
    BY <1>0, <2>2 DEF Sound, GapsKnown, HasAny, Stored, Covers
  <2>5. HealSound(d)'
    <3>1. CASE list = Blank
      <4>1. Covers(d, Stored(d))'
        BY <2>2, <2>3, <3>1 DEF Covers, Blank
      <4> QED BY <2>3, <3>1, <4>1 DEF HealSound
    <3>2. CASE list # Blank
      <4>1. Covers(d, Overlay(Stored(d), job[d].list))'
        BY <2>2, <2>3 DEF Covers, Overlay
      <4> QED BY <2>3, <3>2, <4>1 DEF HealSound
    <3> QED BY <3>1, <3>2
  <2> HIDE DEF j
  <2> QED BY <1>0, <2>2, <2>4, <2>5, OthersSound DEF Sound
<1>2. CASE HealFails(d)
  <2>1. job' = [job EXCEPT ![d] = NoJob] /\ UNCHANGED <<ram, gone, suspect, hw>>
    BY <1>2 DEF HealFails, store, speakers
  <2>2. job'[d] = NoJob
    BY <1>0, <2>1 DEF TypeOK
  <2>3. Sound(d)'
    BY <1>0, <2>1, <2>2, UntouchedIsSound
  <2> QED BY <1>0, <2>1, <2>3, OthersSound
<1>3. CASE HealFill(d)
  <2> DEFINE fill == [k \in Slot |-> IF Stored(d)[k] = Empty THEN job[d].list[k] ELSE Empty]
             j == [phase |-> IF fill = Blank THEN "finish" ELSE "store", list |-> fill]
  <2>1. job' = [job EXCEPT ![d] = j] /\ UNCHANGED <<ram, gone, suspect, hw>>
    BY <1>3 DEF HealFill, Goto, store, speakers
  <2>2. job'[d] = j
    BY <1>0, <2>1 DEF TypeOK
  <2>3. Covers(d, Overlay(Stored(d), job[d].list))
    BY <1>0, <1>3 DEF HealFill, Sound, HealSound
  <2>4. GapsKnown(d)'
    BY <1>0, <2>1 DEF Sound, GapsKnown, HasAny, Stored, Covers
  <2>5. Stored(d)' = Stored(d)
    BY <2>1 DEF Stored
  <2>6. \A k \in Slot : hw[d][k] # Empty /\ Stored(d)[k] = Empty /\ fill[k] = Empty
                        => k \in gone[d]
    BY <2>3 DEF Covers, Overlay
  <2>7. ASSUME fill = Blank PROVE Sound(d)'
    <3>1. \A k \in Slot : fill[k] = Empty
      BY <2>7 DEF Blank
    <3>2. Covers(d, Stored(d))'
      BY <2>1, <2>5, <2>6, <3>1 DEF Covers
    <3>3. job'[d].phase = "finish"
      <4> HIDE DEF fill
      <4> QED BY <2>2, <2>7
    <3>4. HealSound(d)'
      BY <3>2, <3>3 DEF HealSound
    <3> QED BY <2>4, <3>4 DEF Sound
  <2>8. ASSUME fill # Blank PROVE Sound(d)'
    <3>1. job'[d].phase = "store" /\ job'[d].list = fill
      <4> HIDE DEF fill
      <4> QED BY <2>2, <2>8
    <3>2. Covers(d, Overlay(Stored(d), job[d].list))'
      <4> HIDE DEF fill
      <4> QED BY <2>1, <2>5, <2>6, <3>1 DEF Covers, Overlay
    <3>3. HealSound(d)'
      BY <3>1, <3>2 DEF HealSound
    <3> QED BY <2>4, <3>3 DEF Sound
  <2>9. Sound(d)'
    BY <2>7, <2>8
  <2> HIDE DEF j
  <2> QED BY <1>0, <2>1, <2>9, OthersSound
<1>4. CASE HealStore(d)
  <2>1. job[d].list \in Slots /\ Covers(d, Overlay(Stored(d), job[d].list))
    BY <1>0, <1>4 DEF HealStore, Sound, HealSound, TypeOK
  <2>2. \A e \in Device : e # d => job'[e] = job[e]
    BY <1>0, <1>4 DEF HealStore, Goto, TypeOK
  <2> QED BY <1>0, <1>4, <2>1, <2>2, SetSlotsSound DEF HealStore, speakers, AllSound
<1>5. CASE HealFinish(d)
  <2>1. /\ job' = [job EXCEPT ![d] = NoJob] /\ suspect' = suspect \ {d}
        /\ UNCHANGED <<ram, gone, hw>>
    BY <1>5 DEF HealFinish, speakers
  <2>2. Covers(d, Stored(d))
    BY <1>0, <1>5 DEF HealFinish, Sound, HealSound
  <2>3. Covers(d, Stored(d))'
    BY <2>1, <2>2 DEF Covers, Stored
  <2> QED BY <1>0, <2>1, <2>3, CoveredIsSound, OthersSound
<1> QED BY <1>1, <1>2, <1>3, <1>4, <1>5 DEF Heals

(***************************************************************************)
(* A boot loads what the RAM held before, unless a marker says otherwise   *)
(* or nothing can be loaded.                                               *)
(***************************************************************************)
LEMMA LoadSound ==
  ASSUME TypeOK, NEW f, NEW m, NEW g, Boot(f, m, g),
         NEW d \in Device, g \in [Device -> SUBSET Slot],
         f[d] \in Slots /\ d \notin m =>
           \A k \in Slot : hw[d][k] # Empty /\ f[d][k] = Empty => k \in g[d]
  PROVE  Sound(d)'
<1>0. NoEntry \notin Slots
  BY PresetStoreAssumption DEF Slots
<1>1. /\ ram'[d] = IF f[d] \in Slots THEN f[d] ELSE NoEntry
      /\ suspect' = m /\ hw' = hw /\ job'[d] = NoJob
      /\ gone'[d] = IF ram'[d] = NoEntry THEN g[d] ELSE g[d] \cap EmptyIn(ram'[d])
  BY DEF Boot, LoadFromNVS
<1>2. CASE f[d] \in Slots /\ d \notin m
  <2>1. Covers(d, Stored(d))'
    BY <1>0, <1>1, <1>2 DEF Covers, Stored, EmptyIn
  <2> QED BY <2>1, CoveredIsSound
<1>3. CASE f[d] \notin Slots
  BY <1>1, <1>3 DEF Sound, GapsKnown, HealSound, HasAny, Stored, NoJob
<1>4. CASE d \in m
  BY <1>1, <1>4 DEF Sound, GapsKnown, HealSound, NoJob
<1> QED BY <1>2, <1>3, <1>4

\* Boots leave every speaker sound.
LEMMA BootsSound ==
  ASSUME Tame, WipeInv, Boots PROVE AllSound'
<1>0. /\ TypeOK /\ AllSound /\ MarkerCovers /\ suspect \subseteq marker
      /\ gone \in [Device -> SUBSET Slot]
  BY DEF WipeInv, AllSound, StoreInv, SuspectMarked, TypeOK, StoreTypeOK
<1>1. NoSlice \notin Slots /\ Unreadable \notin Slots
  BY PresetStoreAssumption DEF Slots
<1>2. ASSUME NEW e \in Device, flash[e] \in Slots, e \notin marker
      PROVE  \A k \in Slot : hw[e][k] # Empty /\ flash[e][k] = Empty => k \in gone[e]
  <2>1. Stored(e) = flash[e] /\ e \notin suspect
    BY <1>0, <1>1, <1>2 DEF MarkerCovers
  <2>2. flash[e] # Blank
    BY <1>1, <1>2 DEF WipeInv, StoreInv, FlashNeverBlank
  <2> QED BY <1>0, <2>1, <2>2 DEF AllSound, Sound, GapsKnown, HasAny, Covers
<1>3. CASE Boot(flash, marker, gone)
  BY <1>0, <1>2, <1>3, LoadSound DEF AllSound
<1>4. ASSUME NEW d \in Device, NEW k \in Slot, NEW p \in Preset \cup {Empty}, MayEdit(d),
             LET s == [Stored(d) EXCEPT ![k] = p]
             IN Boot([flash EXCEPT ![d] = IF s = Blank THEN NoSlice ELSE s], marker,
                     GoneAfter(d, k, p))
      PROVE AllSound'
  <2> DEFINE s == [Stored(d) EXCEPT ![k] = p]
             f == [flash EXCEPT ![d] = IF s = Blank THEN NoSlice ELSE s]
             g == GoneAfter(d, k, p)
  <2>1. s \in Slots /\ Stored(d) \in Slots
    BY <1>0, StoredType, SlotsClosed DEF TypeOK
  <2>2. g \in [Device -> SUBSET Slot]
    BY <1>0 DEF GoneAfter
  <2>3. f[d] = IF s = Blank THEN NoSlice ELSE s
    BY <1>0 DEF TypeOK, StoreTypeOK
  <2>4. \A i \in Slot : hw[d][i] # Empty /\ s[i] = Empty => i \in g[d]
    <3>1. Covers(d, Stored(d))
      BY <1>0, <1>4, EditableIsCovered DEF AllSound
    <3>2. g[d] = IF p = Empty THEN gone[d] \cup {k} ELSE gone[d] \ {k}
      BY <1>0 DEF GoneAfter
    <3>3. \A i \in Slot : s[i] = IF i = k THEN p ELSE Stored(d)[i]
      BY <2>1 DEF Slots
    <3> HIDE DEF g, s
    <3> QED BY <3>1, <3>2, <3>3 DEF Covers
  <2>5. \A e \in Device \ {d} : f[e] = flash[e] /\ g[e] = gone[e]
    BY <1>0 DEF TypeOK, StoreTypeOK, GoneAfter
  <2>6. Boot(f, marker, g)
    BY <1>4
  <2> HIDE DEF f, g, s
  <2>7. Sound(d)'
    BY <1>0, <1>1, <2>2, <2>3, <2>4, <2>6, LoadSound
  <2>8. ASSUME NEW e \in Device \ {d} PROVE Sound(e)'
    BY <1>0, <1>2, <2>2, <2>5, <2>6, LoadSound
  <2> QED BY <2>7, <2>8 DEF AllSound
<1>5. ASSUME NEW d \in Device, NEW f \in {NoSlice, Unreadable},
             Boot([flash EXCEPT ![d] = f], marker, gone)
      PROVE AllSound'
  <2> DEFINE ff == [flash EXCEPT ![d] = f]
  <2>1. ff[d] \notin Slots /\ \A e \in Device \ {d} : ff[e] = flash[e]
    BY <1>0, <1>1 DEF TypeOK, StoreTypeOK
  <2>2. Boot(ff, marker, gone)
    BY <1>5
  <2> HIDE DEF ff
  <2>3. ASSUME NEW e \in Device PROVE Sound(e)'
    BY <1>0, <1>2, <2>1, <2>2, LoadSound
  <2> QED BY <2>3 DEF AllSound
<1>6. CASE Boot([d \in Device |-> NoSlice], {}, gone)
  <2> DEFINE f == [d \in Device |-> NoSlice]
  <2>1. \A e \in Device : f[e] \notin Slots
    BY <1>1
  <2>2. Boot(f, {}, gone)
    BY <1>6
  <2> HIDE DEF f
  <2>3. ASSUME NEW e \in Device PROVE Sound(e)'
    BY <1>0, <2>1, <2>2, LoadSound
  <2> QED BY <2>3 DEF AllSound
<1> QED BY <1>0, <1>3, <1>4, <1>5, <1>6, BootsCase

-----------------------------------------------------------------------------
(* The theorem.                                                             *)

\* Every step keeps the inductive invariant.
LEMMA WipeStep ==
  ASSUME Tame, WipeInv, [Next]_vars PROVE WipeInv'
<1>1. TypeOK' /\ StoreInv'
  BY TypeStep, StoreInvStep DEF WipeInv, Tame
<1>2. seen' = seen
  <2>1. CASE \E d \in Device : Edits(d)
    BY <2>1 DEF Edits, PutPreset, DeletePreset, RevertPresetToHw, ImportPresetsSet, SyncGroup,
         ImportFromDevice, RecordPress, RecordImport, speakers
  <2>2. CASE \E d \in Device : Moves(d) \/ Polls(d) \/ Heals(d)
    BY <2>2 DEF Moves, Migrate, AutoMigrate, MigrationEnds, LeavesCloud, Polls, AccountFull,
         AccountFullHeals, AccountPresets, DevicePresets, Adopts, StartHeal, Heals, HealFetch,
         HealFails, HealFill, HealStore, HealFinish, speakers
  <2>3. CASE Boots
    BY <2>3 DEF Boots, Reboot, PowerLossInSave, SliceDamaged, FreshErase, Boot
  <2>4. CASE AddressesMove \/ \E d \in Device, k \in Slot, p \in Preset : HwEdit(d, k, p)
    BY <2>4 DEF AddressesMove, HwEdit, Tame
  <2>5. CASE UNCHANGED vars
    BY <2>5 DEF vars
  <2> QED BY <2>1, <2>2, <2>3, <2>4, <2>5 DEF Next
<1>3. AllSound'
  <2>1. CASE AddressesMove \/ \E d \in Device, k \in Slot, p \in Preset : HwEdit(d, k, p)
    BY <2>1 DEF AddressesMove, HwEdit, Tame
  <2>2. CASE UNCHANGED vars
    BY <2>2, UntouchedIsSound DEF WipeInv, AllSound, vars, store
  <2> QED BY <2>1, <2>2, EditsSound, MovesSound, PollsSound, HealsSound, BootsSound DEF Next
<1> QED BY <1>1, <1>2, <1>3 DEF WipeInv, AllSound

\* The inductive invariant holds initially: the store is empty, no task runs.
LEMMA WipeInit == Init => WipeInv
<1>1. ASSUME Init, NEW d \in Device PROVE Sound(d)
  BY <1>1 DEF Init, StoreInit, Sound, GapsKnown, HealSound, HasAny, Stored, NoJob
<1> QED BY <1>1, TypeInit, StoreInvInit DEF Init, WipeInv

\* What the speakers hold changes only when one adopts its own list.
LEMMA AdoptsOwn ==
  ASSUME Tame, WipeInv, [Next]_vars, hw' # hw
  PROVE  \E e \in Device : Servable(e) /\ Adopts(e, Stored(e))
<1>1. \A e \in Device : ~Edits(e) /\ ~Moves(e) /\ ~Heals(e)
  BY DEF Edits, PutPreset, DeletePreset, RevertPresetToHw, ImportPresetsSet, SyncGroup,
       ImportFromDevice, RecordPress, RecordImport, Moves, Migrate, AutoMigrate,
       MigrationEnds, LeavesCloud, Heals, HealFetch, HealFails, HealFill, HealStore,
       HealFinish, speakers, Tame
<1>2. ~Boots /\ ~AddressesMove
  BY DEF Boots, Reboot, PowerLossInSave, SliceDamaged, FreshErase, Boot, AddressesMove
<1>3. ~\E e \in Device, i \in Slot, p \in Preset : HwEdit(e, i, p)
  BY DEF HwEdit, Tame
<1>4. PICK e \in Device : Polls(e)
  BY <1>1, <1>2, <1>3 DEF Next, vars
<1>5. ~\E f \in Device : StartHeal(f)
  BY DEF StartHeal, speakers
<1> QED BY <1>4, <1>5, PollsServe

(***************************************************************************)
(* No speaker ever loses a preset that its user did not remove, while      *)
(* saves may fail, slices may be damaged or lost, power may fail in a save *)
(* and the stick may be erased, for any number of speakers.                *)
(***************************************************************************)
THEOREM NoWipeTheorem ==
  ASSUME Tame PROVE Spec => NoWipe
<1>1. ASSUME WipeInv, [Next]_vars, NEW d \in Device, NEW k \in Slot,
             hw[d][k] # Empty, hw'[d][k] = Empty
      PROVE  k \in gone[d]
  <2>1. PICK e \in Device : Servable(e) /\ Adopts(e, Stored(e))
    BY <1>1, AdoptsOwn
  <2>2. e = d /\ hw'[d] = Stored(d)
    BY <1>1, <2>1 DEF Adopts, WipeInv, TypeOK
  <2> QED BY <1>1, <2>1, <2>2 DEF Servable, WipeInv, Sound, GapsKnown, Covers
<1>2. WipeInv /\ [Next]_vars =>
        [\A d \in Device, k \in Slot :
           hw[d][k] # Empty /\ hw'[d][k] = Empty => k \in gone[d]]_vars
  BY <1>1
<1> QED BY <1>2, WipeInit, WipeStep, PTL DEF Spec, NoWipe

\* A list that a speaker adopts is its own, whichever the others hold.
THEOREM OwnListTheorem ==
  ASSUME Tame PROVE Spec => OwnListOnly
<1>1. ASSUME WipeInv, [Next]_vars, NEW d \in Device, hw'[d] # hw[d]
      PROVE  hw'[d] \in {Stored(d), Rendered(d)}
  <2>1. PICK e \in Device : Adopts(e, Stored(e))
    BY <1>1, AdoptsOwn
  <2> QED BY <1>1, <2>1 DEF Adopts, WipeInv, TypeOK
<1>2. WipeInv /\ [Next]_vars =>
        [\A d \in Device : hw'[d] # hw[d] => hw'[d] \in {Stored(d), Rendered(d)}]_vars
  BY <1>1
<1> QED BY <1>2, WipeInit, WipeStep, PTL DEF Spec, OwnListOnly

\* When a heal task lifts the suspicion, the RAM covers the speaker.
THEOREM HealCoversTheorem ==
  ASSUME Tame PROVE Spec => HealCovers
<1>1. ASSUME WipeInv, NEW d \in Device, HealFinish(d), NEW k \in Slot, hw[d][k] # Empty
      PROVE  Stored(d)[k] # Empty \/ k \in gone[d]
  BY <1>1 DEF HealFinish, WipeInv, Sound, HealSound, Covers
<1>2. WipeInv /\ [Next]_vars =>
        [\A d \in Device :
           HealFinish(d) =>
             \A k \in Slot : hw[d][k] # Empty => Stored(d)[k] # Empty \/ k \in gone[d]]_vars
  BY <1>1
<1> QED BY <1>2, WipeInit, WipeStep, PTL DEF Spec, HealCovers

(***************************************************************************)
(* A migration that starts finds every preset of the speaker in the store, *)
(* unless the gap gate is closed for the speaker.                          *)
(***************************************************************************)
THEOREM MigrationTheorem ==
  ASSUME Tame PROVE Spec => MigrationCovered
<1>1. ASSUME WipeInv, [Next]_vars, NEW d \in Device, d \in migrating' \ migrating,
             d \notin suspect, NEW k \in Slot, hw[d][k] # Empty
      PROVE  Stored(d)'[k] # Empty \/ k \in gone[d]
  <2>1. Migrate(d) \/ AutoMigrate(d)
    <3>1. \A e \in Device : ~Edits(e) /\ ~Polls(e) /\ ~Heals(e)
      BY <1>1 DEF Edits, PutPreset, DeletePreset, RevertPresetToHw, ImportPresetsSet,
           SyncGroup, ImportFromDevice, RecordPress, RecordImport, Polls, AccountFull,
           AccountFullHeals, AccountPresets, DevicePresets, Adopts, StartHeal, Heals,
           HealFetch, HealFails, HealFill, HealStore, HealFinish, speakers
    <3>2. ~Boots /\ ~AddressesMove
      BY <1>1 DEF Boots, Reboot, PowerLossInSave, SliceDamaged, FreshErase, Boot, AddressesMove
    <3>3. ~\E e \in Device, i \in Slot, p \in Preset : HwEdit(e, i, p)
      BY DEF HwEdit, Tame
    <3>4. PICK e \in Device : Moves(e)
      BY <1>1, <3>1, <3>2, <3>3 DEF Next, vars
    <3> QED BY <1>1, <3>4 DEF Moves, Migrate, AutoMigrate, MigrationEnds, LeavesCloud
  <2>2. CASE HasAny(d) /\ UNCHANGED store
    <3>1. Covers(d, Stored(d)) /\ Stored(d)' = Stored(d)
      BY <1>1, <2>2 DEF WipeInv, Sound, GapsKnown, store, Stored
    <3> QED BY <1>1, <3>1 DEF Covers
  <2>3. ASSUME NEW list \in Reads(d), SetSlots(d, list)
        PROVE  Stored(d)'[k] # Empty
    <3>1. list = hw[d] /\ list \in Slots
      BY <1>1, ReadsAll, ReadsType DEF WipeInv
    <3>2. list # Blank
      BY <1>1, <3>1 DEF Blank
    <3>3. Overlay(Stored(d), list) \in Slots /\ Save({d}, Overlay(Stored(d), list))
      BY <1>1, <2>3, <3>1, <3>2, StoredType, SlotsClosed DEF SetSlots, WipeInv, TypeOK
    <3>4. Stored(d)' = Overlay(Stored(d), list)
      <4>1. StoreTypeOK /\ {d} \in SUBSET Device /\ d \in {d}
        BY <1>1 DEF WipeInv, TypeOK
      <4> QED BY <3>3, <4>1, SaveStored
    <3> QED BY <1>1, <3>1, <3>4 DEF Overlay
  <2>4. CASE \E list \in Reads(d) : SetSlots(d, list)
    BY <2>3, <2>4
  <2>5. (HasAny(d) /\ UNCHANGED store) \/ \E list \in Reads(d) : SetSlots(d, list)
    BY <2>1 DEF Migrate, AutoMigrate
  <2> QED BY <2>2, <2>4, <2>5
<1>2. WipeInv /\ [Next]_vars =>
        [\A d \in Device :
           d \in migrating' \ migrating /\ d \notin suspect =>
             \A k \in Slot : hw[d][k] # Empty => Stored(d)'[k] # Empty \/ k \in gone[d]]_vars
  BY <1>1
<1> QED BY <1>2, WipeInit, WipeStep, PTL DEF Spec, MigrationCovered
=============================================================================
