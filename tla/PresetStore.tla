---------------------------- MODULE PresetStore ----------------------------
(***************************************************************************)
(* The preset store (preset_store.cpp): the presets of every speaker in    *)
(* RAM, one flash slice per speaker, and the two kinds of suspicion that   *)
(* keep a damaged slice from being served.  A slice is replaced as a whole *)
(* or not at all: that is what the slots of module NvsAB provide.          *)
(***************************************************************************)
CONSTANTS
  Device, Slot, Preset,
  Empty,       \* a slot without a preset
  NoEntry,     \* the store has no entry for the speaker
  NoSlice,     \* flash has no slice for the speaker
  Unreadable,  \* flash has one that cannot be read
  Env          \* which of PossibleEnv the environment may do

PossibleEnv ==
  { "nofit",      \* a slice is not saved: flash is full, or no heap
    "nomarker",   \* the gap marker does not fit either
    "corrupt",    \* a slice is found unreadable, or dropped, at a boot
    "abandon",    \* a preset read from a speaker cannot be normalised
    "editGated",  \* the user edits a speaker whose slice is in doubt
    "editEarly",  \* the user edits a speaker before its first import
    "hwEdit",     \* presets are stored at a speaker of another cloud
    "record",     \* a media-server preset is recorded at the speaker
    "ipMoved" }   \* addresses change behind the inventory's back

ASSUME PresetStoreAssumption ==
  /\ Empty \notin Preset
  /\ NoEntry \notin [Slot -> Preset \cup {Empty}]
  /\ NoSlice \notin [Slot -> Preset \cup {Empty}]
  /\ Unreadable \notin [Slot -> Preset \cup {Empty}]
  /\ NoSlice # Unreadable
  /\ Env \subseteq PossibleEnv

VARIABLES
  ram,      \* speakers_: device -> NoEntry or its slots
  flash,    \* device -> NoSlice, Unreadable or the saved slots
  marker,   \* flash: devices with a gap marker
  suspect,  \* gapSuspectIds_
  failed,   \* loadFailedIds_
  gone      \* history: device -> slots the user has emptied

store == <<ram, flash, marker, suspect, failed, gone>>

Slots == [Slot -> Preset \cup {Empty}]
Blank == [k \in Slot |-> Empty]
EmptyIn(s) == {k \in Slot : s[k] = Empty}
Stored(d) == IF ram[d] = NoEntry THEN Blank ELSE ram[d]   \* getForSpeaker
HasAny(d) == Stored(d) # Blank
InDoubt(d) == d \in suspect \cup failed

\* Slots that other slots overlay where they hold a preset.
Overlay(s, list) == [k \in Slot |-> IF list[k] = Empty THEN s[k] ELSE list[k]]

(***************************************************************************)
(* saveSpeakerToNVS_ for every device of T, whose slots become s.  An      *)
(* empty slice is erased, which always fits; any other write may fail and  *)
(* then leaves the marker instead.  Success lifts both suspicions.         *)
(***************************************************************************)
Save(T, s) ==
  \E fails \in SUBSET T, unmarked \in SUBSET T :
    LET saved == T \ fails IN
    /\ fails # {} => "nofit" \in Env /\ s # Blank
    /\ unmarked \subseteq fails /\ (unmarked # {} => "nomarker" \in Env)
    /\ ram' = [d \in Device |-> IF d \in T THEN s ELSE ram[d]]
    /\ flash' = [d \in Device |-> IF d \notin saved THEN flash[d]
                                  ELSE IF s = Blank THEN NoSlice ELSE s]
    /\ marker' = (marker \ saved) \cup (fails \ unmarked)
    /\ suspect' = suspect \ saved
    /\ failed' = failed \ saved

\* The emptied slots once the user has put p into slot k.
GoneAfter(d, k, p) == [gone EXCEPT ![d] = IF p = Empty THEN @ \cup {k} ELSE @ \ {k}]

\* set(), and the single-slot part of clear().
SetSlot(d, k, p) ==
  /\ Save({d}, [Stored(d) EXCEPT ![k] = p])
  /\ gone' = GoneAfter(d, k, p)

\* Mutation of ClearSlot: no save.
ClearSlotUnsaved(d, k) ==
  /\ ram[d] # NoEntry
  /\ ram' = [ram EXCEPT ![d][k] = Empty]
  /\ gone' = GoneAfter(d, k, Empty)
  /\ UNCHANGED <<flash, marker, suspect, failed>>

ClearSlot(d, k) == ram[d] # NoEntry /\ SetSlot(d, k, Empty)

\* setSlots() with the presets found on a speaker; without any it does nothing.
SetSlots(d, list) ==
  IF list = Blank THEN UNCHANGED store
  ELSE /\ Save({d}, Overlay(Stored(d), list))
       /\ gone' = [gone EXCEPT ![d] = @ \cap EmptyIn(list)]

\* setSlots() with all slots given, and syncToGroup(): the user replaces them all.
ReplaceSlots(T, s) ==
  /\ Save(T, s)
  /\ gone' = [d \in Device |-> IF d \in T THEN EmptyIn(s) ELSE gone[d]]

SyncToGroup(src, T) == ram[src] # NoEntry /\ ReplaceSlots(T \ {src}, ram[src])

(***************************************************************************)
(* loadFromNVS at a boot that finds slices f and markers m, when the user  *)
(* had emptied the slots g.                                                *)
(***************************************************************************)
LoadFromNVS(f, m, g) ==
  LET loaded == [d \in Device |-> IF f[d] \in Slots THEN f[d] ELSE NoEntry] IN
  /\ flash' = f /\ marker' = m
  /\ ram' = loaded
  /\ suspect' = m
  /\ failed' = {d \in Device : f[d] = Unreadable}
  /\ gone' = [d \in Device |-> IF loaded[d] = NoEntry THEN g[d]
                               ELSE g[d] \cap EmptyIn(loaded[d])]

StoreInit ==
  /\ ram = [d \in Device |-> NoEntry]
  /\ flash = [d \in Device |-> NoSlice]
  /\ marker = {} /\ suspect = {} /\ failed = {}
  /\ gone = [d \in Device |-> {}]

StoreTypeOK ==
  /\ ram \in [Device -> Slots \cup {NoEntry}]
  /\ flash \in [Device -> Slots \cup {NoSlice, Unreadable}]
  /\ marker \subseteq Device /\ suspect \subseteq Device /\ failed \subseteq Device
  /\ gone \in [Device -> SUBSET Slot]
=============================================================================
