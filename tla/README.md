# A verification project for SixBack

SixBack is the firmware of a small ESP32 stick that replaces the manufacturer's
cloud for Bose SoundTouch speakers.  A speaker polls the cloud whose address it
stores; a stick *migrates* a speaker by writing its own address into it over
telnet, and from then on answers the speaker's polls, first of all with the list
of its six presets.  A speaker takes such a list literally: a slot the list lacks
is deleted on the speaker.  Most of the hard behaviour of the firmware follows
from that, from a flash partition of 24 KB that is easily full, and from an
address that the router may change at any time.

This directory holds TLA+ models of the parts with that behaviour, the TLC runs
that check them on small instances, and TLAPS proofs for all instances.  Paths
such as `preset_store.cpp:515` are relative to `src/src/`.

    tlc -config NvsAB_save.cfg MCNvsAB       # any run: <Module>_<question>.cfg
    tlapm NvsABProofs.tla                    # any module named *Proofs

## 1. The system

| Part | State it keeps | Operations | Hard behaviour |
|---|---|---|---|
| A/B blob store (`nvs_helper.cpp`) | per key two blobs, two generations, a legacy string | load, save with two repeats, erase | every flash operation may fail or be the last before power is lost |
| Preset store (`preset_store.cpp`) | presets in RAM, a slice per speaker and a gap marker in flash, two lists of suspicion | set, set many, clear, sync to a group, load at boot | a save that fails leaves a slice that looks as if the user had deleted presets |
| Preset API (`api_endpoints.cpp`) | none of its own; background tasks | edit, import, migrate, record | reads a speaker over HTTP, then acts on what it read |
| Cloud endpoints (`bose_endpoints.cpp`) | the heal tasks in flight; groups | polls of `account/full` and of preset lists | must never answer 200 with less than the speaker has |
| IP failsafe (`ip_failsafe.cpp`) | `last_ip` in flash, armed flag, retries | event, tick, check | speakers that are off, a second change during the first, reboots |
| Telnet migration (`speaker_telnet.cpp`) | none | migrate, revert | may fail having set the address |
| Speaker inventory (`speaker_inventory.cpp`) | speakers, `ownedByUs` | discover, refresh, order | takes a snapshot, probes for seconds without the lock, merges |
| Auto mode (`auto_mode.cpp`) | configuration, status | passes over the speakers | competes with the user, the failsafe and other sticks |
| Push queue (`api_endpoints.cpp`) | 16 jobs, each with a copy of a preset | enqueue, push, retry | jobs that are older than what the store now holds |
| Import back-off (`api_endpoints.cpp`) | blocked speakers, two counters | block an import that failed to save | saves of other tasks between fetch and block |
| Group store (`bose_endpoints.cpp`) | stereo pairs in RAM and flash | create, update, delete | RAM and flash differ after a failed save |
| Legacy migrations (`nvs_helper.cpp`, `preset_store.cpp`, `speaker_inventory.cpp`) | old and new entries in flash | at boot | cut off by power, half of the copies failed |
| WiFi provisioning, portal | stage, windows, an attempt to connect | Improv, portal, save, restarts | two tasks, six windows that may close in any order |
| OTA update (`ota_pull.cpp`) | status, one update session, slots | check, install, upload | two pulls and an upload share one session |
| Health (`system_health.cpp`, `mono_clock.h`) | a clock of plausible steps, two counters | tick | `millis()` jumps and wraps |
| Button watcher (`gabbo_watcher.cpp`) | per speaker a key to repair, a rescue, budgets | frames, deadlines, `/select` | frames, deadlines and reconnects in any order |
| Spotify (`spotify_player.cpp`) | login and tokens in RAM and flash | login, refresh by two tasks | the lock is free while the server is asked |
| UI password (`ui_auth.cpp`) | flash, live middleware, a pending flag | set, reset, apply | two tasks and no lock |
| Router and bodies (`web_router.cpp`, `event_store.cpp`) | path captures, chunks | match, chunk, handle | chunks of several connections interleave |
| Flight recorder (`systimer_blackbox.cpp`) | ring, snapshot, a lock with a limit | sample, copy, dump | an interrupt, a task that copies and one that streams |
| Live cache (`api_endpoints.cpp`) | a few answers with an expiry | look up, replace | the clock wraps |
| Zones, TuneIn, DLNA, diagnostics, web pages | see `PROJECT.json` | | input and output |

How they interact.  The web server and the cloud server run their handlers in
one task; migrations, imports, heals, refreshes and checks run in tasks of their
own.  The preset store and the inventory each have a recursive lock, which covers
single calls and never a network request.  The preset store persists through the
A/B blob store: one key per speaker.  The cloud endpoints ask the preset store
whether a speaker's list may be served; if not they answer 404, which a speaker
takes for a cloud that is down, and start a heal task, which reads the speaker
and fills the store through the same mutators the API uses.  The failsafe, the
migrations, the auto mode and the refresh share the inventory's `ownedByUs`.

What correct means:

* **A/B store** - the document saved last survives every failure and power loss;
  a save that reports success is what a reboot loads.
* **Presets** - the cloud never makes a speaker delete a preset its user has not
  removed; a slice with gaps is known to have them; a gate opens again.
* **Failsafe and ownership** - a speaker that polls a dead address of this stick
  is being dealt with until it follows, is taken elsewhere or is given up.
* **Stored data** - no migration, failed save or power cut loses a speaker or its
  presets, or brings an older state back; a login is lost only where the code
  lets go of it (`LoginKept` names the cases).
* **Updates and provisioning** - what boots next is one image; the stick
  gets into a network or restarts, and never cuts off an attempt.
* **Inventory** - a search with a scan lists every speaker that answers; searches
  end; every speaker that can be migrated has its turn.
* **Watchers** - a repair selects one station, for a user who wants the radio; the
  watchdog restarts the stick for a trouble that lasted, and for no other reason.
* **Web** - a handler sees its own request; the password in force is the one in
  flash; dumps and cached answers are of one moment, and recent.

## 2. Modules

| Module | Models | Composed of |
|---|---|---|
| `AtomicCell` | the promise of the A/B store: a cell replaced as a whole | |
| `NvsAB` | save, load and erase of one key, flash operation by flash operation | implements `AtomicCell` |
| `NvsABProofs` | the theorems about `NvsAB` | |
| `PresetStore` | the preset store, with slices that are saved or not | what `AtomicCell` promises |
| `PresetSync` | API, imports, migrations, polls, heals, boots | extends `PresetStore` |
| `PresetProofs` | the theorems about its types, the gap marker and what the speakers are served | |
| `IpFailsafe` | failsafe, migrations, auto mode's push, refresh | |
| `IpFailsafeProofs` | the theorems about `IpFailsafe` | |
| `Provisioning` | WiFi credentials, Improv, portal | |
| `OtaPull` | check, install, upload, the update session | |
| `Health` | the watchdog on a clock that jumps | |
| `UiAuth` | the password of the web interface | |
| `LegacyMigration` | namespace and preset blob, at boot | |
| `Gabbo` | repair of keys and rescue of streams, one connection | |
| `WebRequests` | path captures and bodies from chunks | |
| `Spotify` | login, token and its refresh | |
| `Groups` | the store of stereo pairs | |
| `PresetPush` | the queue that puts presets on the speaker's keys | |
| `ImportBackoff` | blocked imports | |
| `Inventory` | the list of speakers in flash | |
| `Directory` | the list of speakers against their addresses | |
| `Discovery` | who searches, and the passes of the auto mode | |
| `Blackbox` | the flight recorder | |
| `LiveCache` | the cache of live answers | |
| `StoredDataProofs` | theorems about groups, migrations, inventory | extends the three |
| `SpeakerProofs` | theorems about Spotify, the watcher, the push queue, the list of speakers | extends the four |
| `DeviceProofs` | theorems about update, health, provisioning | extends the three |
| `WebUiProofs` | theorems about password, bodies, back-off, cache, dumps | extends the five |
| `StickProofs` | theorems about searches, and about `MCStick` as a whole | extends `MCStick` and the four modules of proofs |
| `MCNvsAB`, `MCPresetSync`, `MCIpFailsafe` | constants and environments for TLC | |
| `MCStick` | the other sixteen components for TLC, side by side | extends them |

### NvsAB: one key of the blob store

`blob` and `gen` are the four flash entries of a base key, `legacy` the string
entry of old firmware that a load falls back to.  `pc` names the next flash
operation of the running call, so that `PowerLoss` may fall between any two; the
other variables of a call (`op`, `attempt`, `tgt`, `newGen`) are the locals of
`nvsSaveJsonAB_` and of the loop of three tries in `nvsSaveJsonWithCleanup`.
`Durable` is what `nvsLoadJson` would return.  `settled` and `result` are history:
what the last call left, and what it said.  A document is a value; packing and
JSON are not modelled, and equal documents have equal bytes.  `Bad` is a blob that
exists and cannot be read.

`Faults` says what the flash may do:

| Fault | Meaning |
|---|---|
| (always) | a write or the write of a generation is refused; a read-back fails |
| `unreadable` | a write that breaks off, or is misreported as done, leaves a `Bad` blob |
| `noremove` | removing an entry fails, which the code ignores |
| `cutSave`, `cutErase` | power is lost inside a save, inside an erase |
| `erase` | not a fault: the owner of the key may delete it |

### PresetStore and PresetSync: presets

`ram`, `flash`, `marker`, `suspect` and `failed` are `speakers_`, the slices, the
gap markers `<id>!`, `gapSuspectIds_` and `loadFailedIds_`.  A slot is a preset or
`Empty`; a preset is a model value.  `Save` is `saveSpeakerToNVS_`: it may
fail (`nofit`: the partition is full, or the heap too small for the document) and
then sets the marker; success lifts both suspicions.  Slices are replaced as a
whole or not at all: that is `AtomicCell`, which the A/B store implements.

`hw` is what the speaker holds and `ours` whether it polls this stick.  A poll is
one action: gate, rendering and the speaker's adoption of the answer (`Adopts`).
A heal task is four (`HealFetch`, `HealFill`, `HealStore`, `HealFinish`), because
the code holds no lock from one to the next.  `gone` is history: slots the user
emptied, so that the deletion of such a slot on the speaker is what was asked for.
`seen` is what the inventory would answer if asked for the address of a speaker;
all speakers share one account, the case for which the block order matters.

`Reads` is an import: the presets of the speaker, less those `normalizePreset`
gives up (`abandon`).  `MayEdit` stands for the web UI, which imports a speaker
when it first shows it; the firmware itself does not insist.

`Env` names what else may happen, and with it the assumptions of the runs:

| Option | Event | If it is added to the environment of ... |
|---|---|---|
| `nofit` | a slice is not saved | (in `speaker`, `events`) |
| `corrupt` | a slice is found unreadable, or dropped, at a boot | (in `speaker`, `fleet`, `events`) |
| `nomarker` | the marker does not fit either | `MarkerCovers` and `NoWipe` fail, as preset_store.cpp:107-109 admits |
| `editGated` | the user edits a speaker while it is gated | `NoWipe` fails: run `PresetSync_edit` |
| `editEarly` | the user edits a speaker that was never imported | `NoWipe` fails: the store looks seeded |
| `abandon` | a preset of a speaker cannot be normalised | `HealCovers` fails (bose_endpoints.cpp:241) |
| `hwEdit` | presets are stored at a speaker of another cloud | `MigrationCovered` fails (api_endpoints.cpp:782 imports into an empty store only) |
| `record` | a media-server preset is recorded at the speaker | `NoWipe` fails: a poll between the long press and the import |
| `ipMoved` | addresses change behind the inventory's back | `OwnListOnly` fails (bose_endpoints.cpp:487) |
| `Skipped` not empty | presets of a media server that is not cached | `NoWipe` fails (bose_endpoints.cpp:323) |

### IpFailsafe: following the stick

Addresses are numbers, 1 first; a cloud is an address of this stick, `Peer`
(another living stick) or `Bose`.  `check` is the one run of `ipFailsafeCheck`
with the address and the speakers it snapshotted; speakers are handled in any
order.  `armed`, `retryPending`, `retriesLeft` and `lastIp` are the variables of
the file.  A migration job carries the address of its request (`job[d].to`), and
the refresh the address and the probes of its start (`pass`): both are acted upon
later.  `abandoned` is history: speakers the check gave up.

`listed`, chosen at the start, are the speakers of a model and a firmware the auto mode knows
(auto_mode.cpp:226-236): the others it claims only while they count as owned.

`Env` again: `return` (the router hands out an address the stick had before),
`overlap` (a migration or a refresh runs across an address change), `takeover`
(someone else points a speaker elsewhere), `noreply` (after its reboot a speaker
cannot be read out, and the auto mode believes the push).  `StaleHandled` needs
the first two excluded.  With `return` the stick moves from A to B, one speaker
follows, one is off, the stick gets A back, and `prev == now` (ip_failsafe.cpp:105)
leaves the speaker on B alone; with `overlap` a job queued before the change pushes
the dead address after the check (api_endpoints.cpp:733).

### Stored data: LegacyMigration, Inventory, Groups, ImportBackoff

`LegacyMigration` is the boot: `boot` says how far it is, `oldNs` and `newNs` hold
the entries of the two namespaces, `blob` and `slice` the presets.  Copies and
writes fail one by one (`failed`), and power may go at any step, between two copies
too.  A boot that ends with a part of the copies is fatal, because the next one takes the
part for the whole and erases the original (nvs_helper.cpp:673-682): `BackupKept` fails.
`cutShort` remembers such a boot, and `EntriesSurvive` says that nothing else loses an
entry.  `pressed` is history too: phase B erased the blob under pressure, before its slices
existed.

`Inventory` is the save of the list and its migration, `at` being the step the
holder of the lock is in: retracting slices, writing them beside or instead of the
blob, sweeping those of removed speakers.  A slice waits in `unwritten` when the
room of the blob is needed.  `may` is history: for each speaker the states a boot
may find, the last saved one and those of changes whose save failed since.
`Estimates` chooses whether `migrationFits_` is right; when it is wrong nothing is promised.

`Groups` has RAM (`groups`, `nextId`) and flash (`stored`), and `holds`: the id a
speaker remembers, with which it later updates or deletes a group.  `GroupEnvs`:
`unsaved` (saves fail: after a restart ids are given out twice and `OwnGroup`
fails), `reroled` (an update brings in the speaker of another group: it prunes
nothing, bose_endpoints.cpp:1399-1411, and `OnePair` fails), `outside` (a group is created with
a master that has no role in it, which the handler accepts).  A speaker is *in* a group as its
master or by a role; `Stale` compares what the code compares, which leaves out the old master
against the new roles, so that with `outside` a speaker can be in two groups
(`MembersReplaced` fails).  It never has a role in two: `OnePair`.

`ImportBackoff` is the list of blocked speakers with the store's counter of
successful saves; `wasted` counts each speaker's failed imports since the last of them.

### Speakers: Directory, Discovery, PresetPush, Gabbo

`Directory` has two views of the network: `lease` and `awake` say who answers
where, `known` what the list believes, with the status and the streak of failed
probes of each entry.  `search` is the task of a search with the snapshot it
works from (`todo`), `adding` the handler that adds a speaker by address meanwhile;
`Merged` is the merge under the lock.  `quiet` restricts the promise to searches
during which no address changed and nobody removed a speaker.

`Discovery` has the scan flag and who holds it (`searcher`), the task of the auto mode (`auto`),
and `passLeft`, the positions in the list that a pass has left, and its budget.  Speakers in
`Bad` fail to migrate or leave again; with as many of them as `max_per_boot` the last in the
list never get their turn (auto_mode.cpp:485), so `Bad` is assumed smaller.

`PresetPush` has the speaker's slots in the store, the queue of copies, the worker and its job,
and the speaker's keys; `agreed` is history: the keys that should hold what the store holds. 
All stations are of one source, which is all that the worker can tell a playing station by.  A
`/select` sets `asked`, and the speaker leaves what it plays at a later step of its own
(`SpeakerSwitches`).  `slow`, chosen at the start from `Slows`, says whether that may take
longer than the 1.5 s the worker waits before it looks: it then takes the station before for the
new one (`DeliveredAlways` fails).

`Gabbo` is one connection: `box` is the speaker, `wire` the frames it sent, `conn`
the `Conn` of the file, `post` the `/select` during which the watcher's task waits.  Deadlines
may pass at any time after they were set.  The user may stop the radio at any time; `wish` is
what the user wants: the radio on, off, or `stopped` if the music had not begun.  `Closings`
chooses whether the socket may close.  Two things leave a key waiting for its re-arm although the
user does not want it: a socket that closes (gabbo_watcher.cpp:541-553) and a stop before the
music began, which ends a rescue only (231-235 and 437-449; `StopRespected` fails).
`NotAgainstUser` excepts both.  A stop of the speaker that the firmware reports only as buffering
is the speaker's and not modelled.

### The stick: Provisioning, OtaPull, Health, UiAuth, Spotify

`Provisioning` is `setup()` with its windows: `stage` follows it, `link` and `dialling` are
the radio, `session` the blocking call of an Improv host, `save` the portal's state
of an attempt with its credentials.  Idle windows close while nobody uses them,
hard limits in any case.  `ProvEnv` could add `again`: an attempt started while
another runs or has succeeded; then `AttemptNotCutOff` fails, and no run has it.

`OtaPull` has the status, a program counter for each install task, and the one session of the
Update library: its target, its owner, whether only that one has written (`clean`).  `got` is
how much of the announced length a task has written: a download that ends with `most` of it,
nine tenths at least, is committed like a whole one, and its image is `short` (`CommittedWhole`
fails).  Whether the Update library then refuses the image is the library's: the model has both,
a refusal being the failure of the task.  `OtaEnvs`: `recheck` (a check during an install resets
the state and a second pull starts, ota_pull.cpp:484), `late` (a second install in the two
seconds before the restart), `upload`, `breakOff`. `CommittedClean` is promised without them and
with `late`.

`Health` adds the plausible steps of `millis()` to `mono` and keeps the two marks;
`down`, `low`, `lasted` are real times, which the code does not have.  `UiAuth` has
the flash, the live middleware, the flag, and a program counter for each of its two tasks;
with `Overlaps` a reset runs inside a step of the other task and the old password
may stay live.  `Spotify` has the login in RAM and flash, a `refresh` in progress
for each task, and the key the server accepts (`issued`).  Any save may fail, which nobody
notices (`unsaved`); the server may replace the key with an answer that cannot be used; the lock may
be missed.  `lost` remembers that the last key is in nobody's hands.  With `LoginOverlaps` the
answer of a refresh is stored over a login made meanwhile.

### The web: WebRequests, Blackbox, LiveCache

`WebRequests` has the one buffer of path captures (`params`) and the chunks of
each request; requests in `Events` are collected by their length, the others by
request.  A body is two chunks.  Events of equal length that arrive at once would mix.

`Blackbox` has the ring (a sample is its number), the snapshot, and three actors:
the interrupt, `loop()` (`service`) that copies row by row, and the dumps, which
send any number of rows per chunk.  `DumpEnvs`: `second` (two dumps, one of which
unlocks for both), `during` (a dump starts inside a copy), `slow` (a dump outlasts
the lock); with each `DumpCoherent` fails.

`LiveCache` has the entries with the age of their bodies and a clock that wraps once.

### MCStick

A behaviour of `MCStick` chooses a `focus` and runs that component; the others rest
in one initial state.  They share nothing but restarts, so their product would show
nothing more.  A part that rests satisfies its fairness trivially.

## 3. Runs

Passing runs, each complete within a minute or two:

| Run | Question | Bounds |
|---|---|---|
| `NvsAB_save` | Is the last document safe, and do two slots make an atomic cell, when writes fail, removals do nothing and power is lost inside saves? | 3 documents, generations to 4 |
| `NvsAB_faults` | With every fault at once, does "ok" mean saved? | 2 documents, generations to 3 |
| `PresetSync_speaker` | Do the gates, the marker, the heal and the migration guard protect one speaker, and does the gate open again? | 1 speaker, 2 slots, 2 presets |
| `PresetSync_events` | Does the marker cover unsaved slices whatever happens around the store? | 1 speaker, 2 slots, 1 preset |
| `IpFailsafe_one` | Is a stale speaker dealt with, and does it follow, when other clouds take speakers and the address changes during a retry? | 1 speaker, 3 addresses, 2 retries |
| `IpFailsafe_auto` | Does the auto mode reclaim what was given up, and does ownership settle? | 1 speaker, on the whitelist or off it, 2 addresses, no retry |
| `Stick_parts` | The safety of the sixteen other components, each with all its orders of events, failures and power cuts | below |
| `Stick_live` | Do provisioning, updates, the push queue and searches end, and has every speaker its turn? | below |

Why the bounds are enough.  Three documents distinguish the old, the new and a
leftover one; a key alternates between two slots, so four generations pass
through every arrangement of slots twice.  Two slots of a speaker are one that
is lost and one that makes the store look seeded.  Three addresses allow a second change before the
first is dealt with, and two retries a budget that is half used.  No retry in
`IpFailsafe_auto` is the case in which the failsafe gives up at once and all is
left to the auto mode.  What holds between several speakers (`OwnListOnly`, `NoWipe`,
`StaleHandled` and `AllFollowed` of a fleet) is left to the theorems, as are the
types of these first modules.

In `Stick_parts` and `Stick_live`: two networks of which one is right, and two serial ports, of
which one may be claimed while the other chatters.  Two install tasks and an upload are every
pair of writers of the one session.  A clock of 24 units with a limit of 5, steps up to 2, and
jumps of 8 and 18, a long step and one that looks like a step back.  Two credentials (plus none)
for a change that falls into another.  Two entries and two speakers in the migrations: one done,
one not.  Two slots, one with radio; two attempts, one rescue, one frame on the wire: every
budget is used up, and a frame may be on its way while a deadline passes. Three requests: two
events, whose lengths differ, and one with JSON.  Two accounts with three keys each.  Three
speakers form two pairs that share one.  Two keys, two stations and a queue of two, so that it
is full while a job is at the worker.  A ring of two rows with dumps of one or two per chunk,
and two readers.  Three keys for two entries of the cache; a clock of 8 with a window of 2.  Two
speakers on three addresses, so that one is free to move to; each may move, or fall asleep,
once.  Three speakers in the list, the first of which is bad, and a budget of two. 
`Stick_parts` has about two million states, `Stick_live` forty thousand.

Deadlock is not checked in the runs of `MCStick`: the bounded counters stop a behaviour.

Properties:

* `SpareIsDisposable` - when a try starts, the document a reboot would load is not
  in the slot the try clears.  `LastGoodKept` - no save, however it ends, leaves
  the key without a readable document.  `ImplementsCell` - refinement of
  `AtomicCell` with `durable <- Durable`.  `SaveOkMeansSaved` - see above.
* `NoWipe` - no poll empties a slot of a speaker that the user did not empty.
  `MarkerCovers` - a slice that differs from the RAM carries the marker.
  `HealCovers` - when a heal lifts the suspicion, the RAM has what the speaker
  has.  `MigrationCovered` - so does the store when a migration starts, unless the
  gap gate is closed.  `OwnListOnly` - a speaker adopts its own list.
  `GateOpens` - a gap does not gate a speaker for ever.
* `StaleHandled` - an owned speaker on a dead address is being dealt with, or
  given up.  `AllFollowed` - `last_ip` advances only past speakers that followed,
  were taken, or were given up.  `SpeakersFollow` - in a quiet network every owned
  speaker follows.  `OwnershipSettles`, `AutoModeReclaims` - with the auto mode,
  ownership comes to agree with what the speakers poll, and no speaker that is owned or of
  a known model stays on a dead address.  One of another model may: a refresh that merges an old
  probe can release it, and then the auto mode leaves it alone.

* Stored data: `EntriesSurvive` - no entry is lost before a boot has ended with a part
  of the copies.  `PresetsSurvive` - no boot, wherever it is cut off, loses a
  speaker's presets.  `SpeakersKept` - a boot lists what the last
  save that reached a speaker left, or a later change.  `OnePair` - a speaker has a role in
  one group.  `OwnGroup` - the id a speaker holds is not the id of a group of
  others.  `OneAccount`, `LoginKept` - name, access token and refresh token belong together, and
  RAM has the token the server accepts, the flash from the next save that succeeds, until it is
  lost with an answer, by the lock, or to power.  `OneWastedImport` - a full
  flash costs one failed import per speaker.
* Speakers: `ScanFindsAll` - after a search with a scan everybody who answers is
  listed at its address.  `Delivered` - once the queue is empty the keys hold what
  the user sent last, if the speaker switches in time.  `OneRepair` - two repairs are never in progress together.
  `NotAgainstUser` - no station is selected for a user who switched it off, with the two
  exceptions of `Gabbo`.
  `ScanEnds`, `EverybodysTurn`, `QueueDrains`.
* The stick: `CommittedClean` - what boots is the image of one writer, nine tenths of it at least.  `InstallEnds`.
  `AttemptNotCutOff` - no window closes over an attempt.  `NeverDark` - the stick
  gets into a network or restarts.  `RestartJustified`, `RestartTimely` - the
  watchdog restarts for a trouble that lasted, and then at once.  `LiveFollowsFlash` - when both
  tasks rest, the password asked for is the one in flash.
* The web: `BodiesWhole` - a handler gets its own body.  `DumpCoherent` - a dump is of one
  snapshot.  `FreshAnswers` - no cached answer is older than the window.
* `TypesOK` - the variables of all sixteen stay in their ranges.

Runs that show a disagreement between the code and what it says of itself:

| Run | Property | What happens |
|---|---|---|
| `PresetSync_edit` | `NoWipe` | After a boot with a gap the user edits one slot.  The save succeeds and lifts the suspicion (preset_store.cpp:515) before the heal has filled the other slot. |
| `PresetSync_race` | `EditKept` | The heal determines the empty slots and stores its list later (api_endpoints.cpp:1410-1422); what the user put into a slot in between is overwritten. |
| `Stick_params` | `OwnPath` | Between the header of a request and the last chunk of its body another connection's request is matched; the handler reads the path captures of that one (web_router.cpp:115), which web_router.cpp:7-10 rules out. |
| `Stick_scan` | `SkipJustified` | The first search of the auto mode after a boot asks a listed speaker that does not answer; the debounce keeps its status from the flash, and the scan that would find it is left out (speaker_inventory.cpp:1120-1130). |

Five more statements of comments in the code fail, and no run is spent on them; each is a
definition of its module, and TLC finds its counterexample when `Stick_parts.cfg` names it.  The
properties of the passing runs say what holds instead.

| Definition | What happens | What holds |
|---|---|---|
| `BackupKept` (`LegacyMigration`) | One entry is copied, then a copy fails or power is lost.  The next boot finds the new namespace not empty and erases the old one (nvs_helper.cpp:673-682), the backup "falls ... der naechste Boot retry will". | `EntriesSurvive` |
| `CommittedWhole` (`OtaPull`) | The firmware's download breaks off after nine tenths; `Update.end(true)` commits what there is (ota_pull.cpp:397-406). | `CommittedClean` |
| `MembersReplaced` (`Groups`) | A group is created whose master has no role in it, then a pair that gives this speaker a role: the old group stays (bose_endpoints.cpp:1366-1375). | `OnePair` |
| `DeliveredAlways` (`PresetPush`) | A speaker plays one station and is told to play another; 1.5 s later it still plays the first, which satisfies the wait (api_endpoints.cpp:1547-1557), and the long press stores it. | `Delivered` |
| `StopRespected` (`Gabbo`) | A key is pressed and waits for its re-arm, the user stops the speaker, and the deadline selects the station (gabbo_watcher.cpp:583-588). | `NotAgainstUser` |

The A/B store has two weaknesses that no run is spent on.  With `unreadable`, a torn
blob without a generation counts as generation 1 (nvs_helper.cpp:395), so the
repeated save clears the slot of the only good copy and `LastGoodKept` fails.  With
`erase`, `cutSave` and `cutErase` together, power losses can leave a generation without its
blob, or both blobs, and `SpareIsDisposable` fails.  The theorems below exclude
exactly these combinations.

### Fairness

`PresetSync`: a speaker polls `account/full` every 30 to 60 seconds
(bose_endpoints.cpp:226-230), hence weak fairness of `AccountFullHeals`; the steps
of a heal task run, hence weak fairness of each; a speaker that is asked again and
again answers in the end, hence strong fairness of `HealFetch`, which a
failed attempt (`HealFails`) disables.  `GateOpens` further assumes that reboots
stop.  Nothing is assumed of the user or of saves, which may fail for ever.

`IpFailsafe`: the loop ticks and the tasks run (weak fairness of `Tick`, `Check`
and the steps of jobs and refresh).  A refresh starts by itself only in the auto
mode's cron, so `RefreshStart` is fair only with `AutoMode`; likewise `AutoPick`.
The properties assume `Undisturbed`: the WiFi and the speakers stay up, the address
stays, and nobody starts a migration or takes a speaker from some time on.

`Provisioning` (`ProvFairness`): the task of `setup()` and the portal's hard limit
proceed (weak fairness), and a limit that is over is seen by the first tick after
the attempts that hold it up, however many there are (strong fairness of
`ImprovWall`, `PortalCapped`, `PortalEnds`, which a blocking attempt disables).
Nothing is assumed of the user, of chatter on the ports or of the router.
`OtaPull`: every install task runs, because each of its waits has a limit; a link
may drip for ever.  `PresetPush`: the worker runs, its waits on the speaker having
limits.  `Discovery`: whoever searches, and the task of the auto mode, runs; the switch and
the WiFi may change for ever, which `EverybodysTurn` excepts.

## 4. Proofs

TLAPS proves these for every value of the constants that satisfies the ASSUMEs.

**`NvsABProofs`.**  Under `SafeFaults` - no write leaves an unreadable blob, and
either the key is never deleted or saves are not cut off and removals work -
`SpareTheorem`, `LastGoodTheorem` and `ImplementationTheorem`: the two slots
implement the atomic cell.  `SpareIsDisposable` is not inductive: it says nothing of the
middle of a save.  `IInv` adds what each `pc` guarantees (before the commit the
current document lies in the other slot than the target; after it in the target, with the higher
generation; after an erase nothing is left) and, for keys that are deleted, that
between two calls a document is stored once (`Checking` below `Sound`).  The
refinement maps the commit of a generation to the cell's change, and every other
flash operation to a stutter.  `TypeTheorem` and `SaveOkTheorem` hold under all
faults; the latter needs only that a verified target holds the document.

**`PresetProofs`.**  `TypeTheorem` in every environment, and `MarkerTheorem`: as
long as a marker can be written, `MarkerCovers` is invariant, for any number of
speakers, slots and presets and with every other event allowed.  `MarkerCovers` is
inductive together with types once it is stated per save (lemma by lemma for
`Save`, the mutators and the boot).

In the same module, `NoWipeTheorem`, `OwnListTheorem`, `HealCoversTheorem` and
`MigrationTheorem` hold under `Tame`: of the events above only failing saves
(`nofit`) and damaged slices (`corrupt`) happen, besides boots, power losses in a
save and fresh erases, which every run has; every preset can be rendered.  The
table in section 2 says what fails under the other options.
`NoWipe` speaks of a step that serves a list, so its invariant, `WipeInv`, must say what
the store knows beforehand.  A set of slots *covers* a speaker if it fills every slot that
the speaker fills and the user has not emptied.  `Sound` says of each speaker:
what is stored covers it if the gates would let it through (`GapsKnown`); a heal
task that has its list will cover it (`HealSound`).  One lemma shows that a
covered speaker is sound, one that an untouched one stays so; every action but the
heal task's then either covers the speaker or leaves it alone.  A boot needs
`StoreInv`: without a marker the slice is what the RAM held.

**`IpFailsafeProofs`.**  `TypeTheorem` in every environment; `StaleTheorem` and
`FollowedTheorem` under `Settled`: the router does not go back to an address, and no
migration or refresh spans a change of address.  Takeovers, reboots at any point, speakers that are off and a WiFi that comes and
goes are allowed, as is the auto mode.  The invariant `StaleInv` says that addresses only grow from
`last_ip` over the check's to the one held now (`Order`), that migrations and
refreshes work for the current address (`JobsCurrent`, `PassCurrent`), that a running check
has every stale speaker on its lists or another check is armed (`RunKnown`),
that an address dealt with leaves only abandoned speakers behind (`LastDone`), and
that one not yet dealt with has a check due (`Watched`).

**`StoredDataProofs`.**  `OnePairTheorem`: the groups in RAM and those in flash are each
disjoint in their roles (`Apart`), since a restart takes the ones in flash, which may be older, and a new pair prunes the
groups it overlaps.  `OwnGroupTheorem` adds, for the environment in which saves
succeed, that flash and RAM agree, that every number a speaker remembers is below the next one to be given out,
and that the group of that number, if there is one, has the speaker (`Told`).
`EntriesTheorem`: as long as no boot has ended with a part of the copies, the old namespace is whole until
the copy is done, and the new one is whole afterwards (`EntriesInv`).  `PresetsTheorem`: the memory holds all presets from the load on, and the blob goes only when every
slice is there.  `SpeakersTheorem`: for each step of a save, what a boot would load
(`Loaded`) is among what it may find (`may`), which needs how far the step has come
with the slices (`Progress`) and that a slice never differs from a blob beside it (`Agree`);
the migration, the saves and the power cuts are a lemma each.

**`SpeakerProofs`.**  `OneAccountTheorem` and `LoginTheorem` under
`~LoginOverlaps`.  `Login` is what the stick goes by: the login in RAM, or before it is loaded
the one in flash; the two are equal unless the last save failed (`OneLogin`).  A refresh works for
the account that is logged in (`RefreshOwn`), a request carries the key of the login or an older
one (`PostKeys`), and either the login has the key the server accepts, or exactly one task is
about to store it, or it is lost (`KeyKept`): the server accepts each key once, so of two tasks
that ask with the same key only one gets a new one.  What loses it: an answer that cannot be
used, a lock that is missed, and a restart between the server's answer and the next save that
succeeds.

`OneRepairTheorem` and `NotAgainstUserTheorem`, for any keys, attempts and rescues and a wire of
any length.  What the watcher may do depends on frames it has not read: `GabboInv` says, of a
connection that is up, that the frames on the wire end in one against the radio when the user
does not want it (`WireEnds`); that on a connection that never closes by itself no key of the
radio waits once the frames on the wire are noted, if the user ended the music or chose
something else, or the radio plays (`KeysSettled`), for which the frames are read in the order
they were sent; that a key that waits, a rescue and a `/select` in flight exclude each other
(`RepairApart`); and that for a user who does not want the radio, with no news of it on its way,
no rescue is staged (`Unbothered`).  `OneRepair` needs `RepairApart` alone, `NotAgainstUser` all
of it, and says nothing of the two cases in which the code does select: a key whose repair
outlives its connection, and a stop before the music began.

`DeliveredTheorem`, for a queue of any depth.  `PushInv` says of every key that the user was
promised that the last job for it in the queue carries the station of its slot, and that without
a job in the queue the key has it already or gets it from the worker (`Promised`), which knows
that the speaker has switched when it presses the key (`Switched`); of a slow speaker nothing is
promised.  Jobs for a key that was edited again are therefore harmless: they are not the last.

`ScanTheorem`.  The search works from a snapshot of the list, and a speaker may be added by
address meanwhile, so what is listed at its end is known only through what it has covered so
far: each speaker that answers is listed at its address, is going to be asked there, or is going
to be met by the scan (`Covered`), as long as nothing has disturbed the search (`quiet`).  That
the list names no speaker twice (`DirTypes`) makes "its" entry a function, and a removal takes
one position out of a sequence, which shifts the others; a lemma says what such a sequence
holds.

**`DeviceProofs`.**  `CommittedTheorem` in the environments `{}` and `{"late"}`.  `CommittedClean`
speaks of the slot; its invariant must say who may write into it: at most one task
is active (`OneInstall`), none during an upload (`UploadAlone`), the session
belongs to the one who is writing (`SessionOwned`, `UploadSession`), and once the spare
slot is chosen somebody is about to restart, so that a late install gets no further than the
file system (`SpareWhole`).  What a writer commits who was alone is its image, whole or nine tenths of it
(`WrittenAlone`).

`JustifiedTheorem` and `TimelyTheorem`.  The watchdog's marks are readings of a clock that adds
up only plausible steps; the properties speak of real time.  `HealthInv` relates the two
(`Watch`): a mark never lies further behind the clock than the trouble has lasted, whatever
`millis()` does, and as long as it has not jumped at most one tick less.

`AttemptTheorem`.  That no window closes over an attempt rests on what the stage, the radio, the
portal's state and the blocking call of a host say of each other (`ProvTypes`), and on
`GraceSettled`: where no option lets an attempt start on top of another, nobody connects any
more in the grace period after which the portal closes.

**`WebUiProofs`.**  `LiveTheorem` (while a task is between two steps the change is
on its way: pending, or read and still current, or a reset will follow),
`BackoffTheorem` (who wasted an import is blocked, and the blocking in force, until the count of
saves moves on), `BodiesTheorem` (under `Distinct`: event bodies differ in length; then a buffer belongs
to one request), `FreshTheorem` (an entry's age and its time left add up to at most the
window, and until the clock wraps an expiry lies in the future only that far), `DumpTheorem`
(one dump at a time holds the lock, and while it does `loop()` rests).

**`StickProofs`.**  The specification of `MCStick` implies that of each of its sixteen components, since a
step of one is a stutter of the others (a lemma, `ComponentsHold`).  `TypesTheorem` combines with it
(`TypesOK`) the types of all sixteen.  The types are proved in every environment, also in those in which
a component's other promises end: two pulls and an upload that share the update session, a login inside a
refresh, a reset inside an apply, a dump that outlasts its lock.  Few of the type invariants are inductive
as they stand; each is proved from a stronger one (`UiAuthHeld`: what `loop()` is about to apply is
a configuration; `WebHeld`: a JSON request that has collected nothing has an empty buffer;
`SpotifyHeld`: a refresh that runs is of an account; `RingBounds`: a row is a sample the ring has
written; `FlagHeld`: the scan flag is set exactly while one worker searches, from which follows the number
of searchers).

Only model-checked: all liveness (`GateOpens`, `SpeakersFollow`, `AutoModeReclaims`,
`OwnershipSettles`, `NeverDark`, `InstallEnds`, `QueueDrains`, `ScanEnds`, `EverybodysTurn`),
which needs fairness and ENABLED and is out of the prover's reach.  Every invariant and every
action property of a passing run is a theorem, under the assumptions named above.

## 5. Not modelled

* A swap of presets between two speakers: two saves, between which power may be lost.
* The pairing that the web page starts (it talks to both speakers, then uses
  the group store), zones, and the display order of the inventory.
* Spotify's slots, their sync and the press worker; the rings of the event store;
  which connections get a place in the watcher's window.
* Two sticks that compete for a speaker: another stick is an address that takes a
  speaker, without a state of its own.
* Packing and JSON of stored documents, wording, layout and statistics.
* Input and output without state of its own: TuneIn, DLNA, keep-alive,
  diagnostics, workarounds for the platform, the web pages.

`PROJECT.json` lists each part with its reason, and under `hazards` what can go
wrong in the code at which line, with the properties that watch it.

There is no route that reverts a whole speaker: the revert branch of
`migrateRevertWorker_` (api_endpoints.cpp:747-758) is never taken, so a revert is
an event of the environment (`Takeover`).

## 6. Plan

Done: everything in section 2, each module with its run, and the theorems of section 4.  What a
next step would add, in this order: abstract specifications for the components that still have
none - the password as a cell that `loop()` follows, the scan flag as a lock, the push queue as
a register per key - with the step-by-step proof that the modules here implement them; the
environments of the theorems taken one option further where the code allows it (`Tame`,
`Settled`); then, in the models, the swap between two speakers as two saves in `PresetSync`, two
sticks as two instances of the auto mode, which replaces the single `Peer`, the pairing of the
web page above `Groups`, and the Spotify slots above `Spotify`.
