----------------------------- MODULE StickProofs -----------------------------
(***************************************************************************)
(* Proofs about who searches for speakers, and the types of the sixteen    *)
(* components together.                                                    *)
(***************************************************************************)
EXTENDS MCStick, SpeakerProofs, DeviceProofs, WebUiProofs

-----------------------------------------------------------------------------
(* Who searches, and the passes of the auto mode.                          *)

\* At a boot the auto mode waits for its delay, or sleeps when it is not to start with one.
DiscoveryStart == auto \in {"delay", "sleep"} /\ DiscoveryQuiet
DiscoverySpec == DiscoveryStart /\ [][DiscoveryNext]_discovery

\* Who searches, and nobody but its holder, has set the flag.
FlagHeld ==
  /\ scanRunning \in BOOLEAN /\ searcher \in [Workers -> {"idle", "sync", "scan", "refresh"}]
  /\ \A v, w \in Workers : searcher[v] # "idle" /\ searcher[w] # "idle" => v = w
  /\ scanRunning <=> \E w \in Workers : searcher[w] # "idle"

\* A pass is about speakers of the list.
PassHeld ==
  /\ auto \in {"delay", "deep", "pass", "sleep"} /\ migrated \subseteq Found
  /\ passLeft \in [of : SUBSET (1..Len(Order)), budget : 0..MaxPerBoot]

\* Who takes the flag finds nobody searching.
LEMMA FlagTaken ==
  ASSUME FlagHeld, NEW w \in Workers, NEW step \in {"sync", "scan", "refresh"}, TakesScan(w, step)
  PROVE  FlagHeld'
<1>1. CASE scanRunning /\ UNCHANGED <<scanRunning, searcher>>
    BY <1>1 DEF FlagHeld
<1>2. CASE ~scanRunning /\ scanRunning' = TRUE /\ searcher' = [searcher EXCEPT ![w] = step]
  <2>1. \A v \in Workers : searcher[v] = "idle"
      BY <1>2 DEF FlagHeld
  <2>2. searcher' \in [Workers -> {"idle", "sync", "scan", "refresh"}]
      BY <1>2 DEF FlagHeld
  <2>3. \A v \in Workers : searcher'[v] = IF v = w THEN step ELSE "idle"
      BY <1>2, <2>1 DEF FlagHeld
  <2> QED
      BY <1>2, <2>2, <2>3 DEF FlagHeld
<1> QED
    BY <1>1, <1>2 DEF TakesScan

\* Its holder leaves nobody searching.
LEMMA FlagReleased ==
  ASSUME FlagHeld, NEW w \in Workers, searcher[w] # "idle", Releases(w) PROVE FlagHeld'
<1>1. \A v \in Workers : searcher'[v] = "idle"
    BY DEF FlagHeld, Releases
<1>2. searcher' \in [Workers -> {"idle", "sync", "scan", "refresh"}]
    BY DEF FlagHeld, Releases
<1> QED
    BY <1>1, <1>2 DEF FlagHeld, Releases

\* Every step keeps the flag and its holder together.
LEMMA FlagStep == FlagHeld /\ [DiscoveryNext]_discovery => FlagHeld'
<1> SUFFICES ASSUME FlagHeld, [DiscoveryNext]_discovery PROVE FlagHeld'
    OBVIOUS
<1>1. CASE UNCHANGED <<scanRunning, searcher>>
    BY <1>1 DEF FlagHeld
<1>2. CASE UserDiscovers \/ UserRefreshes
    BY <1>2, FlagTaken DEF UserDiscovers, UserRefreshes, Workers
<1>3. ASSUME NEW w \in Workers, SyncPhaseEnds(w) PROVE FlagHeld'
  <2>1. CASE searcher' = [searcher EXCEPT ![w] = "scan"] /\ UNCHANGED scanRunning
    <3>1. searcher[w] = "sync"
        BY <1>3 DEF SyncPhaseEnds
    <3>2. \A v \in Workers : searcher'[v] # "idle" <=> searcher[v] # "idle"
        BY <2>1, <3>1 DEF FlagHeld
    <3>3. searcher' \in [Workers -> {"idle", "sync", "scan", "refresh"}]
        BY <2>1 DEF FlagHeld
    <3> QED
        BY <2>1, <3>2, <3>3 DEF FlagHeld
  <2>2. CASE Releases(w)
      BY <1>3, <2>2, FlagReleased DEF SyncPhaseEnds
  <2> QED
      BY <1>3, <2>1, <2>2 DEF SyncPhaseEnds
<1>4. ASSUME NEW w \in Workers, WorkEnds(w) PROVE FlagHeld'
    BY <1>4, FlagReleased DEF WorkEnds
<1>5. CASE BootPass
    BY <1>1, <1>5, FlagTaken DEF BootPass, Workers, FlagRests
<1>6. CASE DeepEnds \/ CronTick \/ Migrates \/ PassEnds \/ Switches \/ WifiChanges \/ LeavesStick
    BY <1>1, <1>6 DEF DeepEnds, CronTick, Migrates, PassEnds, Switches, WifiChanges, LeavesStick,
                      FlagRests
<1>7. CASE UNCHANGED discovery
    BY <1>1, <1>7 DEF discovery
<1> QED
    BY <1>2, <1>3, <1>4, <1>5, <1>6, <1>7 DEF DiscoveryNext, Works, AutoStep

\* Every step of the auto mode keeps to the list and to the budget.
LEMMA PassStep == PassHeld /\ [DiscoveryNext]_discovery => PassHeld'
<1> SUFFICES ASSUME PassHeld, [DiscoveryNext]_discovery PROVE PassHeld'
    OBVIOUS
<1>0. 0 \in 0..MaxPerBoot /\ MaxPerBoot \in 0..MaxPerBoot /\ \A i \in 1..Len(Order) : Order[i] \in Found
    BY DiscoveryAssumption DEF Found
<1> USE DEF PassHeld
<1>1. CASE UNCHANGED <<auto, migrated, passLeft>>
    BY <1>1
<1>2. CASE UserDiscovers \/ UserRefreshes \/ Works \/ Switches \/ WifiChanges
    BY <1>1, <1>2
       DEF UserDiscovers, UserRefreshes, Works, Switches, WifiChanges, AutoRests, SyncPhaseEnds, WorkEnds
<1>3. CASE BootPass
    BY <1>3 DEF BootPass
<1>4. CASE DeepEnds \/ CronTick
  <2>1. Starts /\ migrated' = migrated
      BY <1>4 DEF DeepEnds, CronTick
  <2>2. {i \in 1..Len(Order) : Eligible(Order[i])} \in SUBSET (1..Len(Order))
      OBVIOUS
  <2> QED
      BY <1>0, <2>1, <2>2, Zenon DEF Starts
<1>5. CASE Migrates
  <2>1. PICK i \in passLeft.of :
          /\ passLeft' = [of |-> passLeft.of \ {i}, budget |-> passLeft.budget - 1]
          /\ migrated' = migrated \cup {Order[i]} \/ migrated' = migrated
      BY <1>5 DEF Migrates
  <2>2. passLeft.budget - 1 \in 0..MaxPerBoot
      BY <1>5, DiscoveryAssumption DEF Migrates
  <2>3. passLeft' \in [of : SUBSET (1..Len(Order)), budget : 0..MaxPerBoot]
      BY <2>1, <2>2
  <2> QED
      BY <1>0, <1>5, <2>1, <2>3 DEF Migrates
<1>6. CASE PassEnds
    BY <1>0, <1>6 DEF PassEnds, NoPass
<1>7. CASE LeavesStick
    BY <1>7 DEF LeavesStick
<1>8. CASE UNCHANGED discovery
    BY <1>1, <1>8 DEF discovery
<1> QED
    BY <1>2, <1>3, <1>4, <1>5, <1>6, <1>7, <1>8 DEF DiscoveryNext, AutoStep

\* One worker searches while the flag is set, and none otherwise.
LEMMA OneSearcher ==
  FlagHeld => Cardinality({w \in Workers : searcher[w] # "idle"}) = (IF scanRunning THEN 1 ELSE 0)
<1> DEFINE S == {w \in Workers : searcher[w] # "idle"}
<1> SUFFICES ASSUME FlagHeld PROVE Cardinality(S) = (IF scanRunning THEN 1 ELSE 0)
    OBVIOUS
<1>1. CASE scanRunning
  <2>1. PICK w \in Workers : searcher[w] # "idle"
      BY <1>1 DEF FlagHeld
  <2>2. S = {w}
      BY <2>1 DEF FlagHeld
  <2> QED
      BY <1>1, <2>2, FS_Singleton
<1>2. CASE ~scanRunning
  <2>1. S = {}
      BY <1>2 DEF FlagHeld
  <2> QED
      BY <1>2, <2>1, FS_EmptySet
<1> QED
    BY <1>1, <1>2 DEF FlagHeld

\* The scan flag is set exactly as long as one worker searches, and a pass keeps to the list and
\* its budget (speaker_inventory.cpp:1136-1212, auto_mode.cpp:471-501).
THEOREM DiscoveryTypesTheorem == DiscoverySpec => []DiscoveryTypeOK
<1>1. DiscoveryStart => FlagHeld
    BY DEF DiscoveryStart, DiscoveryQuiet, FlagHeld
<1>2. DiscoveryStart => PassHeld
    BY DiscoveryAssumption DEF DiscoveryStart, DiscoveryQuiet, PassHeld, NoPass
<1>3. FlagHeld /\ PassHeld => DiscoveryTypeOK
  <2>1. FlagHeld => \A w \in Workers : searcher[w] \in {"idle", "sync", "scan", "refresh"}
      BY DEF FlagHeld
  <2>2. PassHeld => /\ auto \in {"delay", "deep", "pass", "sleep"}
                    /\ migrated \subseteq Found /\ passLeft.budget \in 0..MaxPerBoot
      BY DEF PassHeld
  <2> QED
      BY <2>1, <2>2, OneSearcher DEF DiscoveryTypeOK
<1> QED
    BY <1>1, <1>2, <1>3, FlagStep, PassStep, PTL DEF DiscoverySpec

-----------------------------------------------------------------------------
(* The components side by side.                                            *)

\* The sixteen, each by its own specification.
Components ==
  /\ ProvSpec /\ OtaSpec /\ HealthSpec /\ UiAuthSpec /\ LegacySpec /\ GabboSpec /\ WebSpec
  /\ SpotifySpec /\ GroupsSpec /\ PushSpec /\ BackoffSpec /\ InventorySpec /\ DiscoverySpec
  /\ BlackboxSpec /\ LiveCacheSpec /\ DirectorySpec

\* Every component starts in one of its initial states, running or resting.
LEMMA ComponentsStart ==
  Init => /\ ProvStart /\ OtaInit /\ HealthInit /\ UiAuthInit /\ LegacyInit /\ GabboInit /\ WebInit
          /\ SpotifyInit /\ GroupsInit /\ PushInit /\ BackoffInit /\ InventoryInit
          /\ DiscoveryStart /\ BlackboxInit /\ LiveCacheInit /\ DirectoryInit
<1>1. Init => ProvStart
    BY DEF Init, ProvStart
<1>2. Init => DiscoveryStart
    BY DEF Init, DiscoveryStart, DiscoveryInit
<1> QED
    BY <1>1, <1>2 DEF Init

\* A step of the stick is a step of one component, and the others stutter.
LEMMA ComponentsStep ==
  [Next]_stick =>
    /\ [ProvNext]_prov /\ [OtaNext]_ota /\ [HealthNext]_health /\ [UiAuthNext]_uiauth
    /\ [LegacyNext]_legacy /\ [GabboNext]_gabbo /\ [WebNext]_requests /\ [SpotifyNext]_spotify
    /\ [GroupsNext]_group /\ [PushNext]_push /\ [BackoffNext]_backoff
    /\ [InventoryNext]_inventory /\ [DiscoveryNext]_discovery /\ [BlackboxNext]_blackbox
    /\ [LiveCacheNext]_livecache /\ [DirectoryNext]_directory
<1>1. CASE UNCHANGED stick
    BY <1>1 DEF stick
<1>2. CASE Next
    BY <1>2 DEF Next, Others
<1> QED
    BY <1>1, <1>2

\* A behaviour of the stick is one of each component, moving or at rest.
LEMMA ComponentsHold == Spec => Components
BY ComponentsStart, ComponentsStep, PTL
   DEF Spec, Components, ProvSpec, OtaSpec, HealthSpec, UiAuthSpec, LegacySpec, GabboSpec, WebSpec,
       SpotifySpec, GroupsSpec, PushSpec, BackoffSpec, InventorySpec, DiscoverySpec, BlackboxSpec,
       LiveCacheSpec, DirectorySpec

\* Every variable of every component stays in its range, whatever the environments of the
\* components do (TypesOK).
THEOREM TypesTheorem == Spec => []TypesOK
BY ComponentsHold, ProvTypesTheorem, OtaTypesTheorem, HealthTypesTheorem, UiAuthTypesTheorem,
   LegacyTypesTheorem, GabboTypesTheorem, WebTypesTheorem, SpotifyTypesTheorem,
   GroupsTypesTheorem, PushTypesTheorem, BackoffTypesTheorem, InventoryTypesTheorem,
   DiscoveryTypesTheorem, BlackboxTypesTheorem, LiveCacheTypesTheorem, DirectoryTypesTheorem, PTL
   DEF Components, TypesOK
=============================================================================
