------------------------------ MODULE MCStick ------------------------------
(***************************************************************************)
(* The components of the stick that share only its restarts, each on its   *)
(* own: a behaviour runs one of them, chosen at the start, and the others  *)
(* rest.                                                                   *)
(***************************************************************************)
EXTENDS Provisioning, OtaPull, Health, UiAuth, LegacyMigration,
        Gabbo, WebRequests, Spotify,
        Groups, PresetPush, ImportBackoff, Inventory, Discovery, Blackbox,
        LiveCache, Directory, TLC

CONSTANTS Foci, n1, n2, s1, s2, r1, r2, r3, d1, d2, d3, u1, u2, l1, l2

VARIABLE focus

MCNothing == {}
MCOtaEnvs == {{}, {"late"}, {"recheck"}, {"upload"}, {"breakOff"}}
MCOtaCalm == {{}, {"late"}}
MCLeaps == {0, 8, 18}
MCSize == r1 :> 1 @@ r2 :> 2 @@ r3 :> 3
MCGroupEnvs == {{}, {"unsaved"}, {"reroled"}, {"outside"}}
MCOrder == <<d1, d2, d3>>
\* Speakers and addresses are alike, so one assignment of them stands for all.
MCLease == u1 :> l1 @@ u2 :> l2
MCDumpEnvs == {{}, {"second"}, {"during"}, {"slow"}}

stick ==
  <<prov, ota, health, uiauth, legacy, gabbo, requests, spotify,
    group, push, backoff, inventory, discovery, blackbox, livecache, directory,
    focus>>

\* A component that rests has one initial state, in which nothing is left to do for its tasks:
\* their fairness asks nothing of it.
Init ==
  /\ focus \in Foci
  /\ IF focus = "prov" THEN ProvInit ELSE stage = "up" /\ creds = NoNet /\ ProvFresh
  /\ OtaInit /\ (focus # "ota" => otaEnv = {})
  /\ HealthInit /\ (focus # "health" => mono = 1)
  /\ UiAuthInit
  /\ LegacyInit
  /\ GabboInit /\ (focus # "gabbo" => closes)
  /\ WebInit /\ SpotifyInit
  /\ GroupsInit /\ (focus # "groups" => groupEnv = {})
  /\ PushInit /\ (focus # "push" => ~slow) /\ BackoffInit
  /\ InventoryInit /\ (focus # "inventory" => exact /\ wholeList = NoBlob)
  /\ IF focus = "discovery" THEN DiscoveryInit ELSE auto = "sleep" /\ DiscoveryQuiet /\ ~enabled
  /\ BlackboxInit /\ (focus # "blackbox" => dumpEnv = {})
  /\ LiveCacheInit
  /\ lease = MCLease /\ DirectoryInit /\ (focus # "directory" => known = <<>>)

\* A step of one component leaves the others alone.
Others(f) ==
  /\ focus = f /\ UNCHANGED focus
  /\ f # "prov" => UNCHANGED prov
  /\ f # "ota" => UNCHANGED ota
  /\ f # "health" => UNCHANGED health
  /\ f # "uiauth" => UNCHANGED uiauth
  /\ f # "legacy" => UNCHANGED legacy
  /\ f # "gabbo" => UNCHANGED gabbo
  /\ f # "web" => UNCHANGED requests
  /\ f # "spotify" => UNCHANGED spotify
  /\ f # "groups" => UNCHANGED group
  /\ f # "push" => UNCHANGED push
  /\ f # "backoff" => UNCHANGED backoff
  /\ f # "inventory" => UNCHANGED inventory
  /\ f # "discovery" => UNCHANGED discovery
  /\ f # "blackbox" => UNCHANGED blackbox
  /\ f # "livecache" => UNCHANGED livecache
  /\ f # "directory" => UNCHANGED directory

Next ==
  \/ Others("prov") /\ ProvNext
  \/ Others("ota") /\ OtaNext
  \/ Others("health") /\ HealthNext
  \/ Others("uiauth") /\ UiAuthNext
  \/ Others("legacy") /\ LegacyNext
  \/ Others("gabbo") /\ GabboNext
  \/ Others("web") /\ WebNext
  \/ Others("spotify") /\ SpotifyNext
  \/ Others("groups") /\ GroupsNext
  \/ Others("push") /\ PushNext
  \/ Others("backoff") /\ BackoffNext
  \/ Others("inventory") /\ InventoryNext
  \/ Others("discovery") /\ DiscoveryNext
  \/ Others("blackbox") /\ BlackboxNext
  \/ Others("livecache") /\ LiveCacheNext
  \/ Others("directory") /\ DirectoryNext

Spec == Init /\ [][Next]_stick

LiveSpec == Spec /\ ProvFairness /\ OtaFairness /\ PushFairness /\ DiscoveryFairness

\* Every variable of every component stays in its range.
TypesOK ==
  /\ ProvTypeOK /\ OtaTypeOK /\ HealthTypeOK /\ UiAuthTypeOK /\ LegacyTypeOK
  /\ GabboTypeOK /\ WebTypeOK /\ SpotifyTypeOK
  /\ GroupsTypeOK /\ PushTypeOK /\ BackoffTypeOK /\ InventoryTypeOK /\ DiscoveryTypeOK
  /\ BlackboxTypeOK /\ LiveCacheTypeOK /\ DirectoryTypeOK
=============================================================================
