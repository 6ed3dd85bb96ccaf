----------------------------- MODULE Discovery -----------------------------
(***************************************************************************)
(* Who looks for speakers, and what the auto mode does with those found    *)
(* (speaker_inventory.cpp, auto_mode.cpp).  A scan of the user, a refresh  *)
(* of the user and the first pass of the auto mode share one flag; the     *)
(* later passes search without it.  A pass migrates the eligible speakers  *)
(* in the order of the list, a limited number of them.                     *)
(***************************************************************************)
EXTENDS Naturals, Sequences, FiniteSets

CONSTANTS Order,      \* the list of the inventory, a sequence of speakers
          Bad,        \* the speakers whose migration fails or does not last
          MaxPerBoot  \* max_per_boot

Found == {Order[i] : i \in 1..Len(Order)}

ASSUME DiscoveryAssumption ==
  /\ Order \in Seq(Found) /\ Bad \subseteq Found /\ MaxPerBoot \in Nat /\ Cardinality(Bad) < MaxPerBoot

VARIABLES
  scanRunning, \* scanRunning_
  searcher,      \* each user of the flag: "idle", "sync", "scan" or "refresh"
  auto,        \* the task of the auto mode: "delay", "deep", "pass", "sleep"
  enabled,     \* its switch, in flash
  online,
  migrated,    \* external: the speakers whose cloud is this stick
  passLeft     \* of a pass: the positions in the list of those to migrate, and its budget

discovery == <<scanRunning, searcher, auto, enabled, online, migrated, passLeft>>

Workers == {"user", "refresh", "auto"}
NoPass == [of |-> {}, budget |-> 0]

\* Nobody searches and no speaker is migrated.
DiscoveryQuiet ==
  /\ scanRunning = FALSE /\ searcher = [w \in Workers |-> "idle"]
  /\ enabled \in BOOLEAN /\ online = TRUE
  /\ migrated = {} /\ passLeft = NoPass

DiscoveryInit == auto = "delay" /\ DiscoveryQuiet

-----------------------------------------------------------------------------
(* discover() and refreshStatusesAsync()                                   *)

AutoRests == UNCHANGED <<auto, enabled, online, migrated, passLeft>>

\* compare_exchange: whoever comes second leaves at once.
TakesScan(w, step) ==
  \/ ~scanRunning /\ scanRunning' = TRUE /\ searcher' = [searcher EXCEPT ![w] = step]
  \/ scanRunning /\ UNCHANGED <<scanRunning, searcher>>

\* discoverWorker_, started by handleDiscover
UserDiscovers ==
  /\ searcher["user"] = "idle" /\ TakesScan("user", "sync") /\ AutoRests

\* Mutation of UserRefreshes: a refresh whose task cannot start leaves the flag.
UserRefreshesTaskless ==
  /\ searcher["refresh"] = "idle"
  /\ \/ TakesScan("refresh", "refresh")
     \/ ~scanRunning /\ scanRunning' = TRUE /\ UNCHANGED searcher
  /\ AutoRests

\* Without a task the handler does the work itself.
UserRefreshes ==
  /\ searcher["refresh"] = "idle" /\ TakesScan("refresh", "refresh") /\ AutoRests

Releases(w) == scanRunning' = FALSE /\ searcher' = [searcher EXCEPT ![w] = "idle"]

\* The known addresses and SSDP are done.  Only the auto mode may find that the active scan
\* is not worthwhile.  Where the scan runs, in a task or here, makes no difference.
SyncPhaseEnds(w) ==
  /\ searcher[w] = "sync"
  /\ \/ searcher' = [searcher EXCEPT ![w] = "scan"] /\ UNCHANGED scanRunning
     \/ w = "auto" /\ Releases(w)
  /\ AutoRests

\* activeScanTask_ and refreshStatusTask_
WorkEnds(w) == searcher[w] \in {"scan", "refresh"} /\ Releases(w) /\ AutoRests

-----------------------------------------------------------------------------
(* runMigrationPass_                                                       *)

FlagRests == UNCHANGED <<scanRunning, searcher>>

\* autoModeTask_ after the boot delay, with the switch as it is then
BootPass ==
  /\ auto = "delay"
  /\ \/ /\ enabled /\ online
        /\ auto' = "deep" /\ TakesScan("auto", "sync")
     \/ /\ ~(enabled /\ online)
        /\ auto' = "sleep" /\ FlagRests
  /\ UNCHANGED <<enabled, online, migrated, passLeft>>

\* Mutation of Eligible: a speaker that points to this stick is migrated again.
EligibleAgain(d) == d \in Found

\* isEligible_, without the clouds of others: IpFailsafe has them.
Eligible(d) == d \notin migrated

\* The speakers that are eligible now: what changes later in the pass is seen by the next one.
Starts ==
  /\ auto' = "pass"
  /\ passLeft' = [of |-> {i \in 1..Len(Order) : Eligible(Order[i])}, budget |-> MaxPerBoot]

\* The search ended, or it takes longer than a minute.  The auto mode's own sync phase is
\* part of its call.
DeepEnds ==
  /\ auto = "deep" /\ searcher["auto"] # "sync"
  /\ Starts
  /\ FlagRests /\ UNCHANGED <<enabled, online, migrated>>

CronTick ==
  /\ auto = "sleep" /\ enabled /\ online
  /\ Starts
  /\ FlagRests /\ UNCHANGED <<enabled, online, migrated>>

\* The loop goes through the list from its start.
IsNext(i) == i \in passLeft.of /\ \A j \in passLeft.of : i <= j

\* migrateOne_: a failure counts, too.
Migrates ==
  /\ auto = "pass" /\ passLeft.budget > 0
  /\ \E i \in passLeft.of :
       /\ IsNext(i)
       /\ passLeft' = [of |-> passLeft.of \ {i}, budget |-> passLeft.budget - 1]
       /\ \/ migrated' = migrated \cup {Order[i]}
          \/ Order[i] \in Bad /\ UNCHANGED migrated
  /\ FlagRests /\ UNCHANGED <<auto, enabled, online>>

PassEnds ==
  /\ auto = "pass" /\ (passLeft.of = {} \/ passLeft.budget = 0)
  /\ auto' = "sleep" /\ passLeft' = NoPass
  /\ FlagRests /\ UNCHANGED <<enabled, online, migrated>>

-----------------------------------------------------------------------------
(* The user and the network                                                *)

Switches ==
  /\ enabled' = ~enabled
  /\ FlagRests /\ UNCHANGED <<auto, online, migrated, passLeft>>

WifiChanges ==
  /\ online' = ~online
  /\ FlagRests /\ UNCHANGED <<auto, enabled, migrated, passLeft>>

\* The user or another stick points the speaker elsewhere.
LeavesStick ==
  /\ \E d \in migrated \cap Bad : migrated' = migrated \ {d}
  /\ FlagRests /\ UNCHANGED <<auto, enabled, online, passLeft>>

Works == \E w \in Workers : SyncPhaseEnds(w) \/ WorkEnds(w)
AutoStep == BootPass \/ DeepEnds \/ CronTick \/ Migrates \/ PassEnds

DiscoveryNext ==
  \/ UserDiscovers \/ UserRefreshes \/ Works
  \/ AutoStep
  \/ Switches \/ WifiChanges \/ LeavesStick

\* Every task runs; every probe has a timeout.
DiscoveryFairness == WF_discovery(Works) /\ WF_discovery(AutoStep)

-----------------------------------------------------------------------------
DiscoveryTypeOK ==
  /\ \A w \in Workers : searcher[w] \in {"idle", "sync", "scan", "refresh"}
  /\ auto \in {"delay", "deep", "pass", "sleep"}
  /\ migrated \subseteq Found /\ passLeft.budget \in 0..MaxPerBoot
  /\ Cardinality({w \in Workers : searcher[w] # "idle"}) = (IF scanRunning THEN 1 ELSE 0)

\* The flag never stays set: the web page waits for its end before it goes on, and nobody
\* else could search (speaker_inventory.cpp:1136-1212).
ScanEnds == scanRunning ~> ~scanRunning

\* As long as fewer speakers fail or leave again than a pass may try, the auto mode reaches
\* every other one, wherever it stands in the list (auto_mode.cpp:472-489), while it is
\* switched on and has WiFi.  With more of them the last in the list never get their turn:
\* a pass always starts with the first.
EverybodysTurn ==
  \A d \in Found \ Bad : d \notin migrated ~> d \in migrated \/ ~enabled \/ ~online
=============================================================================
