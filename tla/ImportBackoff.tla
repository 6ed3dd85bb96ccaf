--------------------------- MODULE ImportBackoff ---------------------------
(***************************************************************************)
(* The web page imports a speaker whose slots are empty whenever it is     *)
(* loaded; when the flash is full every such import writes and fails       *)
(* again.  A list of blocked speakers stops that until some save succeeds  *)
(* (api_endpoints.cpp:1436-1513).                                          *)
(***************************************************************************)
EXTENDS Naturals

CONSTANTS Box,      \* speakers
          NoBox,
          MaxSaves  \* bound: successful saves since the boot

ASSUME BackoffAssumption == NoBox \notin Box /\ MaxSaves \in Nat

VARIABLES
  saveOkCount, \* PresetStore::saveOkCount_
  blocked,     \* g_importPersistFailed
  failedAt,    \* g_importFailedAtSaveOk
  importing,   \* the speaker whose presets a handler fetches and stores
  wasted       \* history: failed imports of each speaker since a save succeeded

backoff == <<saveOkCount, blocked, failedAt, importing, wasted>>

BackoffInit ==
  /\ saveOkCount = 0 /\ blocked = {} /\ failedAt = 0 /\ importing = NoBox
  /\ wasted = [b \in Box |-> 0]

\* Some other save of the store, of any task, succeeds, also while an import waits for
\* its speaker.
OtherSaves ==
  /\ saveOkCount < MaxSaves
  /\ saveOkCount' = saveOkCount + 1
  /\ wasted' = [b \in Box |-> 0]
  /\ UNCHANGED <<blocked, failedAt, importing>>

\* importBackoffSync_ and the check of handleImportFromDevice
Begins(b) ==
  /\ importing = NoBox
  /\ LET still == IF saveOkCount # failedAt THEN {} ELSE blocked
     IN /\ blocked' = still
        /\ importing' = IF b \in still THEN NoBox ELSE b
  /\ failedAt' = saveOkCount
  /\ UNCHANGED <<saveOkCount, wasted>>

\* The speaker cannot be read: nothing was written.
FetchFails ==
  /\ importing # NoBox /\ importing' = NoBox
  /\ UNCHANGED <<saveOkCount, blocked, failedAt, wasted>>

Persists ==
  /\ importing # NoBox /\ saveOkCount < MaxSaves
  /\ saveOkCount' = saveOkCount + 1
  /\ importing' = NoBox /\ wasted' = [b \in Box |-> 0]
  /\ UNCHANGED <<blocked, failedAt>>

\* Mutation of PersistFails: the count of saves is not taken again.
PersistFailsUncounted ==
  /\ importing # NoBox
  /\ blocked' = blocked \cup {importing}
  /\ wasted' = [wasted EXCEPT ![importing] = @ + 1]
  /\ importing' = NoBox
  /\ UNCHANGED <<saveOkCount, failedAt>>

\* importBackoffMark_
PersistFails ==
  /\ importing # NoBox
  /\ blocked' = blocked \cup {importing}
  /\ failedAt' = saveOkCount
  /\ wasted' = [wasted EXCEPT ![importing] = @ + 1]
  /\ importing' = NoBox
  /\ UNCHANGED saveOkCount

Boots ==
  /\ saveOkCount' = 0 /\ blocked' = {} /\ failedAt' = 0 /\ importing' = NoBox
  /\ wasted' = [b \in Box |-> 0]

BackoffNext ==
  \/ \E b \in Box : Begins(b)
  \/ OtherSaves \/ FetchFails \/ Persists \/ PersistFails \/ Boots

-----------------------------------------------------------------------------
BackoffTypeOK ==
  /\ saveOkCount \in 0..MaxSaves /\ failedAt \in 0..MaxSaves
  /\ blocked \subseteq Box /\ importing \in Box \cup {NoBox}

\* A full flash costs one failed import per speaker and not one per page load, whatever
\* saves succeed while an import is under way (api_endpoints.cpp:1449-1470).
OneWastedImport == \A b \in Box : wasted[b] <= 1
=============================================================================
