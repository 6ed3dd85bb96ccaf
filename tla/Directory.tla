----------------------------- MODULE Directory -----------------------------
(***************************************************************************)
(* How the list of speakers follows their addresses                        *)
(* (speaker_inventory.cpp).  A search asks the known addresses, then who   *)
(* answers the multicast, refreshes the statuses, and may then ask every   *)
(* other address of the network; the user adds and removes speakers        *)
(* meanwhile.  The lock is free while a speaker is asked.                  *)
(***************************************************************************)
EXTENDS Naturals, Sequences, FiniteSets

CONSTANTS
  Unit,      \* the speakers, known by their deviceId
  Place,     \* the addresses of the network
  NoPlace,
  Debounce,  \* STATUS_OFFLINE_DEBOUNCE
  MaxMoves   \* bound: how often addresses change, and speakers fall asleep or wake

ASSUME DirectoryAssumption ==
  NoPlace \notin Place /\ Debounce \in Nat \ {0} /\ MaxMoves \in Nat

VARIABLES
  lease,   \* external: the address of each speaker
  awake,   \* external: the speakers that answer
  moves,   \* bound: how often they have
  known,   \* speakers_: a sequence of [unit, ip, status, streak]
  search,  \* the task of a discover(): [at, todo, work, forced, again]
  adding,  \* addByIp in the web server's task: the address and who answered there
  quiet    \* history: since the search began, nothing but the search has changed

directory == <<lease, awake, moves, known, search, adding, quiet>>

NoSearch == [at |-> "idle", todo |-> {}, work |-> <<>>, forced |-> FALSE, again |-> FALSE]
NoAdd == [place |-> NoPlace, unit |-> NoPlace]

\* Who answers at an address: one speaker or none.
At8090(a) == {u \in awake : lease[u] = a}

Positions(list) == 1..Len(list)
Listing(list, u) == {i \in Positions(list) : list[i].unit = u}
KnownPlaces == {known[i].ip : i \in Positions(known)}

\* loadFromNVS: the streak is not stored; what is, module Inventory shows.
Reloaded == [i \in Positions(known) |-> [known[i] EXCEPT !.streak = 0]]

\* A list of an earlier day: addresses may have changed since in any way.
OldLists ==
  {<<>>} \cup UNION {
    {e \in [1..n -> [unit : Unit, ip : Place, status : {"MIGRATED"}, streak : {0}]] :
       \A i, j \in 1..n : e[i].unit = e[j].unit => i = j} : n \in 1..Cardinality(Unit)}

\* Nobody searches.
DirectoryQuiet ==
  /\ awake = Unit /\ moves = 0
  /\ search = NoSearch /\ adding = NoAdd /\ quiet = FALSE

DirectoryInit ==
  /\ lease \in {where \in [Unit -> Place] : \A u, v \in Unit : where[u] = where[v] => u = v}
  /\ known \in OldLists /\ DirectoryQuiet

-----------------------------------------------------------------------------
(* mergeSpeaker_                                                           *)

Entry8090(u, a) == [unit |-> u, ip |-> a, status |-> "UNKNOWN", streak |-> 0]

\* Mutation of Merged: a speaker that is listed keeps its address.
MergedInPlace(list, u, a) ==
  IF Listing(list, u) # {} THEN list ELSE Append(list, Entry8090(u, a))

\* A listed speaker gets the new address and keeps status, place and the rest.
Merged(list, u, a) ==
  IF Listing(list, u) # {}
  THEN [i \in Positions(list) |-> IF list[i].unit = u THEN [list[i] EXCEPT !.ip = a] ELSE list[i]]
  ELSE Append(list, Entry8090(u, a))

\* A probe of one address, and the merge of who answered.
Asks(a) ==
  \/ At8090(a) = {} /\ UNCHANGED known
  \/ \E u \in At8090(a) : known' = Merged(known, u, a)

-----------------------------------------------------------------------------
(* discover()                                                              *)

World == UNCHANGED <<lease, awake, moves>>

Discovers(forced) ==
  /\ search.at = "idle"
  /\ search' = [NoSearch EXCEPT !.at = "known", !.todo = KnownPlaces, !.forced = forced]
  /\ quiet' = (adding = NoAdd)
  /\ World /\ UNCHANGED <<known, adding>>

\* knownIpProbe_, over the addresses as they were at its start
ProbesKnown(a) ==
  /\ search.at = "known" /\ a \in search.todo
  /\ search' = [search EXCEPT !.todo = @ \ {a}] /\ Asks(a)
  /\ World /\ UNCHANGED <<adding, quiet>>

\* Who answered the multicast is probed.
KnownProbed ==
  /\ search.at = "known" /\ search.todo = {}
  /\ \E answered \in SUBSET awake :
       search' = [search EXCEPT !.at = "ssdp", !.todo = {lease[u] : u \in answered}]
  /\ World /\ UNCHANGED <<known, adding, quiet>>

ProbesResponder(a) ==
  /\ search.at = "ssdp" /\ a \in search.todo
  /\ search' = [search EXCEPT !.todo = @ \ {a}] /\ Asks(a)
  /\ World /\ UNCHANGED <<adding, quiet>>

\* refreshMigrationStatus: a copy of the list, and what each address answers.  MIGRATED
\* stands for any answer.
Verdicts(a) == IF At8090(a) = {} THEN {"OFFLINE"} ELSE {"MIGRATED"}

Refreshes ==
  /\ \/ search.at = "ssdp" /\ search.todo = {}
     \/ search.at = "scan" /\ search.todo = {}
  /\ \E work \in [Positions(known) -> {"MIGRATED", "OFFLINE"}] :
       /\ \A i \in Positions(known) : work[i] \in Verdicts(known[i].ip)
       /\ search' = [search EXCEPT
            !.at = "merge", !.again = (search.at = "scan"),
            !.work = [i \in Positions(known) |-> [unit |-> known[i].unit, status |-> work[i]]]]
  /\ World /\ UNCHANGED <<known, adding, quiet>>

\* A sound status is shown at once, another only the second time.
Shown(e, status) ==
  LET streak == IF status = "MIGRATED" THEN 0 ELSE IF e.streak < Debounce THEN e.streak + 1
                                                  ELSE e.streak
  IN [e EXCEPT !.streak = streak,
               !.status = IF streak = 0 \/ streak >= Debounce THEN status ELSE @]

MergesStatuses ==
  /\ search.at = "merge"
  /\ known' = [i \in Positions(known) |->
       LET probed == {j \in Positions(search.work) : search.work[j].unit = known[i].unit}
       IN IF probed = {} THEN known[i]
          ELSE Shown(known[i], search.work[CHOOSE j \in probed : TRUE].status)]
  /\ search' = IF search.again THEN NoSearch ELSE [search EXCEPT !.at = "decide", !.work = <<>>]
  /\ World /\ UNCHANGED <<adding, quiet>>

\* activeScanWorthwhile_
Worthwhile ==
  known = <<>> \/ \E i \in Positions(known) : known[i].status \in {"OFFLINE", "UNKNOWN"}

Skips ==
  /\ search.at = "decide" /\ ~search.forced /\ ~Worthwhile
  /\ search' = NoSearch
  /\ World /\ UNCHANGED <<known, adding, quiet>>

\* activeScan_ asks the addresses no speaker of the list has.
Scans ==
  /\ search.at = "decide" /\ (search.forced \/ Worthwhile)
  /\ search' = [search EXCEPT !.at = "scan", !.todo = Place \ KnownPlaces]
  /\ World /\ UNCHANGED <<known, adding, quiet>>

ScansPlace(a) ==
  /\ search.at = "scan" /\ a \in search.todo
  /\ search' = [search EXCEPT !.todo = @ \ {a}] /\ Asks(a)
  /\ World /\ UNCHANGED <<adding, quiet>>

-----------------------------------------------------------------------------
(* The user                                                                *)

\* addByIp, when somebody answers
Adds(a) ==
  /\ adding = NoAdd
  /\ \E u \in At8090(a) : adding' = [place |-> a, unit |-> u]
  /\ World /\ UNCHANGED <<known, search, quiet>>

\* The status, asked meanwhile, goes to the first speaker listed at the address.
AddMerges ==
  /\ adding # NoAdd
  /\ LET list == Merged(known, adding.unit, adding.place)
         FoundFirst(i) == /\ list[i].ip = adding.place
                          /\ \A j \in 1..(i - 1) : list[j].ip # adding.place
     IN \E status \in Verdicts(adding.place) :
          known' = [i \in Positions(list) |->
                      IF FoundFirst(i) THEN [list[i] EXCEPT !.status = status] ELSE list[i]]
  /\ adding' = NoAdd
  /\ World /\ UNCHANGED <<search, quiet>>

Removes(u) ==
  /\ \E i \in Listing(known, u) :
       known' = SubSeq(known, 1, i - 1) \o SubSeq(known, i + 1, Len(known))
  /\ quiet' = FALSE
  /\ World /\ UNCHANGED <<search, adding>>

-----------------------------------------------------------------------------
(* The network, and power                                                  *)

ChangesPlace(u, a) ==
  /\ moves < MaxMoves /\ \A v \in Unit : lease[v] # a
  /\ lease' = [lease EXCEPT ![u] = a] /\ moves' = moves + 1 /\ quiet' = FALSE
  /\ UNCHANGED <<awake, known, search, adding>>

SleepsOrWakes(u) ==
  /\ moves < MaxMoves
  /\ awake' = IF u \in awake THEN awake \ {u} ELSE awake \cup {u}
  /\ moves' = moves + 1 /\ quiet' = FALSE
  /\ UNCHANGED <<lease, known, search, adding>>

DirectoryReboots ==
  /\ known # <<>> \/ search # NoSearch
  /\ known' = Reloaded /\ search' = NoSearch /\ adding' = NoAdd /\ quiet' = FALSE
  /\ World

DirectoryNext ==
  \/ \E forced \in BOOLEAN : Discovers(forced)
  \/ \E a \in Place : ProbesKnown(a) \/ ProbesResponder(a) \/ ScansPlace(a) \/ Adds(a)
  \/ KnownProbed \/ Refreshes \/ MergesStatuses \/ Skips \/ Scans
  \/ AddMerges
  \/ \E u \in Unit : Removes(u) \/ SleepsOrWakes(u)
  \/ \E u \in Unit, a \in Place : ChangesPlace(u, a)
  \/ DirectoryReboots

-----------------------------------------------------------------------------
(* Properties.                                                             *)

DirectoryTypeOK ==
  /\ awake \subseteq Unit /\ moves \in 0..MaxMoves
  /\ \A i, j \in Positions(known) : known[i].unit = known[j].unit => i = j
  /\ \A i \in Positions(known) : known[i].ip \in Place /\ known[i].streak \in 0..Debounce
  /\ search.at \in {"idle", "known", "ssdp", "merge", "decide", "scan"}

\* A search with a scan, during which no address changed and nobody removed anything, ends
\* with every speaker that answers listed at its address, whatever the list said before,
\* whoever missed the multicast and whatever the user added meanwhile: the scan leaves out
\* no address that was not asked before (speaker_inventory.cpp:610-712).
ScanFindsAll ==
  [][ (search.again /\ search'.at = "idle" /\ quiet') =>
        \A u \in awake : \E i \in Positions(known') :
          known'[i].unit = u /\ known'[i].ip = lease[u] ]_directory

\* The auto mode leaves the scan out only when every listed speaker has just answered:
\* speaker_inventory.cpp:1123-1125 says "Sind alle bekannten Speaker erreichbar +
\* klassifiziert, findet der Scan nichts Neues. Wird NACH der Sync-Phase ausgewertet,
\* damit die Status frisch sind."
SkipJustified ==
  [][ (search.at = "decide" /\ search'.at = "idle" /\ quiet') =>
        \A i \in Positions(known) : At8090(known[i].ip) # {} ]_directory
=============================================================================
