----------------------------- MODULE PresetPush -----------------------------
(***************************************************************************)
(* How presets of the store get onto the keys of a migrated speaker        *)
(* (api_endpoints.cpp): jobs with a copy of the preset wait in a queue, one*)
(* worker selects the station at the speaker, waits until it plays and     *)
(* presses the key long enough to store it.  All stations here are of one  *)
(* source, which is all the wait can tell them apart by.                   *)
(***************************************************************************)
EXTENDS Naturals, Sequences, FiniteSets

CONSTANTS Button,     \* the preset keys, 1..6
          Station, NoStation,
          Depth,   \* PUSH_QUEUE_DEPTH
          Slows    \* may a speaker still play the old station 1.5 s after /select? answers

ASSUME PushAssumption ==
  Button \subseteq Nat /\ IsFiniteSet(Button) /\ NoStation \notin Station /\ Depth \in Nat \ {0}
  /\ Slows \subseteq BOOLEAN

VARIABLES
  slots,  \* the speaker's slots in the preset store
  queue,  \* g_pushQueue
  exists, \* g_pushQueue was created
  worker, \* g_pushTask: "none", "idle", "taken", "selected", "playing"
  job,    \* the job of the worker
  keys,   \* external: what the keys of the speaker hold
  asked,  \* external: the station of the last /select, until the speaker switches to it
  tuned,  \* external: the station its now_playing names
  sounds, \* external: it plays
  slow,   \* external: the answer of this behaviour
  agreed  \* history: the keys that should hold what the store holds once the queue is empty

speaker == <<asked, tuned, sounds, slow>>
push == <<slots, queue, exists, worker, job, keys, speaker, agreed>>

NoJob == [key |-> 0, station |-> NoStation]

PushInit ==
  /\ slots = [k \in Button |-> NoStation] /\ keys = [k \in Button |-> NoStation]
  /\ queue = <<>> /\ exists = FALSE /\ worker = "none" /\ job = NoJob
  /\ asked = NoStation /\ tuned = NoStation /\ sounds = FALSE /\ slow \in Slows /\ agreed = {}

-----------------------------------------------------------------------------
(* The handlers, one after the other in the web server's task              *)

WorkerRests == UNCHANGED <<job, keys, speaker>>

\* Mutation of QueueReady: the queue of a worker that could not start is kept.
QueueReadyAnyhow ==
  \/ exists /\ UNCHANGED <<exists, worker>>
  \/ ~exists /\ exists' = TRUE /\ worker' \in {"none", "idle"}

\* ensurePushQueueReady_, when it does not refuse the request
QueueReady ==
  \/ exists /\ UNCHANGED <<exists, worker>>
  \/ ~exists /\ exists' = TRUE /\ worker' = "idle"

\* PUT of a slot, its deletion, or an import
Edits(k) ==
  /\ \E s \in Station \cup {NoStation} : slots[k] # s /\ slots' = [slots EXCEPT ![k] = s]
  /\ agreed' = agreed \ {k}
  /\ UNCHANGED <<queue, exists, worker>> /\ WorkerRests

\* handleSwapPresets, within the speaker: the store only
Swaps(j, k) ==
  /\ slots[j] # slots[k]
  /\ slots' = [slots EXCEPT ![j] = slots[k], ![k] = slots[j]]
  /\ agreed' = agreed \ {j, k}
  /\ QueueReady
  /\ UNCHANGED queue /\ WorkerRests

\* handlePushPresetToDevice
PushesOne(k) ==
  /\ slots[k] # NoStation /\ Len(queue) < Depth
  /\ QueueReady
  /\ queue' = Append(queue, [key |-> k, station |-> slots[k]])
  /\ agreed' = agreed \cup {k}
  /\ UNCHANGED slots /\ WorkerRests

Waits(k) == job.key = k \/ \E i \in 1..Len(queue) : queue[i].key = k

\* The jobs of a set of keys, in their order, as far as they fit
Jobs(ks, from) ==
  LET Nth(i) == CHOOSE k \in ks : Cardinality({j \in ks : j < k}) = i - 1
  IN [i \in {n \in 1..Cardinality(ks) : Len(queue) + n <= Depth} |->
        [key |-> Nth(i), station |-> from[Nth(i)]]]

KeysOf(jobs) == {jobs[i].key : i \in DOMAIN jobs}

Filled == {k \in Button : slots[k] # NoStation}

\* The keys whose station at the speaker is not the one of the store
Differing == {k \in Filled : keys[k] # slots[k]}

\* handleBulkPushPresets: the keys the speaker reports, if it does, without those jobs that
\* wait will still change
PushesAll ==
  /\ QueueReady
  /\ \E wanted \in {Differing, Filled} :
       /\ queue' = queue \o Jobs(wanted, slots)
       /\ agreed' = agreed \cup {k \in Filled \ wanted : ~Waits(k)}
                           \cup KeysOf(Jobs(wanted, slots))
  /\ UNCHANGED slots /\ WorkerRests

\* handleRestorePreMigration: the snapshot into the store, all of it into the queue
Restores ==
  /\ \E snapshot \in [Button -> Station] :
       /\ slots' = snapshot
       /\ queue' = queue \o Jobs(Button, snapshot)
       /\ agreed' = KeysOf(Jobs(Button, snapshot))
  /\ QueueReady /\ WorkerRests

-----------------------------------------------------------------------------
(* The worker: doPush_                                                     *)

Handlers == UNCHANGED <<slots, exists>>

\* Mutation of TakesJob: the newest job first.
TakesLastJob ==
  /\ worker = "idle" /\ queue # <<>>
  /\ job' = queue[Len(queue)] /\ queue' = SubSeq(queue, 1, Len(queue) - 1)
  /\ worker' = "taken"
  /\ Handlers /\ UNCHANGED <<keys, speaker, agreed>>

TakesJob ==
  /\ worker = "idle" /\ queue # <<>>
  /\ job' = Head(queue) /\ queue' = Tail(queue)
  /\ worker' = "taken"
  /\ Handlers /\ UNCHANGED <<keys, speaker, agreed>>

\* The job ends without a long press.
Aborts ==
  /\ job' = NoJob /\ worker' = "idle" /\ agreed' = agreed \ {job.key}

\* /select answers 200, before the speaker leaves what it plays.
Selects ==
  /\ worker = "taken"
  /\ asked' = job.station /\ worker' = "selected"
  /\ Handlers /\ UNCHANGED <<queue, job, keys, tuned, sounds, slow, agreed>>

\* The source is not ready, or /select fails.
SelectFails ==
  /\ worker = "taken" /\ Aborts
  /\ Handlers /\ UNCHANGED <<queue, keys, speaker>>

\* waitForPlayState_: after 1.5 s something of the source plays.  On a slow speaker that may
\* be the station before.
SeesPlay ==
  /\ worker = "selected" /\ sounds
  /\ asked = NoStation \/ slow
  /\ worker' = "playing"
  /\ Handlers /\ UNCHANGED <<queue, job, keys, speaker, agreed>>

\* The source is invalid, or 18 s are over.
SeesNone ==
  /\ worker = "selected" /\ Aborts
  /\ Handlers /\ UNCHANGED <<queue, keys, speaker>>

\* The key is pressed for 2.5 s: the speaker stores what it plays, or misses press or release.
LongPress ==
  /\ worker = "playing"
  /\ job' = NoJob /\ worker' = "idle"
  /\ \/ keys' = [keys EXCEPT ![job.key] = IF sounds THEN tuned ELSE @]
        /\ agreed' = IF sounds THEN agreed ELSE agreed \ {job.key}
     \/ UNCHANGED keys /\ agreed' = agreed \ {job.key}
  /\ Handlers /\ UNCHANGED <<queue, speaker>>

-----------------------------------------------------------------------------
(* The speaker, its user, and power                                        *)

\* The speaker leaves what it played and starts the station of the last /select.
SpeakerSwitches ==
  /\ asked # NoStation
  /\ tuned' = asked /\ sounds' = FALSE /\ asked' = NoStation
  /\ UNCHANGED <<slots, queue, exists, worker, job, keys, slow, agreed>>

Plays ==
  /\ tuned # NoStation /\ ~sounds /\ sounds' = TRUE
  /\ UNCHANGED <<slots, queue, exists, worker, job, keys, asked, tuned, slow, agreed>>

\* Somebody selects another station, presses a key or switches the speaker off.
UserTunes ==
  /\ tuned' \in Station \cup {NoStation} /\ sounds' = FALSE /\ asked' = NoStation
  /\ agreed' = agreed \ {job.key}
  /\ UNCHANGED <<slots, queue, exists, worker, job, keys, slow>>

UserRecords(k) ==
  /\ sounds /\ keys' = [keys EXCEPT ![k] = tuned]
  /\ agreed' = agreed \ {k}
  /\ UNCHANGED <<slots, queue, exists, worker, job, speaker>>

\* The store is loaded again, the queue is not.
PushPowerFails ==
  /\ exists
  /\ queue' = <<>> /\ exists' = FALSE /\ worker' = "none" /\ job' = NoJob /\ agreed' = {}
  /\ UNCHANGED <<slots, keys, speaker>>

WorkerStep == TakesJob \/ Selects \/ SelectFails \/ SeesPlay \/ SeesNone \/ LongPress

PushNext ==
  \/ \E k \in Button : Edits(k) \/ PushesOne(k) \/ UserRecords(k)
  \/ \E j, k \in Button : Swaps(j, k)
  \/ PushesAll \/ Restores
  \/ WorkerStep
  \/ SpeakerSwitches \/ Plays \/ UserTunes \/ PushPowerFails

\* The task of the worker runs; every wait has a timeout.
PushFairness == WF_push(WorkerStep)

-----------------------------------------------------------------------------
PushTypeOK ==
  /\ Len(queue) <= Depth
  /\ \A i \in 1..Len(queue) : queue[i].key \in Button /\ queue[i].station \in Station
  /\ worker \in {"none", "idle", "taken", "selected", "playing"}
  /\ (job = NoJob) = (worker \in {"none", "idle"})
  /\ asked \in Station \cup {NoStation}

\* Once the queue is empty the keys hold what the user sent last, however edits, single and
\* bulk pushes, restores and swaps were mixed while older jobs waited
\* (api_endpoints.cpp:1571-1690 and 3230-3320), unless a job gave up or somebody used the
\* speaker meanwhile.  A bulk push that skips a key whose older job still waits is the
\* exception: that job overwrites it (api_endpoints.cpp:3286).  The key is pressed only once
\* the speaker plays the station it was told to ("Wartet bis der Speaker den gerade
\* ge-selecteten Sender wirklich abspielt", api_endpoints.cpp:1537-1538).
DeliveredAlways ==
  (queue = <<>> /\ job = NoJob) => \A k \in agreed : keys[k] = slots[k]

\* The same at a speaker that has left its old station 1.5 s after it answered the /select:
\* the wait compares the source and PLAY_STATE, never the station
\* (api_endpoints.cpp:1544-1557).
Delivered == slow \/ DeliveredAlways

\* A full queue empties again: no accepted job waits for a worker that does not exist
\* (api_endpoints.cpp:1698-1711), and no wait on a speaker is without end.
QueueDrains == (Len(queue) = Depth) ~> (Len(queue) < Depth)
=============================================================================
