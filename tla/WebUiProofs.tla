---------------------------- MODULE WebUiProofs ----------------------------
(***************************************************************************)
(* Proofs about what serves the web interface, each component on its own:  *)
(* its password, the bodies of its requests, the list of blocked imports,  *)
(* the cache of live answers and the dumps of the flight recorder.         *)
(***************************************************************************)
EXTENDS StoredDataProofs, UiAuth, WebRequests, ImportBackoff, LiveCache, Blackbox,
        SequenceTheorems

-----------------------------------------------------------------------------
(* The password.                                                            *)

UiAuthSpec == UiAuthInit /\ [][UiAuthNext]_uiauth

\* Where the two tasks may be.
Places ==
  /\ web.at \in {"idle", "mark", "answer"} \cup ResetSteps
  /\ tick.at \in {"idle", "load", "apply"} \cup ResetSteps

\* While one task resets, the other rests.
ResetsAlone ==
  /\ web.at \in ResetSteps => At(tick, "idle")
  /\ tick.at \in ResetSteps => At(web, "idle")

\* After its first step a reset has made the configuration the empty one.
ResetErased == web.at \in {"forget", "open"} \/ tick.at \in {"forget", "open"} => config = Nothing

\* Somebody is still going to apply what is in the flash, unless it is applied.
ApplyDue ==
  \/ web.at \in ResetSteps \/ tick.at \in ResetSteps
  \/ At(web, "mark") \/ pending \/ At(tick, "load")
  \/ At(tick, "apply") /\ tick.config = config
  \/ ~At(tick, "apply") /\ live = Applied(config)

(***************************************************************************)
(* LiveFollowsFlash speaks of two tasks at rest; in between, the change    *)
(* must be on its way.                                                     *)
(***************************************************************************)
UiAuthInv == ~Overlaps => Places /\ ResetsAlone /\ ResetErased /\ ApplyDue

\* Nothing is set and nothing is pending at the first boot.
LEMMA UiAuthStart == UiAuthInit => UiAuthInv
BY DEF UiAuthInit, UiAuthInv, Places, ResetsAlone, ResetErased, ApplyDue, At, ResetSteps, Nothing, Applied

\* Every step of the two tasks keeps the invariant.
LEMMA UiAuthStep == UiAuthInv /\ [UiAuthNext]_uiauth => UiAuthInv'
<1> SUFFICES ASSUME UiAuthInv, [UiAuthNext]_uiauth, ~Overlaps
             PROVE  (Places /\ ResetsAlone /\ ResetErased /\ ApplyDue)'
    BY DEF UiAuthInv
<1> USE DEF Places, ResetsAlone, ResetErased, ApplyDue, At, Step, ResetSteps, Applied
<1>0. Places /\ ResetsAlone /\ ResetErased /\ ApplyDue
    BY DEF UiAuthInv
<1>1. ASSUME NEW c, SavesConfig(c) PROVE (Places /\ ResetsAlone /\ ResetErased /\ ApplyDue)'
    BY <1>0, <1>1 DEF SavesConfig, NoReset
<1>2. CASE \E c \in Cred : SetCredentials(c)
    BY <1>1, <1>2 DEF SetCredentials
<1>3. CASE \E b \in BOOLEAN : SetEnabled(b)
    BY <1>1, <1>3 DEF SetEnabled
<1>4. CASE Marks
    BY <1>0, <1>4 DEF Marks
<1>5. CASE Answers
    BY <1>0, <1>5 DEF Answers
<1>6. CASE WebReset \/ SerialReset
    BY <1>0, <1>6 DEF WebReset, SerialReset, ResetAlone
<1>7. CASE WebResets
    BY <1>0, <1>7 DEF WebResets, Resets, After, Nothing
<1>8. CASE SerialResets
    BY <1>0, <1>8 DEF SerialResets, Resets, After, Nothing
<1>9. CASE TickTakes \/ TickLoads \/ TickApplies
    BY <1>0, <1>9 DEF TickTakes, TickLoads, TickApplies, NoReset
<1>10. CASE UiAuthReboot
    BY <1>0, <1>10 DEF UiAuthReboot
<1>11. CASE UNCHANGED uiauth
    BY <1>0, <1>11 DEF uiauth
<1> QED
    BY <1>2, <1>3, <1>4, <1>5, <1>6, <1>7, <1>8, <1>9, <1>10, <1>11 DEF UiAuthNext

\* For any set of credentials: when both tasks rest and nothing is pending, the middleware
\* asks for what the flash holds (ui_auth.cpp).
THEOREM LiveTheorem == UiAuthSpec => []LiveFollowsFlash
<1>1. UiAuthInv => LiveFollowsFlash
    BY DEF UiAuthInv, LiveFollowsFlash, ApplyDue, At, ResetSteps
<1> QED
    BY <1>1, UiAuthStart, UiAuthStep, PTL DEF UiAuthSpec

\* While loop() applies a configuration it holds one.
UiAuthHeld == UiAuthTypeOK /\ (At(tick, "apply") => tick.config \in Configs)

\* Every step of the two tasks leaves them at a place they know.
LEMMA UiAuthHeldStep == UiAuthHeld /\ [UiAuthNext]_uiauth => UiAuthHeld'
<1> SUFFICES ASSUME UiAuthHeld, [UiAuthNext]_uiauth PROVE UiAuthHeld'
    OBVIOUS
<1> USE DEF UiAuthHeld, UiAuthTypeOK, At, Step, ResetSteps
<1>1. Nothing \in Configs
    BY DEF Nothing, Configs
<1>2. \A c \in Configs : Applied(c) \in Cred \cup {NoCred}
    BY DEF Applied, Configs
<1>3. ASSUME NEW c \in Configs, SavesConfig(c) PROVE UiAuthHeld'
    BY <1>3 DEF SavesConfig
<1>4. ASSUME NEW c \in Cred, SetCredentials(c) PROVE UiAuthHeld'
  <2>1. [enabled |-> TRUE, cred |-> c] \in Configs
      BY DEF Configs
  <2> QED
      BY <1>3, <1>4, <2>1 DEF SetCredentials
<1>5. ASSUME NEW b \in BOOLEAN, SetEnabled(b) PROVE UiAuthHeld'
  <2>1. [config EXCEPT !.enabled = b] \in Configs
      BY DEF Configs
  <2> QED
      BY <1>3, <1>5, <2>1 DEF SetEnabled
<1>6. ASSUME UNCHANGED <<config, live>>, pending' \in BOOLEAN,
             web' = web \/ \E s \in {"idle", "mark", "answer", "erase"} : web' = Step(s),
             tick' = tick \/ \E s \in {"idle", "load", "erase"} : tick' = Step(s)
      PROVE  UiAuthHeld'
  <2>1. web'.at \in {"idle", "mark", "answer"} \cup ResetSteps
      BY <1>6
  <2>2. /\ tick'.at \in {"idle", "load", "apply"} \cup ResetSteps
        /\ tick'.at = "apply" => tick' = tick
      BY <1>6
  <2> QED
      BY <1>6, <2>1, <2>2
<1>10. CASE Marks
    BY <1>6, <1>10 DEF Marks
<1>11. CASE Answers
    BY <1>6, <1>11 DEF Answers
<1>12. CASE WebReset
    BY <1>6, <1>12 DEF WebReset
<1>13. CASE SerialReset
    BY <1>6, <1>13 DEF SerialReset
<1>14. CASE TickTakes
    BY <1>6, <1>14 DEF TickTakes
<1>7. CASE WebResets \/ SerialResets
  <2>1. ASSUME NEW t, Resets(t)
        PROVE  /\ config' \in Configs /\ live' \in Cred \cup {NoCred} /\ pending' \in BOOLEAN
               /\ After(t).at \in {"forget", "open", "idle"}
      BY <1>1, <2>1 DEF Resets, After
  <2>2. CASE WebResets
      BY <2>1, <2>2 DEF WebResets
  <2>3. CASE SerialResets
      BY <2>1, <2>3 DEF SerialResets
  <2> QED
      BY <1>7, <2>2, <2>3
<1>8. CASE TickLoads
    BY <1>8 DEF TickLoads
<1>15. CASE TickApplies
    BY <1>2, <1>15 DEF TickApplies
<1>16. CASE UiAuthReboot
    BY <1>2, <1>16 DEF UiAuthReboot
<1>9. CASE UNCHANGED uiauth
    BY <1>9 DEF uiauth
<1> QED
    BY <1>4, <1>5, <1>7, <1>8, <1>9, <1>10, <1>11, <1>12, <1>13, <1>14, <1>15, <1>16 DEF UiAuthNext

\* The password's configuration, the middleware and the two tasks stay in their ranges, also when
\* a reset overlaps (ui_auth.cpp).
THEOREM UiAuthTypesTheorem == UiAuthSpec => []UiAuthTypeOK
<1>1. UiAuthInit => UiAuthHeld
  <2>1. Nothing \in Configs
      BY DEF Nothing, Configs
  <2>2. UiAuthInit => web.at = "idle" /\ tick.at = "idle"
      BY DEF UiAuthInit
  <2> QED
      BY <2>1, <2>2 DEF UiAuthInit, UiAuthHeld, UiAuthTypeOK, At, ResetSteps
<1>2. UiAuthHeld => UiAuthTypeOK
    BY DEF UiAuthHeld
<1> QED
    BY <1>1, <1>2, UiAuthHeldStep, PTL DEF UiAuthSpec

-----------------------------------------------------------------------------
(* Imports that fail.                                                       *)

BackoffSpec == BackoffInit /\ [][BackoffNext]_backoff

\* Who wasted an import since the last save is blocked, and the blocking is in force.
WastedBlocked ==
  /\ wasted \in [Box -> 0..1]
  /\ \A b \in Box : wasted[b] = 1 =>
       b \in blocked /\ b # importing /\ failedAt = saveOkCount
BackoffInv == WastedBlocked /\ saveOkCount \in Nat /\ importing \in Box \cup {NoBox}

\* At the first boot nothing has been tried.
LEMMA BackoffStart == BackoffInit => BackoffInv
BY DEF BackoffInit, BackoffInv, WastedBlocked

\* Every step keeps a speaker that wasted an import blocked.
LEMMA BackoffStep == BackoffInv /\ [BackoffNext]_backoff => BackoffInv'
<1> SUFFICES ASSUME BackoffInv, [BackoffNext]_backoff PROVE BackoffInv'
    OBVIOUS
<1> USE DEF BackoffInv, WastedBlocked
<1>1. CASE \E b \in Box : Begins(b)
    BY <1>1, BackoffAssumption DEF Begins
<1>2. CASE OtherSaves \/ Persists \/ Boots
    BY <1>2 DEF OtherSaves, Persists, Boots
<1>3. CASE FetchFails
    BY <1>3, BackoffAssumption DEF FetchFails
<1>4. CASE PersistFails
    <2>1. importing \in Box /\ wasted[importing] = 0
        BY <1>4 DEF PersistFails
    <2>2. wasted' \in [Box -> 0..1]
        BY <1>4, <2>1 DEF PersistFails
    <2> QED
        BY <1>4, <2>1, <2>2, BackoffAssumption DEF PersistFails
<1>5. CASE UNCHANGED backoff
    BY <1>5 DEF backoff
<1> QED
    BY <1>1, <1>2, <1>3, <1>4, <1>5 DEF BackoffNext

\* For any number of speakers and of saves: one wasted import each until some save succeeds
\* (api_endpoints.cpp:1449-1470).
THEOREM BackoffTheorem == BackoffSpec => []OneWastedImport
<1>1. BackoffInv => OneWastedImport
    BY DEF BackoffInv, WastedBlocked, OneWastedImport
<1> QED
    BY <1>1, BackoffStart, BackoffStep, PTL DEF BackoffSpec

\* Every step counts saves up to the bound and blocks speakers only.
LEMMA BackoffTypesStep == BackoffTypeOK /\ [BackoffNext]_backoff => BackoffTypeOK'
<1> SUFFICES ASSUME BackoffTypeOK, [BackoffNext]_backoff PROVE BackoffTypeOK'
    OBVIOUS
<1> USE DEF BackoffTypeOK
<1>1. CASE \E b \in Box : Begins(b)
    BY <1>1 DEF Begins
<1>2. CASE OtherSaves \/ Persists \/ Boots \/ FetchFails \/ PersistFails
    BY <1>2, BackoffAssumption DEF OtherSaves, Persists, Boots, FetchFails, PersistFails
<1>3. CASE UNCHANGED backoff
    BY <1>3 DEF backoff
<1> QED
    BY <1>1, <1>2, <1>3 DEF BackoffNext

\* The counters and the list of blocked imports stay in their ranges (api_endpoints.cpp:1436-1513).
THEOREM BackoffTypesTheorem == BackoffSpec => []BackoffTypeOK
<1>1. BackoffInit => BackoffTypeOK
    BY BackoffAssumption DEF BackoffInit, BackoffTypeOK
<1> QED
    BY <1>1, BackoffTypesStep, PTL DEF BackoffSpec

-----------------------------------------------------------------------------
(* The bodies of requests.                                                  *)

WebSpec == WebInit /\ [][WebNext]_requests

\* The events in progress are told apart by their length.
Distinct == \A e, f \in Events : Size[e] = Size[f] => e = f

FirstChunk(r) == <<<<r, 1>>>>

\* A buffer holds nothing or the first chunk of a request that uses it.
Buffers ==
  /\ \A r \in Req : arrived[r] \in 0..1
  /\ arrived \in [Req -> 0..1] /\ temp \in [Req -> {<<>>} \cup {FirstChunk(r) : r \in Req}]
  /\ \A r \in Req : temp[r] = IF r \notin Events /\ arrived[r] = 1 THEN FirstChunk(r) ELSE <<>>
  /\ inflight \in [Sizes -> {<<>>} \cup {FirstChunk(r) : r \in Req}]
  /\ \A n \in Sizes : inflight[n] # <<>> =>
       \E e \in Events : Size[e] = n /\ inflight[n] = FirstChunk(e)

WebInv == matched \subseteq Req /\ Buffers /\ BodiesWhole

\* No chunk has arrived.
LEMMA WebStart == WebInit => WebInv
BY DEF WebInit, WebInv, Buffers, BodiesWhole, NothingHandled

\* A sequence of one element, and one more.
LEMMA AppendSecond ==
  ASSUME NEW S, NEW s \in Seq(S), NEW e \in S, Len(s) = 1
  PROVE  /\ Append(s, e) \in Seq(S) /\ Len(Append(s, e)) = 2
         /\ Append(s, e)[1] = s[1] /\ Append(s, e)[2] = e
<1>1. /\ Append(s, e) \in Seq(S) /\ Len(Append(s, e)) = Len(s) + 1
      /\ \A i \in 1..Len(s) : Append(s, e)[i] = s[i]
      /\ Append(s, e)[Len(s) + 1] = e
    BY AppendProperties
<1> QED
    BY <1>1

\* Sequences of two elements that agree are equal.
LEMMA PairsEqual ==
  ASSUME NEW S, NEW s \in Seq(S), NEW t \in Seq(S), Len(s) = 2, Len(t) = 2,
         s[1] = t[1], s[2] = t[2]
  PROVE  s = t
<1>1. \A i \in 1..Len(s) : s[i] = t[i]
    <2>1. \A i \in 1..Len(s) : i = 1 \/ i = 2
        OBVIOUS
    <2> QED
        BY <2>1
<1> QED
    BY <1>1, SeqEqual

\* Two chunks of one request are its body.
LEMMA TwoChunks ==
  ASSUME NEW r PROVE Append(FirstChunk(r), <<r, 2>>) = Chunks(r)
<1> DEFINE S == {<<r, 1>>, <<r, 2>>}
<1>1. FirstChunk(r) \in Seq(S) /\ Len(FirstChunk(r)) = 1 /\ FirstChunk(r)[1] = <<r, 1>>
    BY DEF FirstChunk
<1>2. Chunks(r) \in Seq(S) /\ Len(Chunks(r)) = 2
      /\ Chunks(r)[1] = <<r, 1>> /\ Chunks(r)[2] = <<r, 2>>
    BY DEF Chunks
<1>3. <<r, 2>> \in S
    OBVIOUS
<1> HIDE DEF S
<1>4. /\ Append(FirstChunk(r), <<r, 2>>) \in Seq(S)
      /\ Len(Append(FirstChunk(r), <<r, 2>>)) = 2
      /\ Append(FirstChunk(r), <<r, 2>>)[1] = FirstChunk(r)[1]
      /\ Append(FirstChunk(r), <<r, 2>>)[2] = <<r, 2>>
    BY <1>1, <1>3, AppendSecond
<1>5. Append(FirstChunk(r), <<r, 2>>)[1] = Chunks(r)[1]
    BY <1>1, <1>2, <1>4, Zenon
<1>6. Append(FirstChunk(r), <<r, 2>>)[2] = Chunks(r)[2]
    BY <1>2, <1>4, Zenon
<1> QED
    BY <1>2, <1>4, <1>5, <1>6, PairsEqual

\* A first chunk fills an empty buffer; a second one alone is dropped.
LEMMA LoneChunk ==
  ASSUME NEW r PROVE /\ Append(<<>>, <<r, 1>>) = FirstChunk(r)
                     /\ ~Parses(Append(<<>>, <<r, 2>>))
BY DEF Parses, FirstChunk

\* A chunk of JSON goes to its own request's buffer.
LEMMA JsonStep ==
  ASSUME WebInv, NEW r \in Req, JsonChunk(r) PROVE WebInv'
<1> USE DEF WebInv
<1>1. matched' \subseteq Req
    BY DEF JsonChunk, Ends
<1>2. CASE arrived[r] = 1
    <2>1. temp[r] = FirstChunk(r)
        BY <1>2 DEF JsonChunk, Buffers
    <2>2. handled' = Given(r, Chunks(r))
        <3>1. Append(temp[r], <<r, arrived[r] + 1>>) = Chunks(r)
            BY <1>2, <2>1, TwoChunks
        <3> QED
            BY <1>2, <3>1 DEF JsonChunk
    <2>3. BodiesWhole'
        BY <2>2 DEF Given, BodiesWhole
    <2>4. Buffers'
        BY <1>2 DEF JsonChunk, Buffers, Ends
    <2> QED
        BY <1>1, <2>3, <2>4
<1>3. CASE arrived[r] = 0
    <2>1. Append(temp[r], <<r, arrived[r] + 1>>) = FirstChunk(r)
        <3>1. temp[r] = <<>> /\ arrived[r] + 1 = 1
            BY <1>3 DEF JsonChunk, Buffers
        <3> QED
            BY <3>1, LoneChunk
    <2>2. Buffers'
        BY <1>3, <2>1 DEF JsonChunk, Buffers
    <2>3. BodiesWhole'
        BY <1>3 DEF JsonChunk, BodiesWhole
    <2> QED
        BY <1>1, <2>2, <2>3
<1> QED
    BY <1>2, <1>3 DEF Buffers

\* A chunk of an event goes to the buffer of its length, which nobody else uses.
LEMMA EventStep ==
  ASSUME WebInv, Distinct, NEW r \in Req, EventChunk(r) PROVE WebInv'
<1> USE DEF WebInv
<1>1. matched' \subseteq Req
    BY DEF EventChunk, Ends
<1>2. BufferKey(r) \in Sizes /\ r \in Events
    BY DEF BufferKey, Sizes, EventChunk
<1>3. CASE arrived[r] = 1
    <2>1. inflight[BufferKey(r)] \in {<<>>, FirstChunk(r)}
        BY <1>2 DEF Buffers, Distinct, BufferKey
    <2>2. handled' = Given(r, Append(inflight[BufferKey(r)], <<r, 2>>))
        BY <1>3 DEF EventChunk, Collected
    <2>3. BodiesWhole'
        <3>1. CASE inflight[BufferKey(r)] = <<>>
            BY <3>1, <2>2, LoneChunk DEF Given, BodiesWhole
        <3>2. CASE inflight[BufferKey(r)] = FirstChunk(r)
            BY <3>2, <2>2, TwoChunks DEF Given, BodiesWhole
        <3> QED
            BY <2>1, <3>1, <3>2
    <2>4. Buffers'
        BY <1>2, <1>3 DEF EventChunk, Buffers, Ends
    <2> QED
        BY <1>1, <2>3, <2>4
<1>4. CASE arrived[r] = 0
    <2>1. Collected(inflight[BufferKey(r)], r) = FirstChunk(r)
        BY <1>4 DEF Collected, FirstChunk
    <2>2. Buffers'
        BY <1>2, <1>4, <2>1 DEF EventChunk, Buffers, BufferKey
    <2>3. BodiesWhole'
        BY <1>4 DEF EventChunk, BodiesWhole
    <2> QED
        BY <1>1, <2>2, <2>3
<1> QED
    BY <1>3, <1>4 DEF Buffers

\* Every step keeps the buffers and the bodies whole.
LEMMA WebStep == Distinct /\ WebInv /\ [WebNext]_requests => WebInv'
<1> SUFFICES ASSUME Distinct, WebInv, [WebNext]_requests PROVE WebInv'
    OBVIOUS
<1> USE DEF WebInv
<1>1. CASE \E r \in Req : Matches(r) \/ Gets(r)
    BY <1>1 DEF Matches, Gets, Buffers, BodiesWhole
<1>2. CASE \E r \in Req : JsonChunk(r)
    BY <1>2, JsonStep
<1>3. CASE \E r \in Req : EventChunk(r)
    BY <1>3, EventStep
<1>4. CASE \E r \in Req : Breaks(r)
    BY <1>4 DEF Breaks, Ends, Buffers, BodiesWhole
<1>5. CASE ClearsAll
    BY <1>5 DEF ClearsAll, Buffers, BodiesWhole
<1>6. CASE UNCHANGED requests
    BY <1>6 DEF requests, Buffers, BodiesWhole
<1> QED
    BY <1>1, <1>2, <1>3, <1>4, <1>5, <1>6 DEF WebNext

\* For any set of requests whose events differ in length: a handler gets the whole body of
\* its own request (api_endpoints.cpp:350-386, event_store.cpp:279-318).
THEOREM BodiesTheorem == Distinct /\ WebSpec => []BodiesWhole
<1>1. WebInv => BodiesWhole
    BY DEF WebInv
<1>2. SUFFICES ASSUME Distinct PROVE WebSpec => []BodiesWhole
    OBVIOUS
<1>3. WebInv /\ [WebNext]_requests => WebInv'
    BY <1>2, WebStep
<1> QED
    BY <1>1, <1>3, WebStart, PTL DEF WebSpec

\* A request collects one chunk before its last, and the path is one of a request.
WebHeld ==
  /\ params \in Req \cup {NoReq} /\ matched \subseteq Req /\ handled.req \in Req \cup {NoReq}
  /\ arrived \in [Req -> 0..1]
  /\ temp \in [Req -> {<<>>} \cup {FirstChunk(r) : r \in Req}]
  /\ \A r \in Req : arrived[r] = 0 /\ r \notin Events => temp[r] = <<>>

\* Every callback leaves at most one chunk behind.
LEMMA WebHeldStep == WebHeld /\ [WebNext]_requests => WebHeld'
<1> SUFFICES ASSUME WebHeld, [WebNext]_requests PROVE WebHeld'
    OBVIOUS
<1> USE DEF WebHeld
<1>1. \A b : \A r \in Req : Given(r, b).req \in Req \cup {NoReq}
    BY DEF Given
<1>2. ASSUME NEW r \in Req, Matches(r) \/ Gets(r) PROVE WebHeld'
    BY <1>2 DEF Matches, Gets
<1>3. ASSUME NEW r \in Req, JsonChunk(r) PROVE WebHeld'
  <2> DEFINE buffer == Append(temp[r], <<r, arrived[r] + 1>>)
  <2>1. CASE arrived[r] = 1
    <3>1. /\ handled' = Given(r, buffer) /\ temp' = [temp EXCEPT ![r] = <<>>]
          /\ arrived' = [arrived EXCEPT ![r] = 0] /\ matched' = matched \ {r} /\ params' = params
        BY <1>3, <2>1 DEF JsonChunk, Ends
    <3> HIDE DEF buffer
    <3> QED
        BY <1>1, <3>1
  <2>2. CASE arrived[r] = 0
    <3>1. /\ temp' = [temp EXCEPT ![r] = buffer] /\ arrived' = [arrived EXCEPT ![r] = arrived[r] + 1]
          /\ UNCHANGED <<handled, matched, params>> /\ r \notin Events
        BY <1>3, <2>2 DEF JsonChunk
    <3>2. buffer = FirstChunk(r)
      <4>1. temp[r] = <<>>
          BY <2>2, <3>1
      <4> QED
          BY <2>2, <4>1 DEF FirstChunk
    <3> HIDE DEF buffer
    <3> QED
        BY <2>2, <3>1, <3>2
  <2> QED
      BY <2>1, <2>2
<1>4. ASSUME NEW r \in Req, EventChunk(r) PROVE WebHeld'
  <2> DEFINE buffer == Collected(inflight[BufferKey(r)], r)
  <2>1. CASE arrived[r] = 1
    <3>1. /\ handled' = Given(r, buffer) /\ temp' = temp
          /\ arrived' = [arrived EXCEPT ![r] = 0] /\ matched' = matched \ {r} /\ params' = params
          /\ r \in Events
        BY <1>4, <2>1 DEF EventChunk, Ends
    <3> HIDE DEF buffer
    <3> QED
        BY <1>1, <3>1
  <2>2. CASE arrived[r] = 0
    <3>1. /\ temp' = temp /\ arrived' = [arrived EXCEPT ![r] = arrived[r] + 1]
          /\ UNCHANGED <<handled, matched, params>> /\ r \in Events
        BY <1>4, <2>2 DEF EventChunk
    <3> QED
        BY <2>2, <3>1
  <2> QED
      BY <2>1, <2>2
<1>5. ASSUME NEW r \in Req, Breaks(r) PROVE WebHeld'
    BY <1>5 DEF Breaks, Ends
<1>6. CASE ClearsAll \/ UNCHANGED requests
    BY <1>6 DEF ClearsAll, requests
<1> QED
    BY <1>2, <1>3, <1>4, <1>5, <1>6 DEF WebNext

\* No buffer of a request holds more than its first chunk between two callbacks, whatever the
\* lengths of the events (api_endpoints.cpp:350-386).
THEOREM WebTypesTheorem == WebSpec => []WebTypeOK
<1>1. WebInit => WebHeld
    BY DEF WebInit, WebHeld, NothingHandled
<1>2. WebHeld => WebTypeOK
    BY DEF WebHeld, WebTypeOK, FirstChunk
<1> QED
    BY <1>1, <1>2, WebHeldStep, PTL DEF WebSpec

-----------------------------------------------------------------------------
(* The cache of live answers.                                               *)

LiveCacheSpec == LiveCacheInit /\ [][LiveCacheNext]_livecache

\* A set of positions has a first one.
LEMMA FirstExists ==
  ASSUME NEW S \in SUBSET Nat, S # {} PROVE First(S) \in S
BY SmallestExists DEF First

CacheEntry == [key : Key \cup {NoKey}, expires : Nat, age : Nat]

\* An entry that is valid is as old as the part of its window that is over.
Dated ==
  ~wrapped => \A i \in Index : outCache[i].expires > now =>
                outCache[i].age + outCache[i].expires <= now + Ttl

LiveCacheInv ==
  /\ outCache \in [Index -> CacheEntry] /\ now \in Nat /\ now < Wrap /\ wrapped \in BOOLEAN
  /\ Dated /\ FreshAnswers

\* The cache is empty at boot.
LEMMA LiveCacheStart == LiveCacheInit => LiveCacheInv
<1> SUFFICES ASSUME LiveCacheInit PROVE LiveCacheInv
    OBVIOUS
<1>1. [key |-> NoKey, expires |-> 0, age |-> 0] \in CacheEntry
    BY DEF CacheEntry
<1>2. outCache \in [Index -> CacheEntry] /\ \A i \in Index : outCache[i].expires = 0
    BY <1>1 DEF LiveCacheInit
<1>3. now = 0 /\ now < Wrap /\ wrapped = FALSE /\ served = 0 /\ 0 < Ttl
    BY LiveCacheAssumption DEF LiveCacheInit
<1>4. Dated
    BY <1>2, <1>3 DEF Dated
<1> QED
    BY <1>2, <1>3, <1>4 DEF LiveCacheInv, FreshAnswers

\* The entry that a new answer replaces is one of the entries.
LEMMA VictimEntry ==
  ASSUME outCache \in [Index -> CacheEntry], NEW k, \E i \in Index : TRUE
  PROVE  Victim(k) \in Index
<1> DEFINE oldest == {i \in Index : \A j \in Index : outCache[i].expires <= outCache[j].expires}
<1>1. oldest # {}
    <2> DEFINE E == {outCache[i].expires : i \in Index}
    <2>1. E \in SUBSET Nat /\ E # {}
        BY DEF CacheEntry
    <2>2. PICK e \in E : \A f \in E : e <= f
        BY <2>1, SmallestExists
    <2> QED
        BY <2>2
<1>2. oldest \in SUBSET Nat /\ oldest \subseteq Index
    BY LiveCacheAssumption DEF Index
<1>3. First(oldest) \in Index
    BY <1>1, <1>2, FirstExists
<1> DEFINE free == {i \in Index : outCache[i].key = k \/ Expired(i)}
<1>4. free # {} => First(free) \in Index
    BY FirstExists, LiveCacheAssumption DEF Index
<1> QED
    BY <1>3, <1>4 DEF Victim

\* A fill, an answer and a tick of the clock keep the entries dated.
LEMMA LiveCacheStep == LiveCacheInv /\ [LiveCacheNext]_livecache => LiveCacheInv'
<1> SUFFICES ASSUME LiveCacheInv, [LiveCacheNext]_livecache PROVE LiveCacheInv'
    OBVIOUS
<1> USE LiveCacheAssumption DEF LiveCacheInv
<1>1. ASSUME NEW k \in Key, AnswersFromCache(k) PROVE LiveCacheInv'
    <2>1. Hits(k) \in SUBSET Nat /\ Hits(k) # {}
        BY <1>1 DEF AnswersFromCache, Hits, Index
    <2>2. First(Hits(k)) \in Hits(k)
        BY <2>1, FirstExists
    <2> DEFINE i == First(Hits(k))
    <2>3. i \in Index /\ outCache[i] \in CacheEntry /\ outCache[i].expires > now
        BY <2>2 DEF Hits, Expired, CacheEntry
    <2>4. ~wrapped => outCache[i].age < Ttl
        BY <2>3 DEF Dated, CacheEntry
    <2> QED
        BY <1>1, <2>4 DEF AnswersFromCache, Dated, FreshAnswers
<1>2. ASSUME NEW k \in Key, AsksSpeaker(k) PROVE LiveCacheInv'
    <2> DEFINE new == [key |-> k, expires |-> (now + Ttl) % Wrap, age |-> 0]
    <2>1. outCache' = [outCache EXCEPT ![Victim(k)] = new]
        BY <1>2 DEF AsksSpeaker, Put
    <2>2. new \in CacheEntry /\ new.expires <= now + Ttl
        BY DEF CacheEntry
    <2> HIDE DEF new
    <2>3. outCache' \in [Index -> CacheEntry]
        BY <2>1, <2>2
    <2>4. Dated'
        BY <1>2, <2>1, <2>2 DEF Dated, AsksSpeaker, new
    <2> QED
        BY <1>2, <2>3, <2>4 DEF AsksSpeaker, FreshAnswers
<1>3. CASE ClockTicks
    <2>1. now' = (now + 1) % Wrap /\ now' \in Nat /\ wrapped' \in BOOLEAN
        BY <1>3 DEF ClockTicks
    <2>5. now < Wrap /\ now' # 0 => now' = now + 1
        BY <2>1
    <2>6. ~wrapped' => ~wrapped /\ now' = now + 1
        BY <1>3, <2>5 DEF ClockTicks
    <2>2. ASSUME NEW i \in Index
          PROVE  /\ outCache'[i] = [outCache[i] EXCEPT !.age = Older(@)]
                 /\ outCache'[i] \in CacheEntry
                 /\ outCache'[i].expires = outCache[i].expires
                 /\ outCache'[i].age <= outCache[i].age + 1
        <3>1. outCache[i] \in CacheEntry
            OBVIOUS
        <3>2. Older(outCache[i].age) \in Nat /\ Older(outCache[i].age) <= outCache[i].age + 1
            BY <3>1 DEF Older, CacheEntry
        <3>3. outCache'[i] = [outCache[i] EXCEPT !.age = Older(outCache[i].age)]
            BY <1>3 DEF ClockTicks
        <3> QED
            BY <3>1, <3>2, <3>3 DEF CacheEntry
    <2>3. outCache' \in [Index -> CacheEntry]
        BY <1>3, <2>2 DEF ClockTicks
    <2>4. Dated'
        <3>1. SUFFICES ASSUME ~wrapped', NEW i \in Index, outCache'[i].expires > now'
                       PROVE  outCache'[i].age + outCache'[i].expires <= now' + Ttl
            BY DEF Dated
        <3>2. /\ outCache[i].age \in Nat /\ outCache[i].expires \in Nat /\ outCache'[i].age \in Nat
              /\ outCache'[i].expires = outCache[i].expires
              /\ outCache'[i].age <= outCache[i].age + 1
            BY <2>2 DEF CacheEntry
        <3>3. outCache[i].expires > now
            BY <3>1, <3>2, <2>6
        <3>4. outCache[i].age + outCache[i].expires <= now + Ttl
            BY <3>1, <3>3, <2>6 DEF Dated
        <3> QED
            BY <3>1, <3>2, <3>4, <2>6
    <2>7. now' < Wrap
        BY <2>1
    <2> QED
        BY <1>3, <2>1, <2>3, <2>4, <2>6, <2>7 DEF ClockTicks, FreshAnswers
<1>4. CASE UNCHANGED livecache
    BY <1>4 DEF livecache, Dated, FreshAnswers, Index, CacheEntry
<1> QED
    BY <1>1, <1>2, <1>3, <1>4 DEF LiveCacheNext

\* For any number of entries, any window and any clock that counts further than the window:
\* until the clock wraps an answer is younger than the window (api_endpoints.cpp:282-302).
THEOREM FreshTheorem == LiveCacheSpec => []FreshAnswers
<1>1. LiveCacheInv => FreshAnswers
    BY DEF LiveCacheInv
<1> QED
    BY <1>1, LiveCacheStart, LiveCacheStep, PTL DEF LiveCacheSpec

\* No expiry lies beyond the wrap, and a body stops aging when it is too old.
CacheBounds ==
  /\ outCache \in [Index -> CacheEntry] /\ now \in 0..(Wrap - 1) /\ served \in 0..(Ttl + 1)
  /\ \A i \in Index : outCache[i].expires < Wrap /\ outCache[i].age <= Ttl + 1

\* Every step, and the wrap of the clock, keep to the bounds.
LEMMA CacheBoundsStep == CacheBounds /\ [LiveCacheNext]_livecache => CacheBounds'
<1> SUFFICES ASSUME CacheBounds, [LiveCacheNext]_livecache PROVE CacheBounds'
    OBVIOUS
<1> USE DEF CacheBounds
<1>1. ASSUME NEW k \in Key, AnswersFromCache(k) PROVE CacheBounds'
  <2>1. Hits(k) \in SUBSET Nat /\ Hits(k) \subseteq Index /\ Hits(k) # {}
      BY <1>1 DEF Hits, Index, AnswersFromCache
  <2>2. First(Hits(k)) \in Index
      BY <2>1, FirstExists
  <2> QED
      BY <1>1, <2>2, LiveCacheAssumption DEF AnswersFromCache, CacheEntry
<1>2. ASSUME NEW k \in Key, AsksSpeaker(k) PROVE CacheBounds'
  <2> DEFINE e == [key |-> k, expires |-> (now + Ttl) % Wrap, age |-> 0]
  <2>1. e.expires \in 0..(Wrap - 1) /\ e.age = 0 /\ e.key = k
      BY LiveCacheAssumption
  <2>2. e \in CacheEntry
      BY <2>1, LiveCacheAssumption DEF CacheEntry
  <2> HIDE DEF e
  <2>3. outCache' = [outCache EXCEPT ![Victim(k)] = e] /\ served' = 0 /\ now' = now
      BY <1>2 DEF AsksSpeaker, Put, e
  <2>4. \A i \in Index : outCache'[i] = e \/ outCache'[i] = outCache[i]
      BY <2>3
  <2>5. outCache' \in [Index -> CacheEntry]
      BY <2>2, <2>3
  <2> QED
      BY <2>1, <2>3, <2>4, <2>5, LiveCacheAssumption
<1>3. CASE ClockTicks
  <2>1. now' \in 0..(Wrap - 1) /\ served' = served
      BY <1>3, LiveCacheAssumption DEF ClockTicks
  <2>2. ASSUME NEW i \in Index
        PROVE  /\ [outCache[i] EXCEPT !.age = Older(@)] \in CacheEntry
               /\ [outCache[i] EXCEPT !.age = Older(@)].age <= Ttl + 1
               /\ [outCache[i] EXCEPT !.age = Older(@)].expires = outCache[i].expires
      BY LiveCacheAssumption DEF CacheEntry, Older
  <2>3. outCache' = [i \in Index |-> [outCache[i] EXCEPT !.age = Older(@)]]
      BY <1>3 DEF ClockTicks
  <2> QED
      BY <2>1, <2>2, <2>3
<1>4. CASE UNCHANGED livecache
    BY <1>4 DEF livecache
<1> QED
    BY <1>1, <1>2, <1>3, <1>4 DEF LiveCacheNext

\* The entries of the cache and its clock stay in their ranges, also when millis() wraps
\* (api_endpoints.cpp:282-302).
THEOREM LiveCacheTypesTheorem == LiveCacheSpec => []LiveCacheTypeOK
<1>1. LiveCacheInit => CacheBounds
  <2>1. [key |-> NoKey, expires |-> 0, age |-> 0] \in CacheEntry
      BY DEF CacheEntry
  <2> QED
      BY <2>1, LiveCacheAssumption DEF LiveCacheInit, CacheBounds
<1>2. CacheBounds => LiveCacheTypeOK
    BY LiveCacheAssumption DEF CacheBounds, LiveCacheTypeOK, CacheEntry
<1> QED
    BY <1>1, <1>2, CacheBoundsStep, PTL DEF LiveCacheSpec

-----------------------------------------------------------------------------
(* The dumps of the flight recorder.                                        *)

BlackboxSpec == BlackboxInit /\ [][BlackboxNext]_blackbox

\* The shape of the records the dumps are made of.
RingRecord == [seq : Nat, run : Nat, pending : BOOLEAN, dur : Nat, end : Nat]
SnapRecord ==
  [magic : BOOLEAN, dur : Nat, end : Nat, harvested : BOOLEAN, partial : BOOLEAN,
   rows : [Rows -> Int]]
ServiceRecord == [at : {"idle", "read", "copy"}, dur : Nat, end : Nat, row : Nat]
DumpRecord ==
  [at : {"none", "head", "rows", "done"}, end : Nat, rows : [Rows -> Int], row : 0..RingLen]

DumpTypes ==
  /\ ring \in RingRecord /\ snap \in SnapRecord /\ service \in ServiceRecord
  /\ lock \in [busy : BOOLEAN, ticks : Nat] /\ dump \in [Dump -> DumpRecord]

\* One dump at a time holds the lock, and while it does loop() rests.
DumpAlone ==
  \A q \in Dump : dump[q].at # "none" =>
    /\ lock.busy /\ service.at = "idle"
    /\ \A r \in Dump : dump[r].at # "none" => r = q

\* What a dump has sent is the snapshot as it is.
SentIsSnap ==
  \A q \in Dump :
    /\ dump[q].at \in {"none", "head"} => dump[q].row = 0
    /\ dump[q].at = "rows" =>
         /\ dump[q].end = snap.end
         /\ \A i \in 0..(dump[q].row - 1) : dump[q].rows[i] = snap.rows[i]

(***************************************************************************)
(* DumpCoherent itself is not inductive: that the snapshot stands still    *)
(* follows from the lock, and that the lock is not given up by another     *)
(* dump's end from there being only one.                                   *)
(***************************************************************************)
BlackboxInv == DumpTypes /\ (dumpEnv = {} => DumpAlone /\ SentIsSnap)

\* The records a boot starts from.
LEMMA FreshRecords ==
  /\ FreshRing \in RingRecord /\ NoSnap \in SnapRecord
  /\ Resting \in ServiceRecord /\ NoDump \in DumpRecord
  /\ Unlocked \in [busy : BOOLEAN, ticks : Nat]
BY BlackboxAssumption
   DEF FreshRing, NoSnap, Resting, NoDump, Unlocked, NoRows, Rows, NoSample,
       RingRecord, SnapRecord, ServiceRecord, DumpRecord

\* The first boot has no dump.
LEMMA BlackboxStart == BlackboxInit => BlackboxInv
BY FreshRecords DEF BlackboxInit, BlackboxInv, DumpTypes, DumpAlone, SentIsSnap, NoDump

\* A sample of the ring is a number.
LEMMA RingAtInt == ASSUME ring \in RingRecord, NEW i \in Rows PROVE RingAt(i) \in Int
BY BlackboxAssumption DEF RingRecord, RingAt, Rows, NoSample

\* A step of one dump.
LEMMA DumpStep ==
  ASSUME BlackboxInv, NEW q \in Dump,
         DumpStarts(q) \/ DumpOpens(q) \/ DumpSends(q) \/ DumpEnds(q)
  PROVE  BlackboxInv'
<1> USE DEF DumpTypes, DumpAlone, SentIsSnap
<1>0. DumpTypes /\ (dumpEnv = {} => DumpAlone /\ SentIsSnap) /\ dump[q] \in DumpRecord
    BY DEF BlackboxInv
<1>1. ASSUME NEW e \in DumpRecord, dump' = [dump EXCEPT ![q] = e],
             UNCHANGED <<ring, snap, service, lock, dumpEnv>>, dump[q].at # "none",
             e.at \in {"rows", "done"},
             dumpEnv = {} /\ e.at = "rows" =>
               e.end = snap.end /\ \A i \in 0..(e.row - 1) : e.rows[i] = snap.rows[i]
      PROVE  BlackboxInv'
  <2>1. DumpTypes'
      BY <1>0, <1>1
  <2>2. dump'[q] = e /\ \A r \in Dump : r # q => dump'[r] = dump[r]
      BY <1>0, <1>1
  <2>3. ASSUME dumpEnv = {} PROVE DumpAlone' /\ SentIsSnap'
      BY <1>0, <1>1, <2>2, <2>3
  <2> QED
      BY <1>1, <2>1, <2>3 DEF BlackboxInv
<1>2. CASE DumpStarts(q)
  <2>1. [dump[q] EXCEPT !.at = "head"] \in DumpRecord
      BY <1>0 DEF DumpRecord
  <2>2. DumpTypes'
      BY <1>0, <1>2, <2>1 DEF DumpStarts
  <2>3. dump'[q].at = "head" /\ dump'[q].row = dump[q].row /\ \A r \in Dump : r # q => dump'[r] = dump[r]
      BY <1>0, <1>2 DEF DumpStarts, DumpRecord
  <2>4. ASSUME dumpEnv = {} PROVE DumpAlone' /\ SentIsSnap'
    <3>1. service.at = "idle" /\ \A r \in Dump : dump[r].at = "none"
        BY <1>2, <2>4 DEF DumpStarts
    <3> QED
        BY <1>0, <1>2, <2>3, <2>4, <3>1 DEF DumpStarts
  <2> QED
      BY <1>2, <2>2, <2>4 DEF BlackboxInv, DumpStarts
<1>3. CASE DumpOpens(q)
  <2> DEFINE e == IF snap.magic THEN [dump[q] EXCEPT !.at = "rows", !.end = snap.end]
                  ELSE [dump[q] EXCEPT !.at = "done"]
  <2>1. e \in DumpRecord
      BY <1>0 DEF DumpRecord, SnapRecord
  <2>2. e.at \in {"rows", "done"} /\ (e.at = "rows" => e.end = snap.end /\ e.row = dump[q].row)
      BY <1>0 DEF DumpRecord
  <2>3. dumpEnv = {} => dump[q].row = 0
      BY <1>0, <1>3 DEF DumpOpens
  <2>4. dump' = [dump EXCEPT ![q] = e] /\ UNCHANGED <<ring, snap, service, lock, dumpEnv>>
      BY <1>3 DEF DumpOpens
  <2>5. dump[q].at # "none"
      BY <1>3 DEF DumpOpens
  <2> HIDE DEF e
  <2>6. dumpEnv = {} /\ e.at = "rows" =>
          e.end = snap.end /\ \A i \in 0..(e.row - 1) : e.rows[i] = snap.rows[i]
      BY <2>2, <2>3
  <2> QED
      BY <1>1, <2>1, <2>2, <2>4, <2>5, <2>6
<1>4. CASE DumpSends(q)
  <2>1. PICK n \in Fits(q) :
          dump' = [dump EXCEPT ![q] =
            [@ EXCEPT !.row = n,
                      !.rows = [i \in Rows |-> IF i \in dump[q].row..(n - 1) THEN snap.rows[i]
                                               ELSE dump[q].rows[i]]]]
      BY <1>4 DEF DumpSends
  <2> DEFINE rows == [i \in Rows |-> IF i \in dump[q].row..(n - 1) THEN snap.rows[i]
                                     ELSE dump[q].rows[i]]
             e == [dump[q] EXCEPT !.row = n, !.rows = rows]
  <2>2. n \in 0..RingLen /\ dump[q].row \in 0..RingLen
      BY <1>0, <2>1, BlackboxAssumption DEF Fits, DumpRecord
  <2>3. rows \in [Rows -> Int]
      BY <1>0 DEF DumpRecord, SnapRecord
  <2>4. e \in DumpRecord /\ e.row = n /\ e.rows = rows /\ e.end = dump[q].end /\ e.at = dump[q].at
    <3> HIDE DEF rows
    <3> QED
        BY <1>0, <2>2, <2>3 DEF DumpRecord
  <2>5. dump' = [dump EXCEPT ![q] = e] /\ UNCHANGED <<ring, snap, service, lock, dumpEnv>>
      BY <1>4, <2>1 DEF DumpSends
  <2>6. dump[q].at = "rows"
      BY <1>4 DEF DumpSends
  <2>7. ASSUME dumpEnv = {}, NEW i \in 0..(n - 1) PROVE rows[i] = snap.rows[i]
    <3>1. dump[q].rows[i] = snap.rows[i] \/ i \in dump[q].row..(n - 1)
        BY <1>0, <2>2, <2>6, <2>7
    <3>2. i \in Rows
        BY <2>2, BlackboxAssumption DEF Rows
    <3> QED
        BY <3>1, <3>2
  <2> HIDE DEF e, rows
  <2> QED
      BY <1>0, <1>1, <2>4, <2>5, <2>6, <2>7
<1>5. CASE DumpEnds(q)
  <2>1. DumpTypes'
      BY <1>0, <1>5, FreshRecords DEF DumpEnds
  <2>2. dump'[q].at = "none" /\ dump'[q].row = 0 /\ \A r \in Dump : r # q => dump'[r] = dump[r]
      BY <1>0, <1>5 DEF DumpEnds, NoDump
  <2>3. ASSUME dumpEnv = {} PROVE DumpAlone' /\ SentIsSnap'
    <3>1. \A r \in Dump : dump'[r].at = "none" /\ dump'[r].row = 0
        BY <1>0, <1>5, <2>2, <2>3 DEF DumpEnds
    <3> QED
        BY <3>1
  <2> QED
      BY <1>5, <2>1, <2>3 DEF BlackboxInv, DumpEnds
<1> QED
    BY <1>2, <1>3, <1>4, <1>5

\* A step of loop().
LEMMA ServiceStep ==
  ASSUME BlackboxInv, ServiceWaits \/ ServiceReads \/ ServiceTakes \/ CopiesRow \/ CopyDescribed
  PROVE  BlackboxInv'
<1>0. DumpTypes /\ (dumpEnv = {} => DumpAlone /\ SentIsSnap)
    BY DEF BlackboxInv
<1> USE DEF DumpAlone, SentIsSnap
<1>1. CASE ServiceWaits
  <2>1. /\ [lock EXCEPT !.ticks = @ + 1] \in [busy : BOOLEAN, ticks : Nat]
        /\ [lock EXCEPT !.ticks = @ + 1].busy = lock.busy
      BY <1>0 DEF DumpTypes
  <2> QED
      BY <1>0, <1>1, <2>1 DEF ServiceWaits, BlackboxInv, DumpTypes
<1>2. CASE ServiceReads
  <2>1. [Resting EXCEPT !.at = "read", !.dur = ring.dur] \in ServiceRecord
      BY <1>0, FreshRecords DEF DumpTypes, ServiceRecord, RingRecord
  <2>2. DumpTypes'
      BY <1>0, <1>2, <2>1, FreshRecords DEF ServiceReads, LockOpens, LockForced, DumpTypes
  <2>3. ASSUME dumpEnv = {} PROVE \A q \in Dump : dump[q].at = "none"
      BY <1>0, <1>2, <2>3 DEF ServiceReads, LockOpens, LockForced
  <2> QED
      BY <1>2, <2>2, <2>3 DEF ServiceReads, BlackboxInv
<1>3. ASSUME ServiceTakes \/ CopiesRow \/ CopyDescribed, DumpTypes' PROVE BlackboxInv'
  <2>1. service.at # "idle" /\ UNCHANGED <<dump, lock, dumpEnv>>
      BY <1>3 DEF ServiceTakes, CopiesRow, CopyDescribed
  <2> QED
      BY <1>0, <1>3, <2>1 DEF BlackboxInv
<1>4. CASE ServiceTakes
  <2>1. [ring EXCEPT !.pending = FALSE] \in RingRecord
      BY <1>0 DEF DumpTypes, RingRecord
  <2>2. [service EXCEPT !.at = "copy", !.end = ring.end] \in ServiceRecord
      BY <1>0 DEF DumpTypes, RingRecord, ServiceRecord
  <2> QED
      BY <1>0, <1>3, <1>4, <2>1, <2>2, FreshRecords DEF ServiceTakes, DumpTypes
<1>5. CASE CopiesRow
  <2>1. service.row \in Rows
      BY <1>0, <1>5, BlackboxAssumption DEF CopiesRow, Rows, DumpTypes, ServiceRecord
  <2>2. RingAt(service.row) \in Int
      BY <1>0, <2>1, RingAtInt DEF DumpTypes
  <2>3. [snap EXCEPT !.rows[service.row] = RingAt(service.row)] \in SnapRecord
      BY <1>0, <2>1, <2>2 DEF DumpTypes, SnapRecord
  <2>4. [service EXCEPT !.row = @ + 1] \in ServiceRecord
      BY <1>0 DEF DumpTypes, ServiceRecord
  <2> QED
      BY <1>0, <1>3, <1>5, <2>3, <2>4 DEF CopiesRow, DumpTypes
<1>6. CASE CopyDescribed
  <2>1. ASSUME NEW p \in BOOLEAN
        PROVE  [snap EXCEPT !.magic = TRUE, !.dur = service.dur, !.end = service.end,
                            !.harvested = FALSE, !.partial = p] \in SnapRecord
      BY <1>0 DEF DumpTypes, SnapRecord, ServiceRecord
  <2>2. (ring.seq - service.end > RingLen - Slack) \in BOOLEAN
      OBVIOUS
  <2>3. snap' \in SnapRecord
      BY <1>6, <2>1, <2>2, Zenon DEF CopyDescribed
  <2> QED
      BY <1>0, <1>3, <1>6, <2>3, FreshRecords DEF CopyDescribed, DumpTypes
<1> QED
    BY <1>1, <1>2, <1>4, <1>5, <1>6

\* Every step.
LEMMA BlackboxStep == BlackboxInv /\ [BlackboxNext]_blackbox => BlackboxInv'
<1> SUFFICES ASSUME BlackboxInv, [BlackboxNext]_blackbox PROVE BlackboxInv'
    OBVIOUS
<1>0. DumpTypes /\ (dumpEnv = {} => DumpAlone /\ SentIsSnap)
    BY DEF BlackboxInv
<1> USE DEF DumpAlone, SentIsSnap
<1>1. ASSUME ring' \in RingRecord, UNCHANGED <<snap, service, lock, dump, dumpEnv>>
      PROVE  BlackboxInv'
    BY <1>0, <1>1 DEF BlackboxInv, DumpTypes
<1>2. CASE TickStands \/ TickMoves
  <2>1. ring.seq + 1 \in Nat /\ ring.run + 1 \in Nat /\ ring.run \in Nat /\ ring.seq \in Nat
      BY <1>0 DEF DumpTypes, RingRecord
  <2>2. ring \in RingRecord
      BY <1>0 DEF DumpTypes
  <2>3. /\ [ring EXCEPT !.run = ring.run + 1, !.seq = ring.seq + 1] \in RingRecord
        /\ [ring EXCEPT !.run = 0, !.seq = ring.seq + 1] \in RingRecord
        /\ [seq |-> ring.seq + 1, run |-> 0,
            pending |-> TRUE, dur |-> ring.run, end |-> ring.seq] \in RingRecord
      BY <2>1, <2>2 DEF RingRecord
  <2>4. ring' \in RingRecord
      BY <1>2, <2>3 DEF TickStands, TickMoves
  <2> QED
      BY <1>1, <1>2, <2>4 DEF TickStands, TickMoves
<1>3. CASE Acknowledges
  <2>1. snap' \in SnapRecord /\ snap'.end = snap.end /\ snap'.rows = snap.rows
      BY <1>0, <1>3 DEF Acknowledges, DumpTypes, SnapRecord
  <2> QED
      BY <1>0, <1>3, <2>1 DEF Acknowledges, BlackboxInv, DumpTypes
<1>4. CASE AfterPowerOn \/ AfterPanic \/ AfterRestart
  <2>1. Restarts /\ snap' \in SnapRecord
      BY <1>0, <1>4, FreshRecords DEF AfterPowerOn, AfterPanic, AfterRestart, DumpTypes
  <2>2. DumpTypes'
      BY <2>1, FreshRecords DEF Restarts, DumpTypes
  <2>3. \A q \in Dump : dump'[q].at = "none" /\ dump'[q].row = 0
      BY <2>1 DEF Restarts, NoDump
  <2> QED
      BY <2>2, <2>3 DEF BlackboxInv
<1>5. CASE UNCHANGED blackbox
    BY <1>0, <1>1, <1>5 DEF blackbox, DumpTypes
<1> QED
    BY <1>2, <1>3, <1>4, <1>5, DumpStep, ServiceStep DEF BlackboxNext

\* For a ring of any length and any number of readers: a dump that nobody overlaps and that
\* is not slow sends one snapshot (systimer_blackbox.cpp:305-326).
THEOREM DumpTheorem == BlackboxSpec => []DumpCoherent
<1>1. BlackboxInv => DumpCoherent
    BY DEF BlackboxInv, SentIsSnap, DumpCoherent
<1> QED
    BY <1>1, BlackboxStart, BlackboxStep, PTL DEF BlackboxSpec

\* Every sample is one the ring has seen since the power came on.
RingBounds ==
  /\ ring.seq <= MaxSample /\ ring.run <= ring.seq
  /\ snap.rows \in [Rows -> NoSample..MaxSample] /\ frozen \in NoSample..MaxSample
  /\ lock.ticks <= BusyLimit

\* A sample of the ring is one it has written.
LEMMA RingAtBounded ==
  ASSUME DumpTypes, RingBounds, NEW i \in Rows PROVE RingAt(i) \in NoSample..MaxSample
<1> DEFINE m == (ring.seq - 1 - i) % RingLen
<1>1. ring.seq \in Nat /\ i \in Nat /\ RingLen \in Nat /\ RingLen # 0
    BY BlackboxAssumption DEF DumpTypes, RingRecord, Rows
<1>2. m \in Nat
    BY <1>1
<1>3. RingAt(i) = IF (ring.seq - 1) - m < 0 THEN NoSample ELSE (ring.seq - 1) - m
    BY DEF RingAt
<1> HIDE DEF m
<1> QED
    BY <1>1, <1>2, <1>3, BlackboxAssumption DEF RingBounds, NoSample

\* Every step of the interrupt, of loop() and of the dumps keeps to the bounds.
LEMMA RingBoundsStep ==
  BlackboxInv /\ RingBounds /\ [BlackboxNext]_blackbox => RingBounds'
<1> SUFFICES ASSUME BlackboxInv, RingBounds, [BlackboxNext]_blackbox PROVE RingBounds'
    OBVIOUS
<1>0. /\ DumpTypes /\ ring \in RingRecord /\ snap \in SnapRecord
      /\ lock \in [busy : BOOLEAN, ticks : Nat]
      /\ ring.seq \in Nat /\ ring.run \in Nat /\ lock.ticks \in Nat
      /\ MaxSample \in Nat /\ BusyLimit \in Nat
    BY BlackboxAssumption DEF BlackboxInv, DumpTypes, RingRecord
<1> USE DEF RingBounds
<1>1. CASE TickStands \/ TickMoves
  <2>1. ring'.seq = ring.seq + 1 /\ (ring'.run = ring.run + 1 \/ ring'.run = 0)
    <3>1. ASSUME NEW n \in Nat
          PROVE  /\ [ring EXCEPT !.run = n, !.seq = ring.seq + 1].seq = ring.seq + 1
                 /\ [ring EXCEPT !.run = n, !.seq = ring.seq + 1].run = n
        BY <1>0 DEF RingRecord
    <3>2. CASE TickStands
        BY <1>0, <3>1, <3>2 DEF TickStands
    <3>3. CASE TickMoves
        BY <1>0, <3>1, <3>3 DEF TickMoves
    <3> QED
        BY <1>1, <3>2, <3>3
  <2>2. ring.seq < MaxSample /\ UNCHANGED <<snap, frozen, lock>>
      BY <1>1 DEF TickStands, TickMoves
  <2> QED
      BY <1>0, <2>1, <2>2
<1>2. CASE ServiceWaits \/ ServiceReads
  <2>1. UNCHANGED <<ring, snap, frozen>>
      BY <1>2 DEF ServiceWaits, ServiceReads
  <2>2. lock'.ticks = lock.ticks \/ lock'.ticks = 0
        \/ (lock'.ticks = lock.ticks + 1 /\ lock.ticks + 1 < BusyLimit)
      BY <1>0, <1>2 DEF ServiceWaits, ServiceReads, LockOpens, LockForced, Unlocked
  <2> QED
      BY <1>0, <2>1, <2>2
<1>3. CASE ServiceTakes
  <2>1. ring'.seq = ring.seq /\ ring'.run = ring.run /\ UNCHANGED <<snap, frozen, lock>>
      BY <1>0, <1>3 DEF ServiceTakes, RingRecord
  <2> QED
      BY <2>1
<1>4. CASE CopiesRow
  <2>1. service.row \in Rows
      BY <1>0, <1>4, BlackboxAssumption DEF CopiesRow, Rows, DumpTypes, ServiceRecord
  <2>2. RingAt(service.row) \in NoSample..MaxSample
      BY <1>0, <2>1, RingAtBounded
  <2>3. snap'.rows = [snap.rows EXCEPT ![service.row] = RingAt(service.row)]
      BY <1>0, <1>4 DEF CopiesRow, SnapRecord
  <2>4. UNCHANGED <<ring, frozen, lock>>
      BY <1>4 DEF CopiesRow
  <2> QED
      BY <2>2, <2>3, <2>4
<1>5. CASE CopyDescribed \/ Acknowledges
  <2>1. snap'.rows = snap.rows /\ UNCHANGED <<ring, frozen, lock>>
      BY <1>0, <1>5 DEF CopyDescribed, Acknowledges, SnapRecord
  <2> QED
      BY <2>1
<1>6. CASE \E q \in Dump : DumpStarts(q) \/ DumpOpens(q) \/ DumpSends(q) \/ DumpEnds(q)
  <2>1. UNCHANGED <<ring, snap, frozen>>
        /\ (lock' = lock \/ lock' = Unlocked \/ lock' = [busy |-> TRUE, ticks |-> 0])
      BY <1>6 DEF DumpStarts, DumpOpens, DumpSends, DumpEnds
  <2>2. lock' = lock \/ lock'.ticks = 0
      BY <2>1 DEF Unlocked
  <2> QED
      BY <1>0, <2>1, <2>2
<1>7. CASE AfterPowerOn \/ AfterPanic \/ AfterRestart
  <2>1. ring'.seq = 0 /\ ring'.run = 0 /\ lock'.ticks = 0
      BY <1>7 DEF AfterPowerOn, AfterPanic, AfterRestart, Restarts, FreshRing, Unlocked
  <2>2. snap'.rows = NoRows \/ snap' = snap
      BY <1>7 DEF AfterPowerOn, AfterPanic, AfterRestart, NoSnap
  <2>3. frozen' = NoSample \/ frozen' = ring.seq
      BY <1>7 DEF AfterPowerOn, AfterPanic, AfterRestart
  <2> QED
      BY <1>0, <2>1, <2>2, <2>3 DEF NoRows, NoSample
<1>8. CASE UNCHANGED blackbox
    BY <1>8 DEF blackbox
<1> QED
    BY <1>1, <1>2, <1>3, <1>4, <1>5, <1>6, <1>7, <1>8 DEF BlackboxNext

\* The ring, the snapshot, the lock and the dumps stay in their ranges, whatever the dumps do
\* (systimer_blackbox.cpp).
THEOREM BlackboxTypesTheorem == BlackboxSpec => []BlackboxTypeOK
<1>1. BlackboxInit => RingBounds
    BY BlackboxAssumption
       DEF BlackboxInit, RingBounds, FreshRing, NoSnap, NoRows, NoSample, Unlocked
<1>2. BlackboxInv /\ RingBounds => BlackboxTypeOK
    BY BlackboxAssumption
       DEF BlackboxInv, RingBounds, BlackboxTypeOK, DumpTypes, RingRecord, ServiceRecord, DumpRecord
<1> QED
    BY <1>1, <1>2, BlackboxStart, BlackboxStep, RingBoundsStep, PTL DEF BlackboxSpec

=============================================================================
