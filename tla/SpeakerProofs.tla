---------------------------- MODULE SpeakerProofs ----------------------------
(***************************************************************************)
(* Proofs about the components that talk to speakers and to their cloud,   *)
(* each on its own: the Spotify login, the watcher of a speaker's websocket, *)
(* the keys pushed to the speakers, and the list that follows their        *)
(* addresses.                                                              *)
(***************************************************************************)
EXTENDS Spotify, Gabbo, PresetPush, Directory, FiniteSetTheorems, SequenceTheorems, TLAPS

-----------------------------------------------------------------------------
(* The Spotify login.                                                      *)

SpotifySpec == SpotifyInit /\ [][SpotifyNext]_spotify

Logins == [user : Account \cup {NoAccount}, access : Account \cup {NoAccount},
           owner : Account \cup {NoAccount}, key : Nat]
RefreshRecord == [at : {"idle", "post", "store"}, owner : Account \cup {NoAccount}, key : Nat]

SpotifyTypes ==
  /\ auth \in Logins /\ saved \in Logins /\ loaded \in BOOLEAN
  /\ unsaved \in BOOLEAN /\ lost \in BOOLEAN
  /\ refresh \in [Tasks -> RefreshRecord] /\ issued \in [Account -> Nat]

\* A login is of one account, and unless the last save failed RAM and flash hold the same.
OneLogin ==
  /\ \A l \in {auth, saved} : l.owner = l.user /\ l.access = l.user
  /\ loaded /\ ~unsaved => auth = saved
  /\ ~loaded => auth = NoAuth /\ ~unsaved

\* The login the stick uses, or will once it has loaded it.
Login == IF loaded THEN auth ELSE saved

\* A refresh works for the account that is logged in.
RefreshOwn ==
  \A t \in Tasks : refresh[t].at # "idle" =>
    loaded /\ refresh[t].owner = auth.owner /\ auth.owner \in Account

\* A request was made with the key of the login or an older one.
PostKeys == ~lost => \A t \in Tasks : refresh[t].at = "post" => refresh[t].key <= Login.key

(***************************************************************************)
(* The key the server accepts is in the login, or exactly one task is      *)
(* about to store it.  Of a login whose key is lost nothing is said: only  *)
(* another login ends that.                                                *)
(***************************************************************************)
KeyKept ==
  ~lost /\ Login.owner \in Account =>
    \/ Login.key = issued[Login.owner] /\ \A t \in Tasks : ~Loses(t)
    \/ /\ Login.key < issued[Login.owner]
       /\ \E t \in Tasks : /\ Loses(t) /\ refresh[t].key = issued[Login.owner]
                           /\ \A s \in Tasks : Loses(s) => s = t

SpotifyInv == SpotifyTypes /\ OneLogin /\ RefreshOwn /\ PostKeys /\ KeyKept

\* Nobody logged in, and a task at rest.
LEMMA RestingTypes ==
  /\ NoAuth \in Logins /\ NoAuth.owner = NoAccount /\ NoAuth.user = NoAccount
  /\ NoAuth.access = NoAccount
  /\ NoRefresh \in RefreshRecord /\ NoRefresh.at = "idle"
BY DEF NoAuth, NoRefresh, Logins, RefreshRecord

\* At the first boot nobody is logged in and no task refreshes.
LEMMA SpotifyStart == SpotifyInit => SpotifyInv
<1> SUFFICES ASSUME SpotifyInit PROVE SpotifyInv
    OBVIOUS
<1>1. SpotifyTypes
    BY RestingTypes DEF SpotifyInit, SpotifyTypes
<1>2. OneLogin /\ RefreshOwn /\ PostKeys /\ KeyKept
    BY RestingTypes, SpotifyAssumption
       DEF SpotifyInit, OneLogin, RefreshOwn, PostKeys, KeyKept, Login
<1> QED
    BY <1>1, <1>2 DEF SpotifyInv

-----------------------------------------------------------------------------
(* A refresh.                                                               *)

\* A task that starts a refresh copies the login of the moment.
LEMMA NeedsStep == ASSUME SpotifyInv, NEW t \in Tasks, NeedsToken(t) PROVE SpotifyInv'
<1> DEFINE new == [at |-> "post", owner |-> auth.owner, key |-> auth.key]
<1>1. /\ refresh' = [refresh EXCEPT ![t] = new] /\ refresh[t].at = "idle"
      /\ loaded /\ auth.owner # NoAccount
      /\ UNCHANGED <<auth, saved, loaded, life, issued, unsaved, lost>>
    BY DEF NeedsToken, Configured
<1>2. /\ new \in RefreshRecord /\ new.at = "post" /\ new.owner = auth.owner /\ new.key = auth.key
      /\ auth.owner \in Account /\ auth.key \in Nat
    BY <1>1 DEF SpotifyInv, SpotifyTypes, Logins, RefreshRecord
<1> HIDE DEF new
<1>3. SpotifyTypes'
    BY <1>1, <1>2 DEF SpotifyInv, SpotifyTypes
<1>4. \A s \in Tasks : refresh'[s] = IF s = t THEN new ELSE refresh[s]
    BY <1>1 DEF SpotifyInv, SpotifyTypes
<1>5. \A s \in Tasks : Loses(s)' <=> Loses(s)
    BY <1>1, <1>2, <1>4 DEF Loses
<1>6. OneLogin' /\ RefreshOwn' /\ PostKeys'
    BY <1>1, <1>2, <1>4 DEF SpotifyInv, OneLogin, RefreshOwn, PostKeys, Login
<1>7. KeyKept'
    BY <1>1, <1>4, <1>5 DEF SpotifyInv, KeyKept, Loses, Login
<1> QED
    BY <1>3, <1>6, <1>7 DEF SpotifyInv

\* What a task remembers of an answer.
LEMMA AnsweredTypes ==
  ASSUME NEW r \in RefreshRecord, NEW k \in Nat
  PROVE  LET new == [r EXCEPT !.at = "store", !.key = k]
         IN new \in RefreshRecord /\ new.at = "store" /\ new.key = k /\ new.owner = r.owner
BY DEF RefreshRecord

\* The server's answer belongs to the account of the token it was asked with.
LEMMA AnswerStep == ASSUME SpotifyInv, NEW t \in Tasks, ServerAnswers(t) PROVE SpotifyInv'
<1> DEFINE r == refresh[t]
<1>1. /\ r.at = "post" /\ r \in RefreshRecord /\ r.owner = auth.owner /\ auth.owner \in Account
      /\ loaded /\ r.key = issued[r.owner] /\ r.key \in Nat /\ auth.key \in Nat
      /\ UNCHANGED <<auth, saved, loaded, life, unsaved, lost>>
    BY DEF ServerAnswers, SpotifyInv, SpotifyTypes, RefreshOwn, RefreshRecord, Logins
<1>2. ~lost => /\ r.key <= auth.key /\ auth.key = issued[auth.owner]
               /\ \A s \in Tasks : ~Loses(s)
    BY <1>1 DEF SpotifyInv, SpotifyTypes, PostKeys, KeyKept, Login
<1>3. CASE /\ refresh' = [refresh EXCEPT ![t] = [r EXCEPT !.at = "store", !.key = 0]]
           /\ UNCHANGED issued
    <2> DEFINE new == [r EXCEPT !.at = "store", !.key = 0]
    <2>1. new \in RefreshRecord /\ new.at = "store" /\ new.key = 0 /\ new.owner = r.owner
        BY <1>1 DEF RefreshRecord
    <2> HIDE DEF new
    <2>2. \A s \in Tasks : refresh'[s] = IF s = t THEN new ELSE refresh[s]
        BY <1>3 DEF new, SpotifyInv, SpotifyTypes
    <2>3. SpotifyTypes' /\ OneLogin' /\ RefreshOwn' /\ PostKeys'
        BY <1>1, <1>3, <2>1, <2>2
           DEF new, SpotifyInv, SpotifyTypes, OneLogin, RefreshOwn, PostKeys, Login
    <2>4. \A s \in Tasks : Loses(s)' => Loses(s)
        BY <2>1, <2>2 DEF Loses
    <2>5. KeyKept'
        BY <1>1, <1>2, <1>3, <2>4 DEF KeyKept, Login
    <2> QED
        BY <2>3, <2>5 DEF SpotifyInv
<1>4. CASE /\ refresh' = [refresh EXCEPT ![t] = [r EXCEPT !.at = "store", !.key = @ + 1]]
           /\ issued' = [issued EXCEPT ![r.owner] = @ + 1]
    <2> DEFINE new == [r EXCEPT !.at = "store", !.key = @ + 1]
    <2>1. new \in RefreshRecord /\ new.at = "store" /\ new.key = r.key + 1 /\ new.owner = r.owner
          /\ new.key # 0
        <3>1. new = [r EXCEPT !.at = "store", !.key = r.key + 1]
            OBVIOUS
        <3>2. r.key + 1 \in Nat /\ r.key + 1 # 0
            BY <1>1
        <3> HIDE DEF new
        <3> QED
            BY <1>1, <3>1, <3>2, AnsweredTypes
    <2> HIDE DEF new
    <2>2. \A s \in Tasks : refresh'[s] = IF s = t THEN new ELSE refresh[s]
        BY <1>4 DEF new, SpotifyInv, SpotifyTypes
    <2>3. issued' \in [Account -> Nat] /\ issued'[auth.owner] = r.key + 1
        BY <1>1, <1>4 DEF SpotifyInv, SpotifyTypes
    <2>4. SpotifyTypes' /\ OneLogin' /\ RefreshOwn' /\ PostKeys'
        BY <1>1, <1>4, <2>1, <2>2, <2>3
           DEF new, SpotifyInv, SpotifyTypes, OneLogin, RefreshOwn, PostKeys, Login
    <2>5. Loses(t)' /\ \A s \in Tasks \ {t} : Loses(s)' <=> Loses(s)
        BY <2>1, <2>2 DEF Loses
    <2>6. KeyKept'
        BY <1>1, <1>2, <2>1, <2>2, <2>3, <2>5 DEF KeyKept, Login
    <2> QED
        BY <2>4, <2>6 DEF SpotifyInv
<1> QED
    BY <1>3, <1>4 DEF ServerAnswers

\* A login that is saved, or not, is a login.
LEMMA SavesLogin ==
  ASSUME SavesAuth, auth' \in Logins, saved \in Logins
  PROVE  /\ saved' \in {auth', saved} /\ saved' \in Logins /\ unsaved' \in BOOLEAN
         /\ ~unsaved' => auth' = saved'
BY DEF SavesAuth

\* Storing an answer keeps tokens of one account, in RAM and in flash.
LEMMA StoreStep == ASSUME SpotifyInv, NEW t \in Tasks, Stores(t) PROVE SpotifyInv'
<1> DEFINE r == refresh[t]
<1>1. /\ r.at = "store" /\ r \in RefreshRecord /\ r.owner = auth.owner /\ auth.owner \in Account
      /\ r.key \in Nat /\ loaded /\ auth \in Logins /\ saved \in Logins
      /\ auth.user = auth.owner /\ auth.access = auth.owner
      /\ auth' = Renewed(r) /\ SavesAuth /\ UNCHANGED <<loaded, issued, lost>>
      /\ refresh' = [refresh EXCEPT ![t] = NoRefresh]
    BY DEF Stores, SpotifyInv, SpotifyTypes, RefreshOwn, OneLogin, RefreshRecord
<1>2. \A s \in Tasks : refresh'[s] = IF s = t THEN NoRefresh ELSE refresh[s]
    BY <1>1 DEF SpotifyInv, SpotifyTypes
<1>3. \A s \in Tasks : Loses(s)' <=> (s # t /\ Loses(s))
    BY <1>2, RestingTypes DEF Loses
<1>4. /\ auth' \in Logins /\ auth'.owner = auth.owner /\ auth'.user = auth.owner
      /\ auth'.access = auth.owner /\ auth'.key = IF r.key = 0 THEN auth.key ELSE r.key
    BY <1>1 DEF Renewed, Logins
<1>5. SpotifyTypes' /\ OneLogin' /\ RefreshOwn'
    BY <1>1, <1>2, <1>4, SavesLogin, RestingTypes
       DEF SpotifyInv, SpotifyTypes, OneLogin, RefreshOwn
<1>6. CASE r.key = 0
    <2>1. ~Loses(t)
        BY <1>6 DEF Loses
    <2>2. PostKeys'
        BY <1>1, <1>2, <1>4, <1>6, RestingTypes DEF SpotifyInv, PostKeys, Login
    <2>3. KeyKept'
        BY <1>1, <1>2, <1>3, <1>4, <1>6, <2>1 DEF SpotifyInv, KeyKept, Login
    <2> QED
        BY <1>5, <2>2, <2>3 DEF SpotifyInv
<1>7. CASE r.key # 0
    <2>1. Loses(t)
        BY <1>1, <1>7 DEF Loses
    <2>2. ~lost => /\ auth.key < issued[auth.owner] /\ r.key = issued[auth.owner]
                   /\ \A s \in Tasks : Loses(s) => s = t
        BY <1>1, <2>1 DEF SpotifyInv, KeyKept, Login
    <2>3. auth.key \in Nat /\ issued[auth.owner] \in Nat
          /\ \A s \in Tasks : refresh[s].key \in Nat
        BY <1>1 DEF SpotifyInv, SpotifyTypes, Logins, RefreshRecord
    <2>4. PostKeys'
        BY <1>1, <1>2, <1>4, <1>7, <2>2, <2>3, RestingTypes DEF SpotifyInv, PostKeys, Login
    <2>5. KeyKept'
        BY <1>1, <1>3, <1>4, <1>7, <2>2 DEF KeyKept, Login
    <2> QED
        BY <1>5, <2>4, <2>5 DEF SpotifyInv
<1> QED
    BY <1>6, <1>7

\* A refresh ends without a change of the login.
LEMMA EndStep ==
  ASSUME SpotifyInv, NEW t \in Tasks, Refused(t) \/ StoreTimesOut(t) PROVE SpotifyInv'
<1>1. /\ refresh' = [refresh EXCEPT ![t] = NoRefresh]
      /\ UNCHANGED <<auth, saved, loaded, life, unsaved>>
      /\ lost' \in BOOLEAN /\ issued' \in [Account -> Nat]
      /\ ~lost' => UNCHANGED issued /\ ~lost /\ ~Loses(t)
    <2>0. issued \in [Account -> Nat] /\ lost \in BOOLEAN /\ Loses(t) \in BOOLEAN
        BY DEF SpotifyInv, SpotifyTypes, Loses
    <2>1. CASE Refused(t)
        <3>1. issued' = issued \/ \E a \in Account : issued' = [issued EXCEPT ![a] = @ + 1]
            BY <2>1 DEF Refused, SpotifyInv, RefreshOwn
        <3>2. issued' \in [Account -> Nat]
            BY <2>0, <3>1
        <3>3. lost' = lost \/ lost' = TRUE
            BY <2>1 DEF Refused
        <3>4. lost' = TRUE \/ UNCHANGED <<issued, lost>>
            BY <2>1 DEF Refused
        <3>5. ~Loses(t)
            BY <2>1 DEF Refused, Loses
        <3> QED
            BY <2>0, <2>1, <3>2, <3>3, <3>4, <3>5 DEF Refused
    <2>2. CASE StoreTimesOut(t)
        BY <2>0, <2>2 DEF StoreTimesOut
    <2> QED
        BY <2>1, <2>2
<1>2. \A s \in Tasks : refresh'[s] = IF s = t THEN NoRefresh ELSE refresh[s]
    BY <1>1 DEF SpotifyInv, SpotifyTypes
<1>3. \A s \in Tasks : Loses(s)' <=> (s # t /\ Loses(s))
    BY <1>2, RestingTypes DEF Loses
<1>4. SpotifyTypes' /\ OneLogin' /\ RefreshOwn' /\ PostKeys'
    BY <1>1, <1>2, RestingTypes
       DEF SpotifyInv, SpotifyTypes, OneLogin, RefreshOwn, PostKeys, Login
<1>5. KeyKept'
    BY <1>1, <1>2, <1>3 DEF SpotifyInv, KeyKept, Login
<1> QED
    BY <1>4, <1>5 DEF SpotifyInv

-----------------------------------------------------------------------------
(* Login, logout, time and power.                                           *)

\* No task is in a refresh when the user may log in or out.
LEMMA ChangeAlone ==
  ASSUME ~LoginOverlaps, MayChange, refresh["web"].at = "idle"
  PROVE  \A t \in Tasks : refresh[t].at = "idle"
BY DEF MayChange, Tasks

\* A login that misses the lock changes nothing but the server's mind.
LEMMA MissedStep ==
  ASSUME SpotifyInv, NEW a \in Account, issued' = [issued EXCEPT ![a] = @ + 1], lost' = TRUE,
         UNCHANGED <<auth, saved, loaded, life, unsaved, refresh>>
  PROVE  SpotifyInv'
<1>1. SpotifyTypes' /\ OneLogin' /\ RefreshOwn'
    BY DEF SpotifyInv, SpotifyTypes, OneLogin, RefreshOwn
<1> QED
    BY <1>1 DEF SpotifyInv, PostKeys, KeyKept

\* Logging in and out replaces both tokens.
LEMMA LoginStep ==
  ASSUME ~LoginOverlaps, SpotifyInv, \/ LogsOut \/ \E a \in Account : LogsIn(a)
  PROVE  SpotifyInv'
<1>1. \A t \in Tasks : refresh[t].at = "idle" /\ refresh'[t] = refresh[t]
    BY ChangeAlone DEF LogsOut, LogsIn
<1>2. \A t \in Tasks : ~Loses(t)'
    BY <1>1 DEF Loses
<1>0. saved \in Logins /\ saved.owner = saved.user /\ saved.access = saved.user
    BY DEF SpotifyInv, SpotifyTypes, OneLogin
<1>3. CASE LogsOut
    <2>1. auth' = NoAuth /\ SavesAuth /\ loaded' = TRUE /\ UNCHANGED <<refresh, issued, lost>>
        BY <1>3 DEF LogsOut
    <2>2. SpotifyTypes'
        BY <1>0, <2>1, RestingTypes, SavesLogin DEF SpotifyInv, SpotifyTypes
    <2>3. OneLogin'
        BY <1>0, <2>1, RestingTypes, SavesLogin DEF OneLogin
    <2>4. RefreshOwn' /\ PostKeys' /\ KeyKept'
        BY <1>1, <2>1, RestingTypes, SpotifyAssumption DEF RefreshOwn, PostKeys, KeyKept, Login
    <2> QED
        BY <2>2, <2>3, <2>4 DEF SpotifyInv
<1>4. ASSUME NEW a \in Account, LogsIn(a) PROVE SpotifyInv'
    <2>1. issued' = [issued EXCEPT ![a] = @ + 1] /\ issued' \in [Account -> Nat]
          /\ refresh' = refresh
        BY <1>4 DEF LogsIn, SpotifyInv, SpotifyTypes
    <2> DEFINE new == [user |-> a, access |-> a, owner |-> a, key |-> issued'[a]]
    <2>2. CASE auth' = new /\ SavesAuth /\ loaded' = TRUE /\ lost' = FALSE
        <3>1. /\ new \in Logins /\ new.user = a /\ new.access = a /\ new.owner = a
              /\ new.key = issued'[a]
            BY <2>1 DEF Logins
        <3> HIDE DEF new
        <3>2. SpotifyTypes'
            BY <1>0, <2>1, <2>2, <3>1, SavesLogin DEF SpotifyInv, SpotifyTypes
        <3>3. OneLogin'
            BY <1>0, <2>2, <3>1, SavesLogin DEF OneLogin
        <3>4. RefreshOwn' /\ PostKeys' /\ KeyKept'
            BY <1>1, <1>2, <2>2, <3>1 DEF RefreshOwn, PostKeys, KeyKept, Login
        <3> QED
            BY <3>2, <3>3, <3>4 DEF SpotifyInv
    <2>3. CASE UNCHANGED <<auth, saved, loaded, life, unsaved>> /\ lost' = TRUE
        BY <2>1, <2>3, MissedStep
    <2> QED
        BY <1>4, <2>2, <2>3 DEF LogsIn
<1> QED
    BY <1>3, <1>4

\* A boot takes the login from the flash.
LEMMA BootStep ==
  ASSUME SpotifyInv, LoadsLogin \/ TokenAges \/ Reboots PROVE SpotifyInv'
<1>1. CASE LoadsLogin
    <2>1. \A t \in Tasks : refresh[t].at = "idle" /\ refresh'[t] = refresh[t]
        BY <1>1 DEF LoadsLogin, SpotifyInv, RefreshOwn, SpotifyTypes, RefreshRecord
    <2>2. SpotifyTypes' /\ OneLogin' /\ RefreshOwn'
        BY <1>1, <2>1 DEF LoadsLogin, SpotifyInv, SpotifyTypes, OneLogin, RefreshOwn
    <2>3. Login' = Login
        BY <1>1 DEF LoadsLogin, Login
    <2>4. PostKeys' /\ KeyKept'
        BY <1>1, <2>1, <2>3 DEF LoadsLogin, SpotifyInv, PostKeys, KeyKept, Loses
    <2> QED
        BY <2>2, <2>4 DEF SpotifyInv
<1>2. CASE TokenAges
    BY <1>2 DEF TokenAges, SpotifyInv, SpotifyTypes, OneLogin, RefreshOwn, PostKeys, KeyKept,
                Loses, Login
<1>3. CASE Reboots
    <2>1. /\ auth' = NoAuth /\ loaded /\ loaded' = FALSE /\ UNCHANGED <<saved, issued>>
          /\ lost' = (lost \/ unsaved \/ \E t \in Tasks : Loses(t)) /\ unsaved' = FALSE
          /\ refresh' = [t \in Tasks |-> NoRefresh]
        BY <1>3 DEF Reboots
    <2>2. \A t \in Tasks : refresh'[t].at = "idle" /\ ~Loses(t)'
        BY <2>1, RestingTypes DEF Loses
    <2>3. SpotifyTypes'
        BY <2>1, RestingTypes DEF SpotifyInv, SpotifyTypes
    <2>4. OneLogin' /\ RefreshOwn' /\ PostKeys'
        BY <2>1, <2>2, RestingTypes DEF SpotifyInv, OneLogin, RefreshOwn, PostKeys
    <2>5. ~lost' => Login' = Login
        BY <2>1 DEF SpotifyInv, OneLogin, Login
    <2>6. KeyKept'
        BY <2>1, <2>2, <2>5 DEF SpotifyInv, KeyKept
    <2> QED
        BY <2>3, <2>4, <2>6 DEF SpotifyInv
<1> QED
    BY <1>1, <1>2, <1>3

\* Every step keeps the invariant when logins do not overlap a refresh.
LEMMA SpotifyStep ==
  ASSUME ~LoginOverlaps, SpotifyInv, [SpotifyNext]_spotify PROVE SpotifyInv'
<1>1. CASE UNCHANGED spotify
    BY <1>1 DEF spotify, SpotifyInv, SpotifyTypes, OneLogin, RefreshOwn, PostKeys, KeyKept,
                Loses, Login
<1> QED
    BY <1>1, NeedsStep, AnswerStep, StoreStep, EndStep, LoginStep, BootStep DEF SpotifyNext

\* For any number of accounts and of refresh tokens: the name shown, the access token and the
\* refresh token are of one account (spotify_player.cpp:242-328 and 541-551).
THEOREM OneAccountTheorem == ~LoginOverlaps /\ SpotifySpec => []OneAccount
<1>1. SUFFICES ASSUME ~LoginOverlaps PROVE SpotifySpec => []OneAccount
    OBVIOUS
<1>2. SpotifyInv => OneAccount
    BY RestingTypes DEF SpotifyInv, OneLogin, OneAccount
<1>3. SpotifyInv /\ [SpotifyNext]_spotify => SpotifyInv'
    BY <1>1, SpotifyStep
<1> QED
    BY <1>2, <1>3, SpotifyStart, PTL DEF SpotifySpec

\* Likewise, with saves that fail and answers that are lost: RAM holds the refresh token the
\* server accepts, and so does the flash if its last save succeeded, unless the token is one
\* nobody received, the lock kept it out, or power failed before a save
\* (spotify_player.cpp:222-325).
THEOREM LoginTheorem == ~LoginOverlaps /\ SpotifySpec => []LoginKept
<1>1. SUFFICES ASSUME ~LoginOverlaps PROVE SpotifySpec => []LoginKept
    OBVIOUS
<1>2. SpotifyInv => LoginKept
    <2>1. ASSUME SpotifyInv, ~lost, Login.owner \in Account PROVE Current(Login)
        <3>1. CASE \A t \in Tasks : ~Loses(t)
            BY <2>1, <3>1 DEF SpotifyInv, KeyKept, Current
        <3>2. CASE \E t \in Tasks : Loses(t)
            <4>1. loaded /\ Login = auth
                BY <3>2, <2>1 DEF SpotifyInv, RefreshOwn, Loses, Login
            <4> QED
                BY <2>1, <3>2, <4>1 DEF SpotifyInv, KeyKept, RefreshOwn, Loses, Current
        <3> QED
            BY <3>1, <3>2
    <2>2. ASSUME SpotifyInv, auth.owner # NoAccount PROVE Login = auth /\ auth.owner \in Account
        BY <2>2, RestingTypes DEF SpotifyInv, SpotifyTypes, OneLogin, Login, Logins
    <2>3. ASSUME SpotifyInv, saved.owner # NoAccount, ~unsaved
          PROVE  Login = saved /\ saved.owner \in Account
        BY <2>3 DEF SpotifyInv, SpotifyTypes, OneLogin, Login, Logins
    <2> QED
        BY <2>1, <2>2, <2>3 DEF LoginKept
<1>3. SpotifyInv /\ [SpotifyNext]_spotify => SpotifyInv'
    BY <1>1, SpotifyStep
<1> QED
    BY <1>2, <1>3, SpotifyStart, PTL DEF SpotifySpec

\* Under every overlap: a refresh that runs is of an account, and no account has more keys than
\* the server issues.
SpotifyHeld ==
  /\ SpotifyTypes /\ life \in 0..3 /\ issued \in [Account -> 0..MaxKey]
  /\ \A t \in Tasks : refresh[t].at # "idle" => refresh[t].owner \in Account

\* Every step, logins inside a refresh included.
LEMMA SpotifyHeldStep == SpotifyHeld /\ [SpotifyNext]_spotify => SpotifyHeld'
<1> SUFFICES ASSUME SpotifyHeld, [SpotifyNext]_spotify PROVE SpotifyHeld'
    OBVIOUS
<1> USE DEF SpotifyHeld, SpotifyTypes
<1>0. 3 \in 0..3 /\ 0 \in 0..3 /\ TRUE \in BOOLEAN /\ FALSE \in BOOLEAN
    OBVIOUS
<1>1. ASSUME NEW t \in Tasks, NEW new \in RefreshRecord, refresh' = [refresh EXCEPT ![t] = new],
             new.at = "idle" \/ new.owner \in Account
      PROVE  /\ refresh' \in [Tasks -> RefreshRecord]
             /\ \A s \in Tasks : refresh'[s].at # "idle" => refresh'[s].owner \in Account
    BY <1>1
<1>2. \A t \in Tasks : Loses(t) \in BOOLEAN
    BY DEF Loses
<1>3. ASSUME NEW t \in Tasks, NeedsToken(t) PROVE SpotifyHeld'
  <2> DEFINE new == [at |-> "post", owner |-> auth.owner, key |-> auth.key]
  <2>1. new \in RefreshRecord /\ new.owner = auth.owner
      BY DEF RefreshRecord, Logins
  <2>2. auth.owner \in Account
      BY <1>3 DEF NeedsToken, Configured, Logins
  <2>3. refresh' = [refresh EXCEPT ![t] = new]
      BY <1>3 DEF NeedsToken
  <2> HIDE DEF new
  <2>4. /\ refresh' \in [Tasks -> RefreshRecord]
        /\ \A s \in Tasks : refresh'[s].at # "idle" => refresh'[s].owner \in Account
      BY <1>1, <2>1, <2>2, <2>3
  <2> QED
      BY <1>3, <2>4 DEF NeedsToken
<1>4. ASSUME NEW t \in Tasks, ServerAnswers(t) PROVE SpotifyHeld'
  <2> DEFINE r == refresh[t]
  <2>1. /\ r \in RefreshRecord /\ r.owner \in Account /\ r.key \in Nat /\ r.key = issued[r.owner]
        /\ UNCHANGED <<auth, saved, loaded, life, unsaved, lost>>
      BY <1>4 DEF ServerAnswers, RefreshRecord
  <2>2. CASE /\ refresh' = [refresh EXCEPT ![t] = [r EXCEPT !.at = "store", !.key = 0]]
             /\ UNCHANGED issued
    <3> DEFINE new == [r EXCEPT !.at = "store", !.key = 0]
    <3>1. new \in RefreshRecord /\ new.owner = r.owner
        BY <2>1 DEF RefreshRecord
    <3> HIDE DEF new, r
    <3> QED
        BY <1>1, <2>1, <2>2, <3>1 DEF new
  <2>3. CASE /\ r.key < MaxKey
             /\ refresh' = [refresh EXCEPT ![t] = [r EXCEPT !.at = "store", !.key = r.key + 1]]
             /\ issued' = [issued EXCEPT ![r.owner] = issued[r.owner] + 1]
    <3>0. PICK k \in Nat : k = r.key + 1
        BY <2>1
    <3> DEFINE new == [r EXCEPT !.at = "store", !.key = k]
    <3> HIDE DEF r
    <3>1. new \in RefreshRecord /\ new.owner = r.owner
        BY <2>1 DEF RefreshRecord
    <3>2. k \in 0..MaxKey /\ issued' = [issued EXCEPT ![r.owner] = k]
        BY <2>1, <2>3, <3>0, SpotifyAssumption
    <3>3. issued' \in [Account -> 0..MaxKey] /\ issued' \in [Account -> Nat]
        BY <3>2
    <3>4. refresh' = [refresh EXCEPT ![t] = new]
        BY <2>3, <3>0
    <3> HIDE DEF new
    <3> QED
        BY <1>1, <2>1, <3>1, <3>3, <3>4
  <2> QED
      BY <1>4, <2>2, <2>3 DEF ServerAnswers
<1>5. ASSUME NEW t \in Tasks, Refused(t) \/ StoreTimesOut(t) PROVE SpotifyHeld'
  <2>1. /\ refresh' \in [Tasks -> RefreshRecord]
        /\ \A s \in Tasks : refresh'[s].at # "idle" => refresh'[s].owner \in Account
      BY <1>1, <1>5, RestingTypes DEF Refused, StoreTimesOut
  <2>2. lost' \in BOOLEAN
      BY <1>2, <1>5 DEF Refused, StoreTimesOut
  <2>3. issued' \in [Account -> 0..MaxKey]
    <3>1. CASE issued' = issued
        BY <3>1
    <3>2. CASE ~(issued' = issued)
      <4>1. /\ Refused(t) /\ refresh[t].owner \in Account
            /\ refresh[t].key = issued[refresh[t].owner] /\ refresh[t].key < MaxKey
            /\ issued' = [issued EXCEPT ![refresh[t].owner] = issued[refresh[t].owner] + 1]
          BY <1>5, <3>2 DEF Refused, StoreTimesOut
      <4>2. issued[refresh[t].owner] + 1 \in 0..MaxKey
          BY <4>1, SpotifyAssumption
      <4> QED
          BY <4>1, <4>2
    <3> QED
        BY <3>1, <3>2
  <2>4. issued' \in [Account -> Nat]
      BY <2>3, SpotifyAssumption
  <2> QED
      BY <1>5, <2>1, <2>2, <2>3, <2>4 DEF Refused, StoreTimesOut
<1>6. ASSUME NEW t \in Tasks, Stores(t) PROVE SpotifyHeld'
  <2>1. /\ refresh' \in [Tasks -> RefreshRecord]
        /\ \A s \in Tasks : refresh'[s].at # "idle" => refresh'[s].owner \in Account
      BY <1>1, <1>6, RestingTypes DEF Stores
  <2>2. auth' \in Logins
      BY <1>6 DEF Stores, Renewed, Logins, RefreshRecord
  <2> QED
      BY <1>0, <1>6, <2>1, <2>2, SavesLogin DEF Stores
<1>7. ASSUME NEW a \in Account, LogsIn(a) PROVE SpotifyHeld'
  <2>1. issued[a] + 1 \in 0..MaxKey
      BY <1>7, SpotifyAssumption DEF LogsIn
  <2>2. issued' = [issued EXCEPT ![a] = issued[a] + 1]
      BY <1>7 DEF LogsIn
  <2>3. issued' \in [Account -> 0..MaxKey] /\ issued' \in [Account -> Nat] /\ issued'[a] \in Nat
      BY <2>1, <2>2
  <2>4. PICK k \in Nat : k = issued'[a]
      BY <2>3
  <2>5. [user |-> a, access |-> a, owner |-> a, key |-> k] \in Logins
      BY DEF Logins
  <2>6. auth' \in Logins /\ saved' \in Logins /\ unsaved' \in BOOLEAN
    <3>1. CASE UNCHANGED <<auth, saved, unsaved>>
        BY <3>1
    <3>2. CASE ~UNCHANGED <<auth, saved, unsaved>>
      <4>1. auth' = [user |-> a, access |-> a, owner |-> a, key |-> k] /\ SavesAuth
          BY <1>7, <2>4, <3>2 DEF LogsIn
      <4> QED
          BY <2>5, <4>1, SavesLogin
    <3> QED
        BY <3>1, <3>2
  <2>7. loaded' \in BOOLEAN /\ life' \in 0..3 /\ lost' \in BOOLEAN /\ refresh' = refresh
      BY <1>0, <1>7 DEF LogsIn
  <2> QED
      BY <2>3, <2>6, <2>7
<1>8. CASE LogsOut \/ LoadsLogin
  <2>1. auth' \in Logins /\ saved' \in Logins /\ unsaved' \in BOOLEAN
        /\ loaded' = TRUE /\ life' = 0 /\ UNCHANGED <<refresh, issued, lost>>
      BY <1>8, RestingTypes, SavesLogin DEF LogsOut, LoadsLogin
  <2> QED
      BY <1>0, <2>1
<1>9. CASE TokenAges
  <2>1. life' \in 0..3
      BY <1>9 DEF TokenAges
  <2> QED
      BY <1>9, <2>1 DEF TokenAges
<1>10. CASE Reboots
  <2>1. lost' \in BOOLEAN
      BY <1>2, <1>10 DEF Reboots
  <2> QED
      BY <1>0, <1>10, <2>1, RestingTypes DEF Reboots
<1>11. CASE UNCHANGED spotify
    BY <1>11 DEF spotify
<1> QED
    BY <1>3, <1>4, <1>5, <1>6, <1>7, <1>8, <1>9, <1>10, <1>11 DEF SpotifyNext

\* The login, its keys and the refreshes stay in their ranges, whatever overlaps
\* (spotify_player.cpp:242-328).
THEOREM SpotifyTypesTheorem == SpotifySpec => []SpotifyTypeOK
<1>1. SpotifyInit => SpotifyHeld
  <2>1. /\ 0 \in 0..MaxKey /\ 0 \in 0..3
        /\ [a \in Account |-> 0] \in [Account -> Nat]
        /\ [a \in Account |-> 0] \in [Account -> 0..MaxKey]
      BY SpotifyAssumption
  <2> QED
      BY <2>1, SpotifyStart DEF SpotifyInit, SpotifyHeld, SpotifyInv, RefreshOwn, OneLogin,
                                SpotifyTypes, Logins, NoRefresh
<1>2. SpotifyHeld => SpotifyTypeOK
    BY DEF SpotifyHeld, SpotifyTypes, SpotifyTypeOK, Logins, RefreshRecord
<1> QED
    BY <1>1, <1>2, SpotifyHeldStep, PTL DEF SpotifySpec

-----------------------------------------------------------------------------
(* The watcher of a speaker's websocket.                                    *)

GabboSpec == GabboInit /\ [][GabboNext]_gabbo

SlotOrNone == Slot \cup {NoSlot}
LirOrNone == Lir \cup {NoSlot}

BoxRecord == [mode : {"off", "lir", "other"}, loc : SlotOrNone, playing : BOOLEAN]
Frame == [kind : {"selection", "playing"}, slot : SlotOrNone, loc : SlotOrNone,
          state : {"none", "play", "buffering", "invalid", "away", "stopped"}]
ConnRecord ==
  [pending : SlotOrNone, verify : LirOrNone, verifyMine : BOOLEAN,
   attempts : [Slot -> 0..MaxAttempts],
   lirPlaying : BOOLEAN, long : BOOLEAN, lirLoc : LirOrNone,
   stage : 0..2, rescueMine : BOOLEAN, tries : 0..MaxRescues, window : 0..MaxWindow,
   seedPending : BOOLEAN]
PostRecord == [kind : {"none", "rearm", "rescue"}, slot : LirOrNone, foreign : BOOLEAN]

\* A frame that names a key, or reports music, names it alone; the music of the radio is
\* that of a slot that holds a radio station.
FrameOK(f) ==
  /\ f \in Frame
  /\ f.slot # NoSlot => f.state = "none" /\ f.loc = f.slot
  /\ f.state = "play" => f.loc \in Lir
  /\ f.kind = "selection" <=> f.state = "none"

Wanted == wish = "on"

BoxTypes ==
  /\ box \in BoxRecord /\ (box.mode = "lir" => box.loc \in Lir)
  /\ box.mode = "lir" /\ box.playing => Wanted
  /\ wish \in {"on", "off", "stopped"} /\ closes \in BOOLEAN /\ shown \in BOOLEAN /\ recent \in BOOLEAN

WireTypes ==
  /\ wire \in Seq(Frame) /\ Len(wire) <= MaxWire
  /\ \A i \in 1..Len(wire) : FrameOK(wire[i])
  /\ sock \in {"up", "down", "deaf"} /\ (sock = "down" => wire = <<>>)

ConnTypes ==
  /\ conn \in ConnRecord /\ post \in PostRecord
  /\ post.kind = "rearm" => post.slot \in Lir
  /\ conn.lirPlaying \/ conn.stage # 0 \/ post.kind = "rescue" => conn.lirLoc \in Lir
  /\ conn.seedPending => post.kind # "rescue"

\* Nobody waits to repair a key.
KeyAlone == conn.pending = NoSlot /\ conn.verify = NoSlot

RepairApart ==
  /\ conn.pending = NoSlot \/ conn.verify = NoSlot
  /\ conn.stage # 0 => KeyAlone
  /\ post.kind # "none" => KeyAlone
  /\ post.kind = "rearm" => conn.stage = 0

IsOff(f) == f.state \in {"away", "stopped"} \/ f.slot \in Slot \ Lir
IsOn(f) == f.state = "play" \/ f.slot \in Lir

AnyOff(w) == \E i \in 1..Len(w) : IsOff(w[i])

\* After a frame that speaks for the radio comes one that speaks against it.
EndsOff(w) == \A i \in 1..Len(w) : IsOn(w[i]) => \E j \in 1..Len(w) : i < j /\ IsOff(w[j])

WireEnds == sock = "up" /\ ~Wanted => EndsOff(wire)

\* After such a frame no key of the radio waits.
Quieting(f) == f.state \in {"play", "away"} \/ f.slot \in Slot \ Lir

\* One of them comes after the last key of the radio, or there is no such key.
Quieted(w) ==
  \E j \in 1..Len(w) : /\ Quieting(w[j])
                       /\ \A m \in 1..Len(w) : j < m => w[m].slot \notin Lir
NoRadioKey(w) == \A m \in 1..Len(w) : w[m].slot \notin Lir

Settled == conn.pending \notin Lir /\ conn.verify \notin Lir /\ post.kind # "rearm"

\* When the frames on the wire are noted no key of the radio waits.
SettledSoon == Quieted(wire) \/ (Settled /\ NoRadioKey(wire))

\* The user ended the music or chose something else, or the radio plays.
AtPeace == wish = "off" \/ (box.mode = "lir" /\ box.playing)

KeysSettled ==
  ~closes =>
    /\ sock = "down" => Settled
    /\ sock = "up" /\ AtPeace => SettledSoon

\* A stream is rescued for nobody who does not want it.
Unwanted == sock = "up" /\ ~Wanted /\ ~OffInFlight
Unbothered ==
  Unwanted /\ ~conn.seedPending => conn.stage = 0 /\ ~conn.lirPlaying /\ post.kind # "rescue"

GabboInv ==
  BoxTypes /\ WireTypes /\ ConnTypes /\ RepairApart /\ WireEnds /\ KeysSettled /\ Unbothered

\* What a frame does to the fields the properties speak of.
NotedAs(c, f, n) ==
  /\ n \in ConnRecord
  /\ n.lirPlaying \/ n.stage # 0 => n.lirLoc \in Lir
  /\ n.seedPending = c.seedPending /\ n.verifyMine = c.verifyMine
  /\ f.state \in {"play", "away"} => n.pending = NoSlot /\ n.verify = NoSlot /\ n.stage = 0
  /\ f.state \in {"away", "stopped"} => n.stage = 0 /\ ~n.lirPlaying
  /\ f.state \in {"buffering", "invalid", "stopped"} => n.pending = c.pending /\ n.verify = c.verify
  /\ f.state \in {"buffering", "invalid"} =>
       /\ n.lirPlaying => c.lirPlaying
       /\ n.stage = c.stage \/ (c.lirPlaying /\ c.pending = NoSlot /\ c.verify = NoSlot)
  /\ f.state = "none" =>
       /\ ~n.lirPlaying /\ n.stage \in {0, c.stage}
       /\ \/ n.pending = c.pending /\ n.verify = c.verify
             /\ (f.slot = NoSlot \/ f.slot = c.verify \/ (c.stage = 2 /\ f.loc = c.lirLoc))
          \/ n.pending = f.slot /\ n.verify = NoSlot /\ n.stage = 0 /\ f.slot # NoSlot

\* The reports of what plays.
LEMMA NotePlayingAs ==
  ASSUME NEW c \in ConnRecord, NEW f, FrameOK(f), f.kind # "selection",
         c.lirPlaying \/ c.stage # 0 => c.lirLoc \in Lir
  PROVE  LET n == NoteNowPlaying(c, f)
         IN  /\ n \in ConnRecord
             /\ n.lirPlaying \/ n.stage # 0 => n.lirLoc \in Lir
             /\ n.seedPending = c.seedPending /\ n.verifyMine = c.verifyMine
             /\ n.pending = c.pending /\ n.verify = c.verify
             /\ f.state = "play" => n.stage = 0
             /\ f.state \in {"away", "stopped"} => n.stage = 0 /\ ~n.lirPlaying
             /\ f.state \in {"buffering", "invalid"} =>
                  /\ n.lirPlaying => c.lirPlaying
                  /\ n.stage = c.stage \/ (c.lirPlaying /\ c.pending = NoSlot /\ c.verify = NoSlot)
<1> USE GabboAssumption
<1>0. f.state \in {"play", "buffering", "invalid", "away", "stopped"}
    BY DEF FrameOK, Frame
<1>1. CASE f.state = "buffering"
    BY <1>1 DEF NoteNowPlaying
<1>2. CASE f.state = "play"
  <2> DEFINE long == c.long /\ f.loc = c.lirLoc /\ (c.lirPlaying \/ c.stage = 2)
             n == [c EXCEPT !.lirPlaying = TRUE, !.lirLoc = f.loc, !.stage = 0, !.long = long]
  <2>1. NoteNowPlaying(c, f) = n
      BY <1>2 DEF NoteNowPlaying
  <2>2. f.loc \in Lir /\ long \in BOOLEAN /\ 0 \in 0..2
      BY <1>2 DEF FrameOK
  <2> HIDE DEF long
  <2>3. n \in ConnRecord
      BY <2>2 DEF ConnRecord, LirOrNone
  <2>4. /\ n.lirLoc = f.loc /\ n.stage = 0 /\ n.seedPending = c.seedPending
        /\ n.verifyMine = c.verifyMine /\ n.pending = c.pending /\ n.verify = c.verify
      BY DEF ConnRecord
  <2> HIDE DEF n
  <2> QED
      BY <1>2, <2>1, <2>2, <2>3, <2>4
<1>3. CASE f.state = "invalid"
  <2> DEFINE one == [c EXCEPT !.lirPlaying = FALSE, !.stage = 1, !.rescueMine = TRUE, !.tries = 0]
             two == [c EXCEPT !.lirPlaying = FALSE]
  <2>1. NoteNowPlaying(c, f) = IF RescueArmed(c) THEN one ELSE two
      BY <1>3 DEF NoteNowPlaying
  <2>0. 0 \in 0..MaxRescues /\ 1 \in 0..2
      OBVIOUS
  <2>2. one \in ConnRecord /\ two \in ConnRecord
      BY <2>0 DEF ConnRecord
  <2>3. \A n \in {one, two} :
          /\ n.lirPlaying = FALSE /\ n.seedPending = c.seedPending /\ n.lirLoc = c.lirLoc
          /\ n.verifyMine = c.verifyMine /\ n.pending = c.pending /\ n.verify = c.verify
      BY DEF ConnRecord
  <2>4. two.stage = c.stage
      BY DEF ConnRecord
  <2> HIDE DEF one, two
  <2>5. CASE RescueArmed(c)
      BY <1>3, <2>1, <2>2, <2>3, <2>5 DEF RescueArmed
  <2>6. CASE ~RescueArmed(c)
      BY <1>3, <2>1, <2>2, <2>3, <2>4, <2>6
  <2> QED
      BY <2>5, <2>6
<1>4. CASE f.state \in {"away", "stopped"}
  <2> DEFINE n == ResetRescue(c)
  <2>1. NoteNowPlaying(c, f) = n
      BY <1>4 DEF NoteNowPlaying
  <2>0. 0 \in 0..2
      OBVIOUS
  <2>2. n \in ConnRecord
      BY <2>0 DEF ConnRecord, ResetRescue
  <2>3. /\ n.stage = 0 /\ n.lirPlaying = FALSE /\ n.seedPending = c.seedPending
        /\ n.verifyMine = c.verifyMine /\ n.pending = c.pending /\ n.verify = c.verify
      BY DEF ConnRecord, ResetRescue
  <2> HIDE DEF n
  <2> QED
      BY <1>4, <2>1, <2>2, <2>3
<1> QED
    BY <1>0, <1>1, <1>2, <1>3, <1>4

\* Every frame.
LEMMA NotedFrame ==
  ASSUME NEW c \in ConnRecord, NEW f, FrameOK(f),
         c.lirPlaying \/ c.stage # 0 => c.lirLoc \in Lir
  PROVE  NotedAs(c, f, Noted(c, f))
<1> USE GabboAssumption
<1>1. CASE f.kind = "selection"
  <2> DEFINE silent == [c EXCEPT !.lirPlaying = FALSE]
             cancelled == [silent EXCEPT !.stage = 0]
             named == [cancelled EXCEPT !.pending = f.slot, !.verify = NoSlot]
  <2>1. Noted(c, f) = IF c.stage = 2 /\ f.loc = c.lirLoc THEN silent
                      ELSE IF f.slot = NoSlot \/ f.slot = c.verify THEN cancelled ELSE named
      BY <1>1 DEF Noted, NoteSelection
  <2>2. f.state = "none" /\ f.slot \in SlotOrNone
      BY <1>1 DEF FrameOK, Frame
  <2>3. silent \in ConnRecord /\ silent.lirPlaying = FALSE /\ silent.stage = c.stage
        /\ silent.lirLoc = c.lirLoc /\ silent.seedPending = c.seedPending
        /\ silent.verifyMine = c.verifyMine /\ silent.pending = c.pending /\ silent.verify = c.verify
      BY DEF ConnRecord
  <2> HIDE DEF silent
  <2>4. cancelled \in ConnRecord /\ cancelled.lirPlaying = FALSE /\ cancelled.stage = 0
        /\ cancelled.lirLoc = c.lirLoc /\ cancelled.seedPending = c.seedPending
        /\ cancelled.verifyMine = c.verifyMine /\ cancelled.pending = c.pending
        /\ cancelled.verify = c.verify
      BY <2>3 DEF ConnRecord
  <2> HIDE DEF cancelled
  <2>5. named \in ConnRecord /\ named.lirPlaying = FALSE /\ named.stage = 0
        /\ named.seedPending = c.seedPending /\ named.verifyMine = c.verifyMine
        /\ named.pending = f.slot /\ named.verify = NoSlot
      BY <2>2, <2>4 DEF ConnRecord, LirOrNone
  <2> HIDE DEF named
  <2>6. CASE c.stage = 2 /\ f.loc = c.lirLoc
      BY <2>1, <2>2, <2>3, <2>6 DEF NotedAs
  <2>7. CASE ~(c.stage = 2 /\ f.loc = c.lirLoc) /\ (f.slot = NoSlot \/ f.slot = c.verify)
      BY <2>1, <2>2, <2>4, <2>7 DEF NotedAs
  <2>8. CASE ~(c.stage = 2 /\ f.loc = c.lirLoc) /\ ~(f.slot = NoSlot \/ f.slot = c.verify)
      BY <2>1, <2>2, <2>5, <2>8 DEF NotedAs
  <2> QED
      BY <2>6, <2>7, <2>8
<1>2. CASE f.kind # "selection"
  <2> DEFINE m == NoteNowPlaying(c, f)
             n == [m EXCEPT !.pending = NoSlot, !.verify = NoSlot]
  <2>1. f.state \in {"play", "buffering", "invalid", "away", "stopped"}
      BY <1>2 DEF FrameOK, Frame
  <2>2. /\ m \in ConnRecord
        /\ m.lirPlaying \/ m.stage # 0 => m.lirLoc \in Lir
        /\ m.seedPending = c.seedPending /\ m.verifyMine = c.verifyMine
        /\ m.pending = c.pending /\ m.verify = c.verify
        /\ f.state = "play" => m.stage = 0
        /\ f.state \in {"away", "stopped"} => m.stage = 0 /\ ~m.lirPlaying
        /\ f.state \in {"buffering", "invalid"} =>
             /\ m.lirPlaying => c.lirPlaying
             /\ m.stage = c.stage \/ (c.lirPlaying /\ c.pending = NoSlot /\ c.verify = NoSlot)
      BY <1>2, NotePlayingAs
  <2>3. Noted(c, f) = IF f.state \in {"play", "away"} THEN n ELSE m
      BY <1>2 DEF Noted
  <2> HIDE DEF m
  <2>4. n \in ConnRecord /\ n.pending = NoSlot /\ n.verify = NoSlot /\ n.stage = m.stage
        /\ n.lirPlaying = m.lirPlaying /\ n.lirLoc = m.lirLoc /\ n.seedPending = m.seedPending
        /\ n.verifyMine = m.verifyMine
      BY <2>2 DEF ConnRecord, SlotOrNone, LirOrNone
  <2> HIDE DEF n
  <2>5. CASE f.state \in {"play", "away"}
      BY <2>2, <2>3, <2>4, <2>5 DEF NotedAs
  <2>6. CASE f.state \notin {"play", "away"}
      BY <2>1, <2>2, <2>3, <2>6 DEF NotedAs
  <2> QED
      BY <2>5, <2>6
<1> QED
    BY <1>1, <1>2

\* A frame joins the wire.
LEMMA Grown ==
  ASSUME NEW w \in Seq(Frame), NEW f \in Frame, NEW t, t = Append(w, f)
  PROVE  /\ t \in Seq(Frame) /\ Len(t) = Len(w) + 1 /\ Len(w) \in Nat
         /\ \A i \in 1..Len(t) : t[i] = f \/ (i \in 1..Len(w) /\ t[i] = w[i])
         /\ ~IsOn(f) /\ (IsOff(f) \/ EndsOff(w)) => EndsOff(t)
         /\ AnyOff(t) <=> AnyOff(w) \/ IsOff(f)
         /\ Quieting(f) => Quieted(t)
         /\ f.slot \notin Lir => (Quieted(w) => Quieted(t)) /\ (NoRadioKey(w) => NoRadioKey(t))
<1>1. /\ t \in Seq(Frame) /\ Len(t) = Len(w) + 1 /\ Len(w) \in Nat
      /\ \A i \in 1..Len(w) : t[i] = w[i] /\ i \in 1..Len(t)
      /\ t[Len(w) + 1] = f /\ Len(w) + 1 \in 1..Len(t)
    BY LenProperties
<1>2. \A i \in 1..Len(t) : i = Len(w) + 1 \/ i \in 1..Len(w)
    BY <1>1
<1>3. ASSUME ~IsOn(f), IsOff(f) PROVE EndsOff(t)
  <2>1. \A i \in 1..Len(t) : IsOn(t[i]) => i < Len(w) + 1
      BY <1>1, <1>2, <1>3
  <2> QED
      BY <1>1, <1>3, <2>1 DEF EndsOff
<1>4. ASSUME ~IsOn(f), EndsOff(w) PROVE EndsOff(t)
  <2> SUFFICES ASSUME NEW i \in 1..Len(t), IsOn(t[i])
               PROVE  \E j \in 1..Len(t) : i < j /\ IsOff(t[j])
      BY DEF EndsOff
  <2>1. i \in 1..Len(w) /\ IsOn(w[i])
      BY <1>1, <1>2, <1>4
  <2>2. PICK j \in 1..Len(w) : i < j /\ IsOff(w[j])
      BY <1>4, <2>1 DEF EndsOff
  <2> QED
      BY <1>1, <2>2
<1>5. AnyOff(t) <=> AnyOff(w) \/ IsOff(f)
    BY <1>1, <1>2 DEF AnyOff
<1>6. ASSUME f.slot \notin Lir
      PROVE  (Quieted(w) => Quieted(t)) /\ (NoRadioKey(w) => NoRadioKey(t))
    BY <1>1, <1>2, <1>6 DEF Quieted, NoRadioKey
<1>7. Quieting(f) => Quieted(t)
  <2>1. \A m \in 1..Len(t) : ~(Len(w) + 1 < m)
      BY <1>1
  <2> QED
      BY <1>1, <2>1 DEF Quieted
<1> QED
    BY <1>1, <1>2, <1>3, <1>4, <1>5, <1>6, <1>7

\* The first frame leaves it.
LEMMA Shrunk ==
  ASSUME NEW w \in Seq(Frame), w # <<>>, NEW t, t = Tail(w)
  PROVE  /\ t \in Seq(Frame) /\ Len(t) = Len(w) - 1 /\ Len(t) \in Nat /\ Head(w) = w[1]
         /\ 1 \in 1..Len(w)
         /\ \A i \in 1..Len(t) : i + 1 \in 1..Len(w) /\ t[i] = w[i + 1]
         /\ EndsOff(w) => EndsOff(t)
         /\ AnyOff(w) <=> AnyOff(t) \/ IsOff(Head(w))
         /\ Quieted(w) => Quieted(t) \/ (Quieting(Head(w)) /\ NoRadioKey(t))
         /\ NoRadioKey(w) => NoRadioKey(t) /\ Head(w).slot \notin Lir
<1>1. /\ t \in Seq(Frame) /\ Len(t) = Len(w) - 1 /\ Len(t) \in Nat /\ Len(w) \in Nat
      /\ Head(w) = w[1] /\ 1 \in 1..Len(w)
      /\ \A i \in 1..Len(t) : t[i] = w[i + 1]
    BY HeadTailProperties, LenProperties, EmptySeq
<1>2. /\ \A i \in 1..Len(t) : i + 1 \in 1..Len(w)
      /\ \A i \in 1..Len(w) : i = 1 \/ (i - 1 \in 1..Len(t) /\ w[i] = t[i - 1])
    BY <1>1
<1>3. ASSUME EndsOff(w) PROVE EndsOff(t)
  <2> SUFFICES ASSUME NEW i \in 1..Len(t), IsOn(t[i])
               PROVE  \E j \in 1..Len(t) : i < j /\ IsOff(t[j])
      BY DEF EndsOff
  <2>1. PICK j \in 1..Len(w) : i + 1 < j /\ IsOff(w[j])
      BY <1>1, <1>2, <1>3 DEF EndsOff
  <2>2. j # 1 /\ i < j - 1
      BY <1>1, <2>1
  <2> QED
      BY <1>2, <2>1, <2>2
<1>4. AnyOff(w) <=> AnyOff(t) \/ IsOff(Head(w))
    BY <1>1, <1>2 DEF AnyOff
<1>5. ASSUME Quieted(w) PROVE Quieted(t) \/ (Quieting(Head(w)) /\ NoRadioKey(t))
  <2>1. PICK j \in 1..Len(w) :
          Quieting(w[j]) /\ \A m \in 1..Len(w) : j < m => w[m].slot \notin Lir
      BY <1>5 DEF Quieted
  <2>2. \A m \in 1..Len(t) : j < m + 1 => t[m].slot \notin Lir
      BY <1>1, <1>2, <2>1
  <2>3. CASE j = 1
      BY <1>1, <2>1, <2>2, <2>3 DEF NoRadioKey
  <2>4. CASE j # 1
    <3>1. /\ j - 1 \in 1..Len(t) /\ Quieting(t[j - 1])
          /\ \A m \in 1..Len(t) : j - 1 < m => j < m + 1
        BY <1>1, <1>2, <2>1, <2>4
    <3> QED
        BY <2>2, <3>1 DEF Quieted
  <2> QED
      BY <2>3, <2>4
<1>6. NoRadioKey(w) => NoRadioKey(t) /\ Head(w).slot \notin Lir
    BY <1>1, <1>2 DEF NoRadioKey
<1> QED
    BY <1>1, <1>2, <1>3, <1>4, <1>5, <1>6

\* The wire of a step that polls no frame: what the speaker says, if it says anything.
Says(f) ==
  /\ FrameOK(f) /\ Sends(f)
  /\ (IsOn(f) => Wanted') /\ (Wanted /\ ~Wanted' => IsOff(f))
  /\ AtPeace' => Quieting(f) \/ (AtPeace /\ f.slot \notin Lir)

\* A frame speaks for the radio or against it.
LEMMA OneSide ==
  ASSUME NEW f, FrameOK(f)
  PROVE  f \in Frame /\ ~(IsOn(f) /\ IsOff(f)) /\ (f.state \in {"away", "stopped"} => IsOff(f))
                   /\ (f.state = "play" => IsOn(f))
BY GabboAssumption DEF FrameOK, IsOn, IsOff, SlotOrNone, Frame

\* The frames that are on their way stay good.
LEMMA WireSays ==
  ASSUME WireTypes, WireEnds, KeysSettled, UNCHANGED <<sock, closes>>, Settled => Settled',
         \/ UNCHANGED <<box, wire>> /\ (wish' = wish \/ Wanted')
         \/ \E f \in Frame : Says(f)
  PROVE  /\ WireTypes' /\ WireEnds' /\ KeysSettled'
         /\ OffInFlight => OffInFlight'
         /\ sock = "up" /\ Wanted /\ ~Wanted' => OffInFlight'
<1>1. CASE UNCHANGED <<box, wire>> /\ (wish' = wish \/ Wanted')
  <2>1. WireTypes' /\ (OffInFlight => OffInFlight')
      BY <1>1 DEF WireTypes, OffInFlight
  <2>2. WireEnds' /\ (Wanted => Wanted')
      BY <1>1 DEF WireEnds, Wanted
  <2>3. (SettledSoon => SettledSoon') /\ (AtPeace' => AtPeace)
      BY <1>1 DEF SettledSoon, AtPeace, Wanted
  <2>4. KeysSettled'
      BY <1>1, <2>3 DEF KeysSettled
  <2> QED
      BY <1>1, <2>1, <2>2, <2>4
<1>2. ASSUME NEW f \in Frame, Says(f), sock = "up"
      PROVE  /\ WireTypes' /\ WireEnds' /\ KeysSettled'
             /\ OffInFlight => OffInFlight'
             /\ sock = "up" /\ Wanted /\ ~Wanted' => OffInFlight'
  <2>1. wire \in Seq(Frame) /\ Len(wire) < MaxWire /\ wire' = Append(wire, f) /\ FrameOK(f)
      BY <1>2 DEF Says, Sends, WireTypes
  <2>2. /\ wire' \in Seq(Frame) /\ Len(wire') = Len(wire) + 1 /\ Len(wire) \in Nat
        /\ \A i \in 1..Len(wire') : wire'[i] = f \/ (i \in 1..Len(wire) /\ wire'[i] = wire[i])
        /\ ~IsOn(f) /\ (IsOff(f) \/ EndsOff(wire)) => EndsOff(wire')
        /\ AnyOff(wire') <=> AnyOff(wire) \/ IsOff(f)
        /\ Quieting(f) => Quieted(wire')
        /\ f.slot \notin Lir =>
             (Quieted(wire) => Quieted(wire')) /\ (NoRadioKey(wire) => NoRadioKey(wire'))
      BY <2>1, Grown, ZenonT(30)
  <2>3. WireTypes'
      BY <1>2, <2>1, <2>2, GabboAssumption DEF WireTypes
  <2>4. WireEnds'
      BY <1>2, <2>2, OneSide DEF WireEnds, Says
  <2>5. ASSUME AtPeace', ~closes PROVE SettledSoon'
    <3>1. CASE Quieting(f)
        BY <2>2, <3>1 DEF SettledSoon
    <3>2. CASE AtPeace /\ f.slot \notin Lir
      <4>1. SettledSoon
          BY <1>2, <2>5, <3>2 DEF KeysSettled
      <4> QED
          BY <2>2, <3>2, <4>1 DEF SettledSoon
    <3> QED
        BY <1>2, <2>5, <3>1, <3>2 DEF Says
  <2>6. KeysSettled'
      BY <1>2, <2>5 DEF KeysSettled
  <2> QED
      BY <1>2, <2>2, <2>3, <2>4, <2>6 DEF OffInFlight, AnyOff, IsOff, Says
<1>3. ASSUME NEW f \in Frame, Says(f), sock # "up"
      PROVE  /\ WireTypes' /\ WireEnds' /\ KeysSettled'
             /\ OffInFlight => OffInFlight'
             /\ sock = "up" /\ Wanted /\ ~Wanted' => OffInFlight'
  <2>1. UNCHANGED wire
      BY <1>3 DEF Says, Sends
  <2> QED
      BY <1>3, <2>1 DEF WireTypes, WireEnds, KeysSettled, OffInFlight
<1> QED
    BY <1>1, <1>2, <1>3

\* The user and the speaker.
LEMMA UserSays ==
  ASSUME BoxTypes, NEW s,
         (s \in Slot /\ UserPresses(s)) \/ UserTurnsAway \/ UserPauses \/ BoxReports \/ BoxReportsOther,
         UNCHANGED closes
  PROVE  WatcherRests /\ BoxTypes' /\ \E f \in Frame : Says(f)
<1> USE GabboAssumption DEF BoxTypes, Wanted
<1>0. \A b \in BoxRecord : b.loc \in SlotOrNone /\ b.playing \in BOOLEAN
    BY DEF BoxRecord
<1>1. \A st \in {"play", "buffering", "invalid", "away", "stopped"}, l \in SlotOrNone :
        /\ Playing(st, l) \in Frame /\ Playing(st, l).state = st /\ Playing(st, l).slot = NoSlot
        /\ (st = "play" => l \in Lir) => FrameOK(Playing(st, l))
    BY DEF Playing, Frame, FrameOK, SlotOrNone
<1>2. \A k \in Slot : /\ Selection(k, k) \in Frame /\ Selection(k, k).state = "none"
                      /\ Selection(k, k).slot = k /\ FrameOK(Selection(k, k))
    BY DEF Selection, Frame, FrameOK, SlotOrNone
<1>3. CASE s \in Slot /\ UserPresses(s)
  <2>1. BoxTypes' /\ WatcherRests
      BY <1>3 DEF UserPresses, WatcherRests, BoxRecord, SlotOrNone
  <2>2. Says(Selection(s, s))
      BY <1>2, <1>3 DEF Says, UserPresses, IsOn, IsOff, AtPeace, Quieting
  <2> QED
      BY <1>2, <1>3, <2>1, <2>2
<1>4. CASE UserTurnsAway
  <2>1. BoxTypes' /\ WatcherRests
      BY <1>4 DEF UserTurnsAway, WatcherRests, BoxRecord, SlotOrNone
  <2>2. NoSlot \in SlotOrNone
      BY DEF SlotOrNone
  <2>3. Says(Playing("away", NoSlot))
      BY <1>1, <1>4, <2>2 DEF Says, UserTurnsAway, IsOn, IsOff, AtPeace, Quieting
  <2> QED
      BY <1>1, <2>1, <2>2, <2>3
<1>5. CASE UserPauses
  <2>1. BoxTypes' /\ WatcherRests
      BY <1>5 DEF UserPauses, WatcherRests, BoxRecord
  <2>2. box.loc \in SlotOrNone
      BY <1>0
  <2>3. Says(Playing("stopped", box.loc))
      BY <1>1, <1>5, <2>2 DEF Says, UserPauses, IsOn, IsOff, AtPeace, BoxRecord
  <2> QED
      BY <1>1, <2>1, <2>2, <2>3
<1>6. CASE BoxReports
  <2>1. PICK st \in {"play", "buffering", "invalid"} :
          /\ box.playing => st = "invalid"
          /\ box' = [box EXCEPT !.playing = (st = "play")]
          /\ wish' = IF st = "play" THEN "on" ELSE wish
          /\ Sends(Playing(st, box.loc))
      BY <1>6 DEF BoxReports
  <2>2. box.mode = "lir" /\ box.loc \in Lir /\ box.loc \in SlotOrNone /\ WatcherRests
      BY <1>6 DEF BoxReports, SlotOrNone
  <2> DEFINE music == (st = "play")
  <2>a. box' = [box EXCEPT !.playing = music] /\ music \in BOOLEAN /\ (music <=> st = "play")
      BY <2>1
  <2> HIDE DEF music
  <2>b. box' \in BoxRecord /\ box'.mode = box.mode /\ box'.loc = box.loc /\ box'.playing = music
      BY <2>a DEF BoxRecord
  <2>3. /\ box'.mode = "lir" /\ box'.loc = box.loc /\ (box'.playing <=> st = "play")
        /\ box' \in BoxRecord
      BY <2>2, <2>a, <2>b
  <2>4. /\ wish' \in {"on", "off", "stopped"} /\ (Wanted' <=> Wanted \/ st = "play")
        /\ wish' = "off" => wish = "off"
      BY <2>1
  <2>5. BoxTypes'
      BY <2>2, <2>3, <2>4 DEF WatcherRests
  <2>6. Says(Playing(st, box.loc))
      BY <1>1, <2>1, <2>2, <2>3, <2>4 DEF Says, IsOn, IsOff, AtPeace, Quieting
  <2> QED
      BY <1>1, <2>2, <2>5, <2>6
<1>7. CASE BoxReportsOther
  <2>1. BoxTypes' /\ WatcherRests
      BY <1>7 DEF BoxReportsOther, WatcherRests, BoxRecord
  <2>2. box.loc \in SlotOrNone
      BY <1>0
  <2>3. Says(Playing("away", box.loc))
      BY <1>1, <1>7, <2>2 DEF Says, BoxReportsOther, IsOn, IsOff, AtPeace, Quieting, BoxRecord
  <2> QED
      BY <1>1, <2>1, <2>2, <2>3
<1> QED
    BY <1>3, <1>4, <1>5, <1>6, <1>7

\* A /select of the stick.
LEMMA SelectSays ==
  ASSUME BoxTypes, NEW s \in Lir, NEW reached \in BOOLEAN, BoxSelects(s, reached),
         wish' = wish \/ Wanted', UNCHANGED <<closes, shown>>, recent' \in BOOLEAN
  PROVE  /\ BoxTypes'
         /\ UNCHANGED <<box, wire>> \/ \E f \in Frame : Says(f)
<1> USE GabboAssumption DEF BoxTypes, Wanted
<1>1. CASE reached
  <2> DEFINE f == Selection(NoSlot, s)
  <2>1. FrameOK(f) /\ f \in Frame /\ f.slot = NoSlot /\ f.state = "none"
      BY DEF Selection, Frame, FrameOK, SlotOrNone
  <2>2. box' = [mode |-> "lir", loc |-> s, playing |-> FALSE] /\ Sends(f)
      BY <1>1 DEF BoxSelects
  <2> HIDE DEF f
  <2>3. Says(f)
      BY <2>1, <2>2 DEF Says, IsOn, IsOff, AtPeace
  <2>4. BoxTypes'
      BY <2>2 DEF BoxRecord, SlotOrNone
  <2> QED
      BY <2>1, <2>3, <2>4
<1>2. CASE ~reached
    BY <1>2 DEF BoxSelects
<1> QED
    BY <1>1, <1>2

\* The parts of the invariant that the conversation with the speaker carries.
LEMMA Conversation ==
  ASSUME GabboInv, UNCHANGED <<sock, closes>>, Settled => Settled',
         \/ UNCHANGED <<box, wire>> /\ (wish' = wish \/ Wanted')
         \/ \E f \in Frame : Says(f)
  PROVE  WireTypes' /\ WireEnds' /\ KeysSettled' /\ (Unwanted' => Unwanted)
<1>1. /\ WireTypes' /\ WireEnds' /\ KeysSettled'
      /\ OffInFlight => OffInFlight'
      /\ sock = "up" /\ Wanted /\ ~Wanted' => OffInFlight'
    BY WireSays DEF GabboInv
<1> QED
    BY <1>1 DEF Unwanted

\* The user acts and the speaker reports: the watcher is told, or hears nothing of it.
LEMMA UserStep ==
  ASSUME GabboInv, NEW s,
         (s \in Slot /\ UserPresses(s)) \/ UserTurnsAway \/ UserPauses \/ BoxReports \/ BoxReportsOther,
         UNCHANGED closes
  PROVE  GabboInv'
<1>1. WatcherRests /\ BoxTypes' /\ \E f \in Frame : Says(f)
    BY UserSays DEF GabboInv
<1>2. UNCHANGED <<sock, shown, conn, post, recent, closes>>
    BY <1>1 DEF WatcherRests
<1>3. Settled <=> Settled'
    BY <1>2 DEF Settled
<1>4. WireTypes' /\ WireEnds' /\ KeysSettled' /\ (Unwanted' => Unwanted)
    BY <1>1, <1>2, <1>3, Conversation
<1>5. ConnTypes' /\ RepairApart'
    BY <1>2 DEF GabboInv, ConnTypes, RepairApart, KeyAlone
<1>6. Unbothered'
    BY <1>2, <1>4 DEF GabboInv, Unbothered
<1> QED
    BY <1>1, <1>4, <1>5, <1>6 DEF GabboInv

\* A selection of somebody else's at the same speaker: its user wants the radio.
LEMMA UiStep ==
  ASSUME GabboInv, NEW s \in Lir, UiSelects(s), UNCHANGED closes
  PROVE  GabboInv'
<1>1. PICK reached \in BOOLEAN : BoxSelects(s, reached)
    BY DEF UiSelects
<1>2. /\ recent' = TRUE /\ wish' = "on" /\ UNCHANGED <<sock, shown, closes>>
      /\ conn' = [conn EXCEPT !.verifyMine = FALSE, !.rescueMine = FALSE]
    BY DEF UiSelects
<1> DEFINE busy == (post.kind # "none")
<1>b. post' = [post EXCEPT !.foreign = busy] /\ busy \in BOOLEAN
    BY DEF UiSelects
<1> HIDE DEF busy
<1>3. BoxTypes' /\ (UNCHANGED <<box, wire>> \/ \E f \in Frame : Says(f))
    BY <1>1, <1>2, SelectSays DEF GabboInv, BoxTypes, Wanted
<1>4. /\ conn' \in ConnRecord /\ conn'.pending = conn.pending /\ conn'.verify = conn.verify
      /\ conn'.lirPlaying = conn.lirPlaying /\ conn'.stage = conn.stage
      /\ conn'.lirLoc = conn.lirLoc /\ conn'.seedPending = conn.seedPending
    BY <1>2 DEF GabboInv, ConnTypes, ConnRecord
<1>5. post' \in PostRecord /\ post'.kind = post.kind /\ post'.slot = post.slot
    BY <1>b DEF GabboInv, ConnTypes, PostRecord
<1>6. Settled <=> Settled'
    BY <1>4, <1>5 DEF Settled
<1>7. WireTypes' /\ WireEnds' /\ KeysSettled'
    BY <1>2, <1>3, <1>6, Conversation DEF Wanted
<1>8. ConnTypes' /\ RepairApart'
    BY <1>4, <1>5 DEF GabboInv, ConnTypes, RepairApart, KeyAlone
<1>9. Unbothered'
    BY <1>2 DEF Unbothered, Unwanted, Wanted
<1> QED
    BY <1>3, <1>7, <1>8, <1>9 DEF GabboInv

\* The slot that waited is taken from the connection.
Taken(c) ==
  /\ c \in ConnRecord /\ c.pending = NoSlot /\ c.verify = NoSlot
  /\ c.stage = conn.stage /\ c.lirPlaying = conn.lirPlaying /\ c.lirLoc = conn.lirLoc
  /\ c.seedPending = conn.seedPending

\* Its repair is given up.
LEMMA GivenUp ==
  ASSUME GabboInv, NEW c, Taken(c), conn' = c, UNCHANGED <<box, wire, sock, shown, post, recent, wish, closes>>
  PROVE  GabboInv'
<1>1. BoxTypes'
    BY DEF GabboInv, BoxTypes, Wanted
<1>2. Settled => Settled'
    BY GabboAssumption DEF Settled, Taken
<1>3. WireTypes' /\ WireEnds' /\ KeysSettled' /\ (Unwanted' => Unwanted)
    BY <1>2, Conversation
<1>4. ConnTypes' /\ RepairApart'
    BY DEF GabboInv, ConnTypes, RepairApart, KeyAlone, Taken
<1>5. Unbothered'
    BY <1>3, GabboAssumption DEF GabboInv, Unbothered, Taken
<1> QED
    BY <1>1, <1>3, <1>4, <1>5 DEF GabboInv

\* What one more attempt makes of a connection.
LEMMA OneMoreAttempt ==
  ASSUME NEW c \in ConnRecord, NEW s \in Slot, c.attempts[s] < MaxAttempts,
         NEW d, d = [c EXCEPT !.attempts[s] = c.attempts[s] + 1]
  PROVE  /\ d \in ConnRecord /\ d.pending = c.pending /\ d.verify = c.verify
         /\ d.stage = c.stage /\ d.lirPlaying = c.lirPlaying /\ d.lirLoc = c.lirLoc
         /\ d.seedPending = c.seedPending
<1>1. c.attempts \in [Slot -> 0..MaxAttempts] /\ c.attempts[s] + 1 \in 0..MaxAttempts
    BY GabboAssumption DEF ConnRecord
<1>2. d = [c EXCEPT !.attempts = [c.attempts EXCEPT ![s] = c.attempts[s] + 1]]
    BY DEF ConnRecord
<1>3. [c.attempts EXCEPT ![s] = c.attempts[s] + 1] \in [Slot -> 0..MaxAttempts]
    BY <1>1
<1> QED
    BY <1>2, <1>3 DEF ConnRecord

\* A key waits, or the music after its re-arm: then no rescue is in progress.
LEMMA KeyWaits ==
  ASSUME GabboInv, ~KeyAlone
  PROVE  /\ conn.stage = 0 /\ post.kind = "none"
         /\ conn.pending \in Lir \/ conn.verify \in Lir => ~Settled
BY DEF GabboInv, RepairApart, Settled

\* The re-arm of the slot that waited.
LEMMA ReArmStep ==
  ASSUME GabboInv, NEW c, Taken(c), NEW s \in {conn.pending, conn.verify}, s # NoSlot,
         NEW followUp \in BOOLEAN, ReArms(c, s, followUp), UNCHANGED <<sock, shown, wish, closes>>
  PROVE  GabboInv'
<1>0. ~KeyAlone /\ s \in Slot
    BY GabboAssumption DEF KeyAlone, GabboInv, ConnTypes, ConnRecord, SlotOrNone, LirOrNone
<1>1. CASE MayReArm(c, s, followUp)
  <2>1. /\ conn' = [c EXCEPT !.attempts[s] = c.attempts[s] + 1]
        /\ post' = [kind |-> "rearm", slot |-> s, foreign |-> FALSE]
        /\ recent' = TRUE /\ s \in Lir /\ c.attempts[s] < MaxAttempts
        /\ \E reached \in BOOLEAN : BoxSelects(s, reached)
      BY <1>1 DEF ReArms, MayReArm
  <2>2. /\ conn' \in ConnRecord /\ conn'.pending = NoSlot /\ conn'.verify = NoSlot
        /\ conn'.stage = conn.stage /\ conn'.lirPlaying = conn.lirPlaying
        /\ conn'.lirLoc = conn.lirLoc /\ conn'.seedPending = conn.seedPending
      BY <1>0, <2>1, OneMoreAttempt DEF Taken
  <2>3. post' \in PostRecord /\ post'.kind = "rearm" /\ post'.slot = s
      BY <2>1 DEF PostRecord, LirOrNone
  <2>4. /\ conn.stage = 0 /\ post.kind = "none" /\ ~Settled
      BY <1>0, <2>1, KeyWaits
  <2>5. BoxTypes' /\ (UNCHANGED <<box, wire>> \/ \E f \in Frame : Says(f))
      BY <2>1, SelectSays DEF GabboInv, BoxTypes, Wanted
  <2>6. WireTypes' /\ WireEnds' /\ KeysSettled' /\ (Unwanted' => Unwanted)
      BY <2>4, <2>5, Conversation
  <2>7. ConnTypes' /\ RepairApart'
      BY <2>1, <2>2, <2>3, <2>4 DEF GabboInv, ConnTypes, RepairApart, KeyAlone
  <2>8. Unbothered'
      BY <2>2, <2>3, <2>4, <2>6 DEF GabboInv, Unbothered
  <2> QED
      BY <2>5, <2>6, <2>7, <2>8 DEF GabboInv
<1>2. CASE ~MayReArm(c, s, followUp)
    BY <1>2, GivenUp DEF ReArms
<1> QED
    BY <1>1, <1>2

\* The two deadlines of a key.
LEMMA DeadlineStep ==
  ASSUME GabboInv, PendingExpires \/ VerifyExpires, UNCHANGED closes
  PROVE  GabboInv'
<1>1. CASE PendingExpires
  <2> DEFINE c == [conn EXCEPT !.pending = NoSlot]
  <2>1. /\ conn.pending # NoSlot /\ ReArms(c, conn.pending, FALSE) /\ UNCHANGED <<sock, shown, wish>>
      BY <1>1 DEF PendingExpires
  <2>2. Taken(c)
      BY <2>1 DEF GabboInv, ConnTypes, ConnRecord, Taken, RepairApart, SlotOrNone
  <2> HIDE DEF c
  <2> QED
      BY <2>1, <2>2, ReArmStep
<1>2. CASE VerifyExpires
  <2> DEFINE c == [conn EXCEPT !.verify = NoSlot]
  <2>1. /\ conn.verify # NoSlot /\ UNCHANGED <<sock, shown, wish>>
        /\ IF conn.verifyMine THEN ReArms(c, conn.verify, TRUE)
           ELSE conn' = c /\ UNCHANGED <<post, recent, box, wire>>
      BY <1>2 DEF VerifyExpires
  <2>2. Taken(c)
      BY <2>1 DEF GabboInv, ConnTypes, ConnRecord, Taken, RepairApart, LirOrNone
  <2> HIDE DEF c
  <2>3. CASE conn.verifyMine
      BY <2>1, <2>2, <2>3, ReArmStep
  <2>4. CASE ~conn.verifyMine
      BY <2>1, <2>2, <2>4, GivenUp
  <2> QED
      BY <2>3, <2>4
<1> QED
    BY <1>1, <1>2

\* A step of the watcher's that neither polls a frame nor selects a station.
LEMMA Inwards ==
  ASSUME GabboInv, UNCHANGED <<box, wire, sock, shown, wish, closes>>, recent' \in BOOLEAN,
         Settled => Settled'
  PROVE  BoxTypes' /\ WireTypes' /\ WireEnds' /\ KeysSettled' /\ (Unwanted' => Unwanted)
<1>1. BoxTypes'
    BY DEF GabboInv, BoxTypes, Wanted
<1> QED
    BY <1>1, Conversation

\* The re-arm has been answered, or the rescue.
LEMMA ReturnStep ==
  ASSUME GabboInv, ReArmReturns \/ RescueReturns, UNCHANGED closes
  PROVE  GabboInv'
<1> USE GabboAssumption
<1>0. recent \in BOOLEAN /\ conn \in ConnRecord /\ post \in PostRecord /\ 0 \in 0..2 /\ 2 \in 0..2
    BY DEF GabboInv, BoxTypes, ConnTypes
<1>a. /\ NoPost \in PostRecord /\ NoPost.kind = "none"
    BY DEF NoPost, PostRecord, LirOrNone
<1>1. CASE ReArmReturns
  <2> DEFINE v == IF post.foreign THEN NoSlot ELSE post.slot
  <2>1. /\ conn' = [conn EXCEPT !.verify = v, !.verifyMine = TRUE] /\ post' = NoPost
        /\ post.kind = "rearm" /\ UNCHANGED <<box, wire, sock, shown, recent, wish>>
      BY <1>1 DEF ReArmReturns
  <2>2. v \in LirOrNone
      BY <1>0 DEF PostRecord, LirOrNone
  <2> HIDE DEF v
  <2>3. /\ conn' \in ConnRecord /\ conn'.pending = conn.pending
        /\ conn'.stage = conn.stage /\ conn'.lirPlaying = conn.lirPlaying
        /\ conn'.lirLoc = conn.lirLoc /\ conn'.seedPending = conn.seedPending
      BY <1>0, <2>1, <2>2 DEF ConnRecord
  <2>4. conn.stage = 0 /\ conn.pending = NoSlot /\ ~Settled
      BY <2>1 DEF GabboInv, RepairApart, KeyAlone, Settled
  <2>5. BoxTypes' /\ WireTypes' /\ WireEnds' /\ KeysSettled' /\ (Unwanted' => Unwanted)
      BY <1>0, <2>1, <2>4, Inwards
  <2>6. ConnTypes' /\ RepairApart'
      BY <1>a, <2>1, <2>3, <2>4 DEF GabboInv, ConnTypes, RepairApart, KeyAlone
  <2>8. Unbothered'
      BY <1>a, <2>1, <2>3, <2>4, <2>5 DEF GabboInv, Unbothered
  <2> QED
      BY <2>5, <2>6, <2>8 DEF GabboInv
<1>2. CASE RescueReturns
  <2> DEFINE n == IF post.foreign THEN 0 ELSE 2
  <2>1. /\ conn' = [conn EXCEPT !.stage = n, !.rescueMine = TRUE] /\ post' = NoPost
        /\ post.kind = "rescue" /\ UNCHANGED <<box, wire, sock, shown, recent, wish>>
      BY <1>2 DEF RescueReturns
  <2>2. n \in 0..2
      BY <1>0
  <2> HIDE DEF n
  <2>3. /\ conn' \in ConnRecord /\ conn'.pending = conn.pending /\ conn'.verify = conn.verify
        /\ conn'.lirPlaying = conn.lirPlaying
        /\ conn'.lirLoc = conn.lirLoc /\ conn'.seedPending = conn.seedPending
      BY <1>0, <2>1, <2>2 DEF ConnRecord
  <2>4. KeyAlone /\ conn.lirLoc \in Lir /\ ~conn.seedPending
      BY <2>1 DEF GabboInv, RepairApart, ConnTypes
  <2>a. Settled'
      BY <1>a, <2>1, <2>3, <2>4 DEF Settled, KeyAlone
  <2>5. BoxTypes' /\ WireTypes' /\ WireEnds' /\ KeysSettled' /\ (Unwanted' => Unwanted)
      BY <1>0, <2>1, <2>a, Inwards
  <2>6. ConnTypes' /\ RepairApart'
      BY <1>a, <2>1, <2>3, <2>4 DEF GabboInv, ConnTypes, RepairApart, KeyAlone
  <2>7. ~Unwanted
      BY <2>1, <2>4 DEF GabboInv, Unbothered
  <2>8. Unbothered'
      BY <2>5, <2>7 DEF Unbothered
  <2> QED
      BY <2>5, <2>6, <2>8 DEF GabboInv
<1> QED
    BY <1>1, <1>2

\* The rescue of a broken stream falls due: the user wanted it.
LEMMA RescueStep ==
  ASSUME GabboInv, RescueDue, UNCHANGED closes
  PROVE  GabboInv'
<1> USE GabboAssumption
<1>1. /\ post.kind = "none" /\ ~conn.seedPending /\ conn.stage # 0 /\ UNCHANGED <<sock, shown, wish>>
      /\ conn \in ConnRecord
    BY DEF RescueDue, Attached, GabboInv, ConnTypes, ConnRecord
<1>2. KeyAlone /\ conn.lirLoc \in Lir /\ Settled
    BY <1>1 DEF GabboInv, RepairApart, ConnTypes, Settled, KeyAlone
<1>3. ~Unwanted
    BY <1>1 DEF GabboInv, Unbothered
<1>4. CASE /\ RescueAllowed
           /\ conn' = [conn EXCEPT !.tries = @ + 1, !.window = @ + 1]
           /\ post' = [kind |-> "rescue", slot |-> conn.lirLoc, foreign |-> FALSE]
           /\ recent' = TRUE
           /\ \E reached \in BOOLEAN : BoxSelects(conn.lirLoc, reached)
  <2>1. conn.tries + 1 \in 0..MaxRescues /\ conn.window + 1 \in 0..MaxWindow
      BY <1>1, <1>4 DEF RescueAllowed, ConnRecord
  <2>2. /\ conn' \in ConnRecord /\ conn'.pending = conn.pending /\ conn'.verify = conn.verify
        /\ conn'.lirPlaying = conn.lirPlaying /\ conn'.stage = conn.stage
        /\ conn'.lirLoc = conn.lirLoc /\ conn'.seedPending = conn.seedPending
      BY <1>1, <1>4, <2>1 DEF ConnRecord
  <2>3. post' \in PostRecord /\ post'.kind = "rescue"
      BY <1>2, <1>4 DEF PostRecord, LirOrNone
  <2>4. Settled'
      BY <1>2, <2>2, <2>3 DEF Settled
  <2>5. BoxTypes' /\ (UNCHANGED <<box, wire>> \/ \E f \in Frame : Says(f))
      BY <1>1, <1>2, <1>4, SelectSays DEF GabboInv, BoxTypes, Wanted
  <2>6. WireTypes' /\ WireEnds' /\ KeysSettled' /\ (Unwanted' => Unwanted)
      BY <1>1, <2>4, <2>5, Conversation
  <2>7. ConnTypes' /\ RepairApart'
      BY <1>1, <1>2, <2>2, <2>3 DEF GabboInv, ConnTypes, RepairApart, KeyAlone
  <2>8. Unbothered'
      BY <1>3, <2>6 DEF Unbothered
  <2> QED
      BY <2>5, <2>6, <2>7, <2>8 DEF GabboInv
<1>5. CASE conn' = [conn EXCEPT !.stage = 0] /\ UNCHANGED <<post, recent, box, wire>>
  <2>2. 0 \in 0..2 /\ recent \in BOOLEAN
      BY DEF GabboInv, BoxTypes, Wanted
  <2>3. /\ conn' \in ConnRecord /\ conn'.pending = conn.pending /\ conn'.verify = conn.verify
        /\ conn'.lirPlaying = conn.lirPlaying /\ conn'.stage = 0
        /\ conn'.lirLoc = conn.lirLoc /\ conn'.seedPending = conn.seedPending
      BY <1>1, <1>5, <2>2 DEF ConnRecord
  <2>4. Settled'
      BY <1>2, <1>5, <2>3 DEF Settled
  <2>5. BoxTypes' /\ WireTypes' /\ WireEnds' /\ KeysSettled' /\ (Unwanted' => Unwanted)
      BY <1>1, <1>5, <2>2, <2>4, Inwards
  <2>6. ConnTypes' /\ RepairApart'
      BY <1>2, <1>5, <2>3 DEF GabboInv, ConnTypes, RepairApart, KeyAlone
  <2>7. Unbothered'
      BY <1>3, <2>5 DEF Unbothered
  <2> QED
      BY <2>5, <2>6, <2>7 DEF GabboInv
<1> QED
    BY <1>4, <1>5 DEF RescueDue

\* A rescue is forgotten.
LEMMA RescueReset ==
  ASSUME NEW c \in ConnRecord
  PROVE  LET r == ResetRescue(c)
         IN  /\ r \in ConnRecord /\ r.stage = 0 /\ r.lirPlaying = FALSE
             /\ r.pending = c.pending /\ r.verify = c.verify /\ r.lirLoc = c.lirLoc
             /\ r.seedPending = c.seedPending
<1>1. 0 \in 0..2
    OBVIOUS
<1> QED
    BY <1>1 DEF ResetRescue, ConnRecord

\* The speaker's own account after a gap: music only of a radio whose user wants it.
LEMMA SeedStep ==
  ASSUME GabboInv, Seeds, UNCHANGED closes
  PROVE  GabboInv'
<1> DEFINE seeded == [conn EXCEPT !.seedPending = FALSE]
           c == ResetRescue(seeded)
           now == IF box.mode # "lir" THEN "away" ELSE IF box.playing THEN "play" ELSE "buffering"
           f == Playing(now, box.loc)
<1>1. /\ post.kind = "none" /\ UNCHANGED <<box, wire, sock, shown, post, recent, wish>>
      /\ conn' = NoteNowPlaying(c, f) \/ conn' = c
    BY DEF Seeds, Attached
<1>2. recent \in BOOLEAN /\ conn \in ConnRecord /\ post \in PostRecord
    BY DEF GabboInv, BoxTypes, ConnTypes
<1>3. seeded \in ConnRecord /\ seeded.pending = conn.pending /\ seeded.verify = conn.verify
    BY <1>2 DEF ConnRecord
<1> HIDE DEF seeded
<1>4. /\ c \in ConnRecord /\ c.stage = 0 /\ c.lirPlaying = FALSE
      /\ c.pending = conn.pending /\ c.verify = conn.verify
    BY <1>3, RescueReset
<1> HIDE DEF c
<1>5. /\ FrameOK(f) /\ f.kind # "selection" /\ f.state \in {"away", "play", "buffering"}
      /\ f.state = "play" => Wanted
  <2>1. box.loc \in SlotOrNone /\ now \in {"away", "play", "buffering"}
        /\ (now = "play" => box.loc \in Lir /\ Wanted)
      BY GabboAssumption DEF GabboInv, BoxTypes, BoxRecord, SlotOrNone
  <2> HIDE DEF now
  <2> QED
      BY <2>1 DEF Playing, FrameOK, Frame, SlotOrNone
<1> HIDE DEF f
<1>6. /\ conn' \in ConnRecord /\ conn'.pending = conn.pending /\ conn'.verify = conn.verify
      /\ conn'.stage = 0 /\ (conn'.lirPlaying => Wanted /\ conn'.lirLoc \in Lir)
      /\ post'.kind = "none"
  <2> DEFINE n == NoteNowPlaying(c, f)
  <2>1. CASE conn' = c
      BY <1>1, <1>4, <2>1
  <2>2. CASE conn' = n
    <3>1. /\ n \in ConnRecord
          /\ n.lirPlaying \/ n.stage # 0 => n.lirLoc \in Lir
          /\ n.pending = c.pending /\ n.verify = c.verify
          /\ f.state = "play" => n.stage = 0
          /\ f.state = "away" => n.stage = 0 /\ ~n.lirPlaying
          /\ f.state = "buffering" =>
               /\ n.lirPlaying => c.lirPlaying
               /\ n.stage = c.stage \/ c.lirPlaying
        BY <1>4, <1>5, NotePlayingAs
    <3> HIDE DEF n
    <3> QED
        BY <1>1, <1>4, <1>5, <2>2, <3>1
  <2> QED
      BY <1>1, <2>1, <2>2
<1>7. Settled => Settled'
    BY <1>6 DEF Settled
<1>8. BoxTypes' /\ WireTypes' /\ WireEnds' /\ KeysSettled' /\ (Unwanted' => Unwanted)
    BY <1>1, <1>2, <1>7, Inwards
<1>9. ConnTypes' /\ RepairApart'
    BY <1>1, <1>6 DEF GabboInv, ConnTypes, RepairApart, KeyAlone
<1>10. Unbothered'
    BY <1>6, <1>8, <1>1 DEF GabboInv, Unbothered, Unwanted
<1> QED
    BY <1>8, <1>9, <1>10 DEF GabboInv

\* The deadlines that are not of a repair.
LEMMA TimeStep ==
  ASSUME GabboInv, TimePasses, UNCHANGED closes
  PROVE  GabboInv'
<1> USE GabboAssumption
<1>1. UNCHANGED <<box, wire, sock, shown, post, wish>> /\ conn \in ConnRecord
    BY DEF TimePasses, GabboInv, ConnTypes
<1>2. recent' \in BOOLEAN
    BY DEF TimePasses, GabboInv, BoxTypes
<1>3. /\ conn' \in ConnRecord /\ conn'.pending = conn.pending /\ conn'.verify = conn.verify
      /\ conn'.stage = conn.stage /\ conn'.lirPlaying = conn.lirPlaying
      /\ conn'.lirLoc = conn.lirLoc /\ conn'.seedPending = conn.seedPending
  <2>1. CASE conn' = [conn EXCEPT !.long = TRUE]
      BY <1>1, <2>1 DEF ConnRecord
  <2>2. CASE \E s \in Slot : conn' = [conn EXCEPT !.attempts[s] = 0]
    <3>1. PICK s \in Slot : conn' = [conn EXCEPT !.attempts[s] = 0]
        BY <2>2
    <3>2. conn' = [conn EXCEPT !.attempts = [conn.attempts EXCEPT ![s] = 0]]
        BY <1>1, <3>1 DEF ConnRecord
    <3>3. conn.attempts \in [Slot -> 0..MaxAttempts] /\ 0 \in 0..MaxAttempts
        BY <1>1 DEF ConnRecord
    <3>4. [conn.attempts EXCEPT ![s] = 0] \in [Slot -> 0..MaxAttempts]
        BY <3>3
    <3> QED
        BY <1>1, <3>2, <3>4 DEF ConnRecord
  <2>3. CASE conn' = [conn EXCEPT !.window = 0]
    <3>1. 0 \in 0..MaxWindow
        OBVIOUS
    <3> QED
        BY <1>1, <2>3, <3>1 DEF ConnRecord
  <2>4. CASE conn' = conn
      BY <1>1, <2>4
  <2> QED
      BY <2>1, <2>2, <2>3, <2>4 DEF TimePasses
<1>4. Settled => Settled'
    BY <1>1, <1>3 DEF Settled
<1>5. BoxTypes' /\ WireTypes' /\ WireEnds' /\ KeysSettled' /\ (Unwanted' => Unwanted)
    BY <1>1, <1>2, <1>4, Inwards
<1>6. ConnTypes' /\ RepairApart'
    BY <1>1, <1>3 DEF GabboInv, ConnTypes, RepairApart, KeyAlone
<1>7. Unbothered'
    BY <1>1, <1>3, <1>5 DEF GabboInv, Unbothered
<1> QED
    BY <1>5, <1>6, <1>7 DEF GabboInv

\* A frame is polled and noted.
LEMMA NotedStep ==
  ASSUME GabboInv, FrameNoted, UNCHANGED closes
  PROVE  GabboInv'
<1> DEFINE f == Head(wire)
           n == Noted(conn, f)
<1>1. /\ post.kind = "none" /\ sock # "down" /\ wire # <<>> /\ conn' = n /\ wire' = Tail(wire)
      /\ UNCHANGED <<box, sock, shown, post, recent, wish>>
      /\ wire \in Seq(Frame) /\ conn \in ConnRecord /\ post \in PostRecord
    BY DEF FrameNoted, Attached, GabboInv, WireTypes, ConnTypes
<1>2. /\ wire' \in Seq(Frame) /\ Len(wire') = Len(wire) - 1 /\ Len(wire') \in Nat /\ f = wire[1]
      /\ 1 \in 1..Len(wire)
      /\ \A i \in 1..Len(wire') : i + 1 \in 1..Len(wire) /\ wire'[i] = wire[i + 1]
      /\ EndsOff(wire) => EndsOff(wire')
      /\ AnyOff(wire) <=> AnyOff(wire') \/ IsOff(f)
      /\ Quieted(wire) => Quieted(wire') \/ (Quieting(f) /\ NoRadioKey(wire'))
      /\ NoRadioKey(wire) => NoRadioKey(wire') /\ f.slot \notin Lir
    BY <1>1, Shrunk, ZenonT(30)
<1>3. FrameOK(f)
    BY <1>2 DEF GabboInv, WireTypes
<1> HIDE DEF f
<1>4. NotedAs(conn, f, n)
    BY <1>1, <1>3, NotedFrame DEF GabboInv, ConnTypes
<1> HIDE DEF n
<1>5. BoxTypes'
    BY <1>1 DEF GabboInv, BoxTypes, Wanted
<1>6. WireTypes'
    BY <1>1, <1>2, GabboAssumption DEF GabboInv, WireTypes
<1>7. WireEnds'
    BY <1>1, <1>2 DEF GabboInv, WireEnds, Wanted
<1>8. ConnTypes'
    BY <1>1, <1>4 DEF GabboInv, ConnTypes, NotedAs
<1>a. f.state \in {"none", "play", "buffering", "invalid", "away", "stopped"} /\ f.slot \in SlotOrNone
    BY <1>3 DEF FrameOK, Frame
<1>9. RepairApart'
    BY <1>1, <1>4, <1>a DEF GabboInv, RepairApart, KeyAlone, NotedAs
<1>b. f.slot \in Slot \ Lir => /\ n.pending = f.slot /\ n.verify = NoSlot /\ n.stage = 0
                               /\ ~n.lirPlaying
  <2> SUFFICES ASSUME f.slot \in Slot \ Lir
               PROVE  n.pending = f.slot /\ n.verify = NoSlot /\ n.stage = 0 /\ ~n.lirPlaying
      OBVIOUS
  <2>1. f.state = "none" /\ f.slot # NoSlot /\ f.loc = f.slot
      BY <1>3, GabboAssumption DEF FrameOK
  <2>2. f.slot # conn.verify /\ ~(conn.stage = 2 /\ f.loc = conn.lirLoc)
      BY <1>1, <2>1, GabboAssumption DEF GabboInv, ConnTypes, ConnRecord, LirOrNone
  <2> QED
      BY <1>4, <2>1, <2>2 DEF NotedAs
<1>10. SettledSoon => SettledSoon'
  <2>1. CASE Quieted(wire)
    <3>1. Quieted(wire') \/ (Quieting(f) /\ NoRadioKey(wire'))
        BY <1>2, <2>1
    <3>2. Quieting(f) => Settled'
        BY <1>1, <1>4, <1>b, GabboAssumption DEF NotedAs, Settled, Quieting
    <3> QED
        BY <3>1, <3>2 DEF SettledSoon
  <2>2. CASE Settled /\ NoRadioKey(wire)
    <3>1. NoRadioKey(wire') /\ f.slot \notin Lir
        BY <1>2, <2>2
    <3>2. Settled'
        BY <1>1, <1>4, <1>a, <2>2, <3>1, GabboAssumption DEF NotedAs, Settled
    <3> QED
        BY <3>1, <3>2 DEF SettledSoon
  <2> QED
      BY <2>1, <2>2 DEF SettledSoon
<1>11. KeysSettled'
    BY <1>1, <1>10 DEF GabboInv, KeysSettled, AtPeace
<1>12. Unbothered'
  <2> SUFFICES ASSUME Unwanted' PROVE Unbothered'
      BY DEF Unbothered
  <2>1. sock = "up" /\ ~Wanted /\ ~AnyOff(wire')
      BY <1>1 DEF Unwanted, OffInFlight, AnyOff, IsOff, Wanted
  <2>2. CASE f.state \in {"away", "stopped"}
      BY <1>1, <1>4, <2>2 DEF NotedAs, Unbothered
  <2>3. CASE f.slot \in Slot \ Lir
      BY <1>1, <1>b, <2>3 DEF Unbothered
  <2>4. CASE f.state \notin {"away", "stopped"} /\ f.slot \notin Slot \ Lir
    <3>1. ~IsOff(f) /\ ~AnyOff(wire)
        BY <1>2, <2>1, <2>4 DEF IsOff
    <3>2. Unwanted
        BY <2>1, <3>1 DEF Unwanted, OffInFlight, AnyOff, IsOff
    <3>3. ~IsOn(f)
        BY <1>2, <2>1, <3>1 DEF GabboInv, WireEnds, EndsOff, AnyOff
    <3>4. f.state \in {"none", "buffering", "invalid"} /\ f.slot = NoSlot
        BY <1>a, <2>4, <3>3 DEF IsOn, SlotOrNone
    <3>5. n.pending = conn.pending /\ n.verify = conn.verify /\ n.seedPending = conn.seedPending
        BY <1>4, <3>4 DEF NotedAs
    <3>6. ~conn.seedPending => conn.stage = 0 /\ ~conn.lirPlaying
        BY <3>2 DEF GabboInv, Unbothered
    <3>7. ~conn.seedPending => n.stage = 0 /\ ~n.lirPlaying
        BY <1>4, <3>4, <3>6 DEF NotedAs
    <3> QED
        BY <1>1, <3>2, <3>5, <3>7 DEF GabboInv, Unbothered
  <2> QED
      BY <2>2, <2>3, <2>4
<1> QED
    BY <1>5, <1>6, <1>7, <1>8, <1>9, <1>11, <1>12 DEF GabboInv

\* A frame that says nothing of the user's mind joins the wire.
LEMMA GrownByEcho ==
  ASSUME NEW w \in Seq(Frame), NEW e \in Frame, ~IsOn(e), ~IsOff(e), e.slot \notin Lir
  PROVE  LET t == Append(w, e)
         IN  /\ t \in Seq(Frame) /\ Len(t) = Len(w) + 1 /\ Len(w) \in Nat
             /\ \A i \in 1..Len(t) : t[i] = e \/ (i \in 1..Len(w) /\ t[i] = w[i])
             /\ EndsOff(w) => EndsOff(t)
             /\ AnyOff(t) <=> AnyOff(w)
             /\ (Quieted(w) => Quieted(t)) /\ (NoRadioKey(w) => NoRadioKey(t))
<1> DEFINE t == Append(w, e)
<1> HIDE DEF t
<1>1. t = Append(w, e)
    BY DEF t
<1>2. /\ t \in Seq(Frame) /\ Len(t) = Len(w) + 1 /\ Len(w) \in Nat
      /\ \A i \in 1..Len(t) : t[i] = e \/ (i \in 1..Len(w) /\ t[i] = w[i])
      /\ ~IsOn(e) /\ (IsOff(e) \/ EndsOff(w)) => EndsOff(t)
      /\ AnyOff(t) <=> AnyOff(w) \/ IsOff(e)
      /\ e.slot \notin Lir => (Quieted(w) => Quieted(t)) /\ (NoRadioKey(w) => NoRadioKey(t))
    BY <1>1, Grown, ZenonT(30)
<1> QED
    BY <1>2 DEF t

\* INVALID_SOURCE while a key waits: the key's re-arm, with what is left on the wire.
LEMMA FrameReArmStep ==
  ASSUME GabboInv, FrameReArms, UNCHANGED closes
  PROVE  GabboInv'
<1> USE GabboAssumption
<1> DEFINE f == Head(wire)
           n == Noted(conn, f)
           c == [n EXCEPT !.pending = NoSlot]
           s == conn.pending
           rest == Tail(wire)
           echo == Selection(NoSlot, s)
<1>1. /\ post.kind = "none" /\ sock # "down" /\ wire # <<>> /\ f.state = "invalid" /\ s # NoSlot
      /\ UNCHANGED <<sock, shown, wish, closes>>
      /\ wire \in Seq(Frame) /\ conn \in ConnRecord /\ post \in PostRecord
    BY DEF FrameReArms, Attached, GabboInv, WireTypes, ConnTypes
<1>2. \/ /\ MayReArm(c, s, FALSE)
         /\ conn' = [c EXCEPT !.attempts[s] = c.attempts[s] + 1]
         /\ post' = [kind |-> "rearm", slot |-> s, foreign |-> FALSE]
         /\ recent' = TRUE
         /\ \/ UNCHANGED box /\ wire' = rest
            \/ /\ box' = [mode |-> "lir", loc |-> s, playing |-> FALSE]
               /\ wire' = IF sock = "up" THEN Append(rest, echo) ELSE rest
      \/ conn' = c /\ wire' = rest /\ UNCHANGED <<post, recent, box>>
    BY DEF FrameReArms
<1>3. /\ rest \in Seq(Frame) /\ Len(rest) = Len(wire) - 1 /\ Len(rest) \in Nat /\ f = wire[1]
      /\ 1 \in 1..Len(wire)
      /\ \A i \in 1..Len(rest) : i + 1 \in 1..Len(wire) /\ rest[i] = wire[i + 1]
      /\ EndsOff(wire) => EndsOff(rest)
      /\ AnyOff(wire) <=> AnyOff(rest) \/ IsOff(f)
      /\ Quieted(wire) => Quieted(rest) \/ Quieting(f)
      /\ NoRadioKey(wire) => NoRadioKey(rest)
    BY <1>1, Shrunk, ZenonT(30)
<1> HIDE DEF rest
<1>4. FrameOK(f)
    BY <1>3 DEF GabboInv, WireTypes
<1> HIDE DEF f
<1>5. NotedAs(conn, f, n)
    BY <1>1, <1>4, NotedFrame DEF GabboInv, ConnTypes
<1> HIDE DEF n
<1>6. ~KeyAlone /\ conn.stage = 0 /\ (s \in Lir => ~Settled) /\ conn.verify = NoSlot
    BY <1>1, KeyWaits DEF KeyAlone, GabboInv, RepairApart
<1>7. /\ n \in ConnRecord /\ n.verify = NoSlot /\ n.stage = 0 /\ n.seedPending = conn.seedPending
      /\ n.lirPlaying => conn.lirPlaying /\ n.lirLoc \in Lir
    BY <1>1, <1>5, <1>6 DEF NotedAs
<1>8. /\ c \in ConnRecord /\ c.pending = NoSlot /\ c.verify = NoSlot /\ c.stage = 0
      /\ c.seedPending = conn.seedPending
      /\ c.lirPlaying => conn.lirPlaying /\ c.lirLoc \in Lir
    BY <1>7 DEF ConnRecord, SlotOrNone
<1> HIDE DEF c
<1>9. /\ conn' \in ConnRecord /\ conn'.pending = NoSlot /\ conn'.verify = NoSlot /\ conn'.stage = 0
      /\ conn'.seedPending = conn.seedPending
      /\ conn'.lirPlaying => conn.lirPlaying /\ conn'.lirLoc \in Lir
      /\ post' \in PostRecord /\ post'.kind \in {"none", "rearm"}
      /\ post'.kind = "rearm" => s \in Lir /\ post'.slot \in Lir
      /\ recent' \in BOOLEAN
  <2>1. CASE conn' = c /\ UNCHANGED <<post, recent>>
      BY <1>1, <1>8, <2>1 DEF GabboInv, BoxTypes, Wanted
  <2>2. CASE /\ MayReArm(c, s, FALSE)
             /\ conn' = [c EXCEPT !.attempts[s] = c.attempts[s] + 1]
             /\ post' = [kind |-> "rearm", slot |-> s, foreign |-> FALSE]
             /\ recent' = TRUE
    <3>1. s \in Slot /\ s \in Lir /\ c.attempts[s] < MaxAttempts
        BY <1>1, <2>2 DEF MayReArm, ConnRecord, SlotOrNone
    <3> HIDE DEF s
    <3>2. /\ conn' \in ConnRecord /\ conn'.pending = NoSlot /\ conn'.verify = NoSlot /\ conn'.stage = 0
          /\ conn'.seedPending = conn.seedPending
          /\ conn'.lirPlaying = c.lirPlaying /\ conn'.lirLoc = c.lirLoc
        BY <1>8, <2>2, <3>1, OneMoreAttempt
    <3>3. post' \in PostRecord /\ post'.kind = "rearm" /\ post'.slot = s
        BY <2>2, <3>1 DEF PostRecord, LirOrNone
    <3> QED
        BY <1>8, <2>2, <3>1, <3>2, <3>3
  <2> QED
      BY <1>2, <2>1, <2>2
<1>10. \/ UNCHANGED box /\ wire' = rest
       \/ /\ box' = [mode |-> "lir", loc |-> s, playing |-> FALSE] /\ s \in Lir
          /\ wire' = rest \/ (sock = "up" /\ wire' = Append(rest, echo))
    BY <1>2 DEF MayReArm
<1>a. FrameOK(echo) /\ echo \in Frame /\ echo.state = "none" /\ echo.slot = NoSlot
    BY <1>1 DEF Selection, FrameOK, Frame, ConnRecord, SlotOrNone
<1>b. ~IsOn(echo) /\ ~IsOff(echo) /\ echo.slot \notin Lir
    BY <1>a DEF IsOn, IsOff
<1> HIDE DEF echo
<1>11. BoxTypes'
  <2>1. CASE UNCHANGED box
      BY <1>1, <1>9, <2>1 DEF GabboInv, BoxTypes, Wanted
  <2>2. CASE box' = [mode |-> "lir", loc |-> s, playing |-> FALSE] /\ s \in Lir
      BY <1>1, <1>9, <2>2 DEF GabboInv, BoxTypes, BoxRecord, SlotOrNone
  <2> QED
      BY <1>10, <2>1, <2>2
<1>12. /\ wire' \in Seq(Frame) /\ Len(wire') <= Len(wire)
       /\ \A i \in 1..Len(wire') :
            \/ wire'[i] = echo
            \/ i \in 1..Len(rest) /\ wire'[i] = rest[i] /\ wire'[i] = wire[i + 1]
               /\ i + 1 \in 1..Len(wire)
       /\ EndsOff(wire) => EndsOff(wire')
       /\ AnyOff(wire') <=> AnyOff(rest)
       /\ (Quieted(rest) => Quieted(wire')) /\ (NoRadioKey(rest) => NoRadioKey(wire'))
  <2>1. CASE wire' = rest
      BY <1>3, <2>1
  <2>2. CASE wire' = Append(rest, echo)
    <3>0. rest \in Seq(Frame) /\ echo \in Frame
        BY <1>3, <1>a
    <3>1. /\ wire' \in Seq(Frame) /\ Len(wire') = Len(rest) + 1 /\ Len(rest) \in Nat
          /\ \A i \in 1..Len(wire') : wire'[i] = echo \/ (i \in 1..Len(rest) /\ wire'[i] = rest[i])
          /\ EndsOff(rest) => EndsOff(wire')
          /\ AnyOff(wire') <=> AnyOff(rest)
          /\ (Quieted(rest) => Quieted(wire')) /\ (NoRadioKey(rest) => NoRadioKey(wire'))
        BY <1>b, <2>2, <3>0, GrownByEcho
    <3> QED
        BY <1>3, <1>b, <3>1
  <2> QED
      BY <1>10, <2>1, <2>2
<1>13. WireTypes'
  <2>1. \A i \in 1..Len(wire') : FrameOK(wire'[i])
      BY <1>12, <1>a DEF GabboInv, WireTypes
  <2>2. Len(wire') <= MaxWire
      BY <1>1, <1>12 DEF GabboInv, WireTypes
  <2> QED
      BY <1>1, <1>12, <2>1, <2>2 DEF GabboInv, WireTypes
<1>14. WireEnds'
    BY <1>1, <1>12 DEF GabboInv, WireEnds, Wanted
<1>15. ConnTypes'
    BY <1>1, <1>9 DEF GabboInv, ConnTypes
<1>16. RepairApart'
    BY <1>9 DEF RepairApart, KeyAlone
<1>c. f.slot = NoSlot /\ ~IsOff(f) /\ ~Quieting(f)
    BY <1>1, <1>4 DEF FrameOK, IsOff, Quieting
<1>17. SettledSoon => SettledSoon'
  <2>1. CASE Quieted(wire)
      BY <1>3, <1>c, <1>12, <2>1 DEF SettledSoon
  <2>2. CASE Settled /\ NoRadioKey(wire)
    <3>1. Settled'
        BY <1>6, <1>9, <2>2 DEF Settled
    <3> QED
        BY <1>3, <1>12, <2>2, <3>1 DEF SettledSoon
  <2> QED
      BY <2>1, <2>2 DEF SettledSoon
<1>18. KeysSettled'
  <2>1. AtPeace' => AtPeace
      BY <1>1, <1>10 DEF AtPeace
  <2> QED
      BY <1>1, <1>17, <2>1 DEF GabboInv, KeysSettled
<1>19. Unwanted' => Unwanted
    BY <1>1, <1>3, <1>c, <1>12 DEF Unwanted, OffInFlight, AnyOff, IsOff, Wanted
<1>20. Unbothered'
    BY <1>9, <1>19 DEF GabboInv, Unbothered
<1> QED
    BY <1>11, <1>13, <1>14, <1>15, <1>16, <1>18, <1>20 DEF GabboInv

\* The socket goes down, and with it the frames.
LEMMA DropStep ==
  ASSUME GabboInv, NEW c \in ConnRecord, Drops(c), UNCHANGED closes, shown' \in BOOLEAN,
         c.pending \in {NoSlot, conn.pending}, c.verify \in {NoSlot, conn.verify},
         c.stage \in {0, conn.stage},
         c.lirPlaying \/ c.stage # 0 => c.lirLoc \in Lir,
         post.kind = "none" \/ c = conn,
         closes \/ (c.pending = NoSlot /\ c.verify = NoSlot /\ post.kind = "none")
  PROVE  GabboInv'
<1>1. sock' = "down" /\ wire' = <<>> /\ conn' = c /\ UNCHANGED <<box, post, recent, wish>>
    BY DEF Drops
<1>2. BoxTypes'
    BY <1>1 DEF GabboInv, BoxTypes, Wanted
<1>3. WireTypes'
    BY <1>1, GabboAssumption, EmptySeq DEF WireTypes
<1>4. WireEnds' /\ Unbothered'
    BY <1>1 DEF WireEnds, Unbothered, Unwanted
<1>5. ConnTypes'
    BY <1>1 DEF GabboInv, ConnTypes
<1>6. RepairApart'
    BY <1>1 DEF GabboInv, RepairApart, KeyAlone
<1>7. KeysSettled'
    BY <1>1, GabboAssumption DEF KeysSettled, Settled
<1> QED
    BY <1>2, <1>3, <1>4, <1>5, <1>6, <1>7 DEF GabboInv

\* A connection as it is created.
LEMMA FreshConn ==
  /\ NewConn \in ConnRecord /\ NewConn.pending = NoSlot /\ NewConn.verify = NoSlot
  /\ NewConn.stage = 0 /\ NewConn.lirPlaying = FALSE /\ NewConn.seedPending = FALSE
<1>1. 0 \in 0..MaxAttempts /\ 0 \in 0..MaxRescues /\ 0 \in 0..MaxWindow /\ 0 \in 0..2
    BY GabboAssumption
<1> QED
    BY <1>1 DEF NewConn, ConnRecord, SlotOrNone, LirOrNone

\* The ways a connection ends.
LEMMA HangupStep ==
  ASSUME GabboInv, Idles \/ PingFails \/ SpeakerCloses \/ Drifts \/ Forgets \/ RotatesOut,
         UNCHANGED closes
  PROVE  GabboInv'
<1>0. conn \in ConnRecord /\ shown \in BOOLEAN
      /\ (conn.lirPlaying \/ conn.stage # 0 => conn.lirLoc \in Lir)
    BY DEF GabboInv, ConnTypes, BoxTypes
<1>1. CASE Idles \/ PingFails
  <2> DEFINE d == [conn EXCEPT !.verify = NoSlot]
             c == ResetRescue(d)
  <2>1. /\ Drops(c) /\ UNCHANGED shown /\ post.kind = "none"
        /\ closes \/ conn.pending = NoSlot
      BY <1>1 DEF Idles, PingFails, Attached
  <2>2. d \in ConnRecord /\ d.pending = conn.pending /\ d.verify = NoSlot
      BY <1>0 DEF ConnRecord, LirOrNone
  <2> HIDE DEF d
  <2>3. /\ c \in ConnRecord /\ c.stage = 0 /\ c.lirPlaying = FALSE
        /\ c.pending = conn.pending /\ c.verify = NoSlot
      BY <2>2, RescueReset
  <2> HIDE DEF c
  <2> QED
      BY <1>0, <2>1, <2>3, DropStep
<1>2. CASE SpeakerCloses
    BY <1>0, <1>2, DropStep DEF SpeakerCloses
<1>3. CASE Drifts
  <2> DEFINE c == ResetRescue(conn)
  <2>1. Drops(c) /\ UNCHANGED shown /\ post.kind = "none" /\ closes
      BY <1>3 DEF Drifts
  <2>3. /\ c \in ConnRecord /\ c.stage = 0 /\ c.lirPlaying = FALSE
        /\ c.pending = conn.pending /\ c.verify = conn.verify
      BY <1>0, RescueReset
  <2> HIDE DEF c
  <2> QED
      BY <1>0, <2>1, <2>3, DropStep
<1>4. CASE Forgets
    BY <1>0, <1>4, FreshConn, DropStep DEF Forgets
<1>5. CASE RotatesOut
  <2> DEFINE d == [conn EXCEPT !.pending = NoSlot, !.verify = NoSlot]
             c == ResetRescue(d)
  <2>1. Drops(c) /\ shown' = FALSE /\ post.kind = "none"
      BY <1>5 DEF RotatesOut
  <2>2. d \in ConnRecord /\ d.pending = NoSlot /\ d.verify = NoSlot
      BY <1>0 DEF ConnRecord, LirOrNone, SlotOrNone
  <2> HIDE DEF d
  <2>3. /\ c \in ConnRecord /\ c.stage = 0 /\ c.lirPlaying = FALSE
        /\ c.pending = NoSlot /\ c.verify = NoSlot
      BY <2>2, RescueReset
  <2> HIDE DEF c
  <2> QED
      BY <1>0, <2>1, <2>3, DropStep
<1> QED
    BY <1>1, <1>2, <1>3, <1>4, <1>5

\* The ways it begins, comes into the window, or dies unnoticed.
LEMMA LinkStep ==
  ASSUME GabboInv, Connects \/ RotatesIn \/ GoesDeaf \/ UNCHANGED gabbo, UNCHANGED closes
  PROVE  GabboInv'
<1>1. CASE Connects
  <2>1. /\ sock = "down" /\ post.kind = "none" /\ sock' = "up" /\ wire' = <<>>
        /\ conn' = [conn EXCEPT !.seedPending = TRUE] /\ UNCHANGED <<box, shown, post, recent, wish>>
      BY <1>1 DEF Connects
  <2>2. /\ conn' \in ConnRecord /\ conn'.pending = conn.pending /\ conn'.verify = conn.verify
        /\ conn'.stage = conn.stage /\ conn'.lirPlaying = conn.lirPlaying
        /\ conn'.lirLoc = conn.lirLoc /\ conn'.seedPending = TRUE
      BY <2>1 DEF GabboInv, ConnTypes, ConnRecord
  <2>3. BoxTypes'
      BY <2>1 DEF GabboInv, BoxTypes, Wanted
  <2>4. WireTypes' /\ WireEnds'
      BY <2>1, GabboAssumption, EmptySeq DEF WireTypes, WireEnds, EndsOff
  <2>5. ConnTypes' /\ RepairApart'
      BY <2>1, <2>2 DEF GabboInv, ConnTypes, RepairApart, KeyAlone
  <2>6. ~closes => Settled
      BY <2>1 DEF GabboInv, KeysSettled
  <2>7. Settled' <=> Settled
      BY <2>1, <2>2 DEF Settled
  <2>8. Len(wire') = 0
      BY <2>1, EmptySeq
  <2>9. KeysSettled'
      BY <2>1, <2>6, <2>7, <2>8 DEF KeysSettled, SettledSoon, NoRadioKey
  <2>10. Unbothered'
      BY <2>2 DEF Unbothered
  <2> QED
      BY <2>3, <2>4, <2>5, <2>9, <2>10 DEF GabboInv
<1>2. CASE RotatesIn
  <2>1. shown' = TRUE /\ UNCHANGED <<box, wire, sock, conn, post, recent, wish>>
      BY <1>2 DEF RotatesIn
  <2> QED
      BY <2>1 DEF GabboInv, BoxTypes, WireTypes, ConnTypes, RepairApart, KeyAlone, WireEnds,
                  KeysSettled, Unbothered, Unwanted, OffInFlight, Wanted, AtPeace, Settled, SettledSoon
<1>3. CASE GoesDeaf
  <2>1. sock' = "deaf" /\ sock = "up" /\ UNCHANGED <<box, wire, shown, conn, post, recent, wish>>
      BY <1>3 DEF GoesDeaf
  <2> QED
      BY <2>1 DEF GabboInv, BoxTypes, WireTypes, ConnTypes, RepairApart, KeyAlone, WireEnds,
                  KeysSettled, Unbothered, Unwanted, Wanted
<1>4. CASE UNCHANGED gabbo
    BY <1>4 DEF gabbo, GabboInv, BoxTypes, WireTypes, ConnTypes, RepairApart, KeyAlone, WireEnds,
                  KeysSettled, Unbothered, Unwanted, OffInFlight, Wanted, AtPeace, Settled, SettledSoon
<1> QED
    BY <1>1, <1>2, <1>3, <1>4

\* The watcher as it starts.
LEMMA WatcherStarts ==
  GabboInit => GabboInv
<1> SUFFICES ASSUME GabboInit PROVE GabboInv
    OBVIOUS
<1> USE GabboAssumption DEF GabboInit
<1>1. BoxTypes
    BY DEF BoxTypes, BoxRecord, SlotOrNone
<1>2. WireTypes /\ WireEnds
    BY EmptySeq DEF WireTypes, WireEnds
<1>3. NoPost \in PostRecord /\ NoPost.kind = "none"
    BY DEF NoPost, PostRecord, LirOrNone
<1>4. ConnTypes /\ RepairApart
    BY <1>3, FreshConn DEF ConnTypes, RepairApart, KeyAlone
<1>5. KeysSettled /\ Unbothered
    BY <1>3, FreshConn DEF KeysSettled, Unbothered, Settled, KeyAlone, Unwanted
<1> QED
    BY <1>1, <1>2, <1>4, <1>5 DEF GabboInv

\* Every step.
LEMMA WatcherStep ==
  GabboInv /\ [GabboNext]_gabbo => GabboInv'
<1> SUFFICES ASSUME GabboInv, [GabboNext]_gabbo PROVE GabboInv'
    OBVIOUS
<1>1. UNCHANGED closes
    BY DEF GabboNext, gabbo
<1>2. ASSUME NEW s \in Slot, UserPresses(s) PROVE GabboInv'
    BY <1>1, <1>2, UserStep
<1>3. ASSUME NEW s \in Lir, UiSelects(s) PROVE GabboInv'
    BY <1>1, <1>3, UiStep
<1>4. CASE UserTurnsAway \/ UserPauses \/ BoxReports \/ BoxReportsOther
    BY <1>1, <1>4, UserStep
<1>5. CASE FrameNoted
    BY <1>1, <1>5, NotedStep
<1>6. CASE FrameReArms
    BY <1>1, <1>6, FrameReArmStep
<1>7. CASE PendingExpires \/ VerifyExpires
    BY <1>1, <1>7, DeadlineStep
<1>8. CASE ReArmReturns \/ RescueReturns
    BY <1>1, <1>8, ReturnStep
<1>9. CASE RescueDue
    BY <1>1, <1>9, RescueStep
<1>10. CASE Seeds
    BY <1>1, <1>10, SeedStep
<1>11. CASE Connects \/ RotatesIn \/ GoesDeaf \/ UNCHANGED gabbo
    BY <1>1, <1>11, LinkStep
<1>12. CASE Idles \/ PingFails \/ SpeakerCloses \/ Drifts \/ Forgets \/ RotatesOut
    BY <1>1, <1>12, HangupStep
<1>13. CASE TimePasses
    BY <1>1, <1>13, TimeStep
<1> QED
    BY <1>2, <1>3, <1>4, <1>5, <1>6, <1>7, <1>8, <1>9, <1>10, <1>11, <1>12, <1>13 DEF GabboNext

\* The invariant holds throughout.
LEMMA GabboInvHolds == GabboSpec => []GabboInv
BY WatcherStarts, WatcherStep, PTL DEF GabboSpec

\* A key waiting to be re-armed, a re-arm waiting for music and a rescue are never in progress
\* together, for any number of keys and attempts (gabbo_watcher.cpp:232, 391-416, 456-520).
THEOREM OneRepairTheorem == GabboSpec => []OneRepair
<1>1. GabboInv => OneRepair
    BY DEF GabboInv, RepairApart, KeyAlone, OneRepair
<1> QED
    BY <1>1, GabboInvHolds, PTL

\* The types of the watcher.
THEOREM GabboTypesTheorem == GabboSpec => []GabboTypeOK
<1>1. GabboInv => GabboTypeOK
    BY GabboAssumption DEF GabboInv, WireTypes, ConnTypes, ConnRecord, SlotOrNone, LirOrNone, GabboTypeOK
<1> QED
    BY <1>1, GabboInvHolds, PTL

\* Once the news that the radio is unwanted has arrived over a connection that never closed by
\* itself, no key of the radio waits, unless the user only stopped what had not begun to play.
LEMMA NoKeyWaits ==
  ASSUME GabboInv, ~closes, sock = "up", wish = "off", ~OffInFlight
  PROVE  Settled
<1>1. SettledSoon /\ EndsOff(wire)
    BY DEF GabboInv, KeysSettled, AtPeace, WireEnds, Wanted
<1>2. \A i \in 1..Len(wire) : ~IsOff(wire[i])
    BY DEF OffInFlight, IsOff
<1>3. ~Quieted(wire)
    BY <1>1, <1>2 DEF Quieted, Quieting, EndsOff, IsOff, IsOn
<1> QED
    BY <1>1, <1>3 DEF SettledSoon

\* The watcher selects a station only at a speaker whose user wants the radio: a rescue never,
\* and a key's repair only if a closed connection hid what the user did, or he stopped before
\* the music began (gabbo_watcher.cpp:231-235, 436-449 and 541-553).
THEOREM NotAgainstUserTheorem == GabboSpec => NotAgainstUser
<1> DEFINE Excused == \/ wish = "on" \/ OffInFlight \/ sock = "deaf"
                      \/ post'.kind = "rearm" /\ (closes \/ wish = "stopped")
<1>1. ASSUME GabboInv, [GabboNext]_gabbo, BeginsSelect PROVE Excused
  <2>1. post.kind = "none" /\ post'.kind # "none"
      BY <1>1 DEF BeginsSelect
  <2>2. \/ RescueDue \/ FrameReArms \/ PendingExpires \/ VerifyExpires
    <3>1. UNCHANGED post => FALSE
        BY <2>1
    <3>2. NoPost.kind = "none"
        BY DEF NoPost
    <3>3. \A s \in Lir : ~UiSelects(s)
      <4> DEFINE busy == (post.kind # "none")
      <4>1. busy \in BOOLEAN /\ post \in PostRecord
          BY <1>1 DEF GabboInv, ConnTypes
      <4>2. \A s \in Lir : UiSelects(s) => post' = [post EXCEPT !.foreign = busy]
          BY DEF UiSelects
      <4> HIDE DEF busy
      <4> QED
          BY <2>1, <4>1, <4>2 DEF PostRecord
    <3>4. ~ReArmReturns /\ ~RescueReturns
        BY <2>1 DEF ReArmReturns, RescueReturns
    <3>5. \A s \in Slot : ~UserPresses(s)
        BY <2>1 DEF UserPresses, WatcherRests
    <3>6. ~(UserTurnsAway \/ UserPauses \/ BoxReports \/ BoxReportsOther)
        BY <2>1 DEF UserTurnsAway, UserPauses, BoxReports, BoxReportsOther, WatcherRests
    <3>7. ~(FrameNoted \/ Connects \/ Seeds \/ GoesDeaf \/ RotatesIn \/ TimePasses)
        BY <2>1 DEF FrameNoted, Connects, Seeds, GoesDeaf, RotatesIn, TimePasses
    <3>8. ~(Idles \/ PingFails \/ SpeakerCloses \/ Drifts \/ Forgets \/ RotatesOut)
        BY <2>1 DEF Idles, PingFails, SpeakerCloses, Drifts, Forgets, RotatesOut, Drops
    <3>9. ~UNCHANGED gabbo
        BY <2>1 DEF gabbo
    <3> QED
        BY <1>1, <3>3, <3>4, <3>5, <3>6, <3>7, <3>8, <3>9 DEF GabboNext
  <2>3. sock \in {"up", "deaf"}
      BY <2>2 DEF RescueDue, FrameReArms, PendingExpires, VerifyExpires, Attached
  <2>4. Unwanted \/ wish = "on" \/ OffInFlight \/ sock = "deaf"
      BY <2>3 DEF Unwanted, Wanted
  <2>5. CASE RescueDue
    <3>1. conn.stage > 0 /\ ~conn.seedPending
        BY <2>5 DEF RescueDue
    <3>2. ~Unwanted
        BY <1>1, <3>1 DEF GabboInv, Unbothered
    <3> QED
        BY <2>4, <3>2
  <2>6. CASE FrameReArms \/ PendingExpires \/ VerifyExpires
    <3>1. post'.kind = "rearm" /\ (conn.pending \in Lir \/ conn.verify \in Lir)
      <4>1. CASE FrameReArms
          BY <2>1, <4>1 DEF FrameReArms, MayReArm
      <4>2. CASE PendingExpires
          BY <2>1, <4>2 DEF PendingExpires, ReArms, MayReArm
      <4>3. CASE VerifyExpires
          BY <2>1, <4>3 DEF VerifyExpires, ReArms, MayReArm
      <4> QED
          BY <2>6, <4>1, <4>2, <4>3
    <3>2. ~Unwanted \/ closes \/ wish # "off"
        BY <1>1, <3>1, NoKeyWaits DEF Unwanted, Settled
    <3>3. wish \in {"on", "off", "stopped"}
        BY <1>1 DEF GabboInv, BoxTypes, Wanted
    <3> QED
        BY <2>4, <3>1, <3>2, <3>3
  <2> QED
      BY <2>2, <2>5, <2>6
<1>2. GabboInv /\ [GabboNext]_gabbo => [BeginsSelect => Excused]_gabbo
    BY <1>1
<1> QED
    BY <1>2, GabboInvHolds, PTL DEF GabboSpec, NotAgainstUser

-----------------------------------------------------------------------------
(* The queue of presets.                                                    *)

PushSpec == PushInit /\ [][PushNext]_push

JobRecord == [key : Button, station : Station]

\* Every number below the size of a set is the rank of one of its keys.
LEMMA RankOf ==
  ASSUME NEW ks \in SUBSET Button, NEW i \in 1..Cardinality(ks)
  PROVE  \E k \in ks : Cardinality({j \in ks : j < k}) = i - 1
<1> DEFINE n == Cardinality(ks)
           before(k) == {j \in ks : j < k}
           rank == [k \in ks |-> Cardinality(before(k))]
<1>1. /\ IsFiniteSet(ks) /\ \A k \in ks : k \in Nat
    BY PushAssumption, FS_Subset
<1>2. n \in Nat
    BY <1>1, FS_CardinalityType
<1>3. \A S \in SUBSET ks : IsFiniteSet(S) /\ Cardinality(S) \in Nat /\ Cardinality(S) <= n
                           /\ (Cardinality(S) = n => S = ks)
    BY <1>1, FS_Subset, FS_CardinalityType
<1>4. \A k \in ks : rank[k] \in 0..n-1
  <2> TAKE k \in ks
  <2>1. before(k) \in SUBSET ks /\ before(k) # ks
      BY <1>1
  <2> QED
      BY <1>2, <1>3, <2>1
<1>5. ASSUME NEW k \in ks, NEW l \in ks, k < l PROVE rank[k] < rank[l]
  <2>1. before(k) \in SUBSET before(l) /\ before(k) # before(l) /\ before(l) \in SUBSET ks
      BY <1>1, <1>5
  <2>2. IsFiniteSet(before(l)) /\ Cardinality(before(k)) \in Nat /\ Cardinality(before(l)) \in Nat
      BY <1>3, <2>1
  <2> QED
      BY <2>1, <2>2, FS_Subset
<1>6. rank \in [ks -> 0..n-1]
    BY <1>4
<1>7. \A k, l \in ks : rank[k] = rank[l] => k = l
  <2> SUFFICES ASSUME NEW k \in ks, NEW l \in ks, rank[k] = rank[l], k # l PROVE FALSE
      OBVIOUS
  <2>1. k < l \/ l < k
      BY <1>1
  <2>2. rank[k] \in Int /\ rank[l] \in Int
      BY <1>4
  <2> HIDE DEF rank
  <2>3. rank[k] < rank[l] \/ rank[l] < rank[k]
      BY <1>5, <2>1
  <2> QED
      BY <2>2, <2>3
<1>8. rank \in Injection(ks, 0..n-1)
    BY <1>6, <1>7 DEF Injection, IsInjective
<1>9. IsFiniteSet(0..n-1) /\ Cardinality(0..n-1) = n
  <2>1. 0 \in Int /\ n - 1 \in Int /\ (0 > n - 1 <=> n = 0)
      BY <1>2
  <2> HIDE DEF n
  <2>2. IsFiniteSet(0..n-1) /\ Cardinality(0..n-1) = IF 0 > n - 1 THEN 0 ELSE (n - 1) - 0 + 1
      BY <2>1, FS_Interval
  <2> QED
      BY <1>2, <2>1, <2>2
<1>10. rank \in Surjection(ks, 0..n-1)
    BY <1>8, <1>9, FS_Injection
<1>11. i - 1 \in 0..n-1
    BY <1>2
<1>12. PICK k \in ks : rank[k] = i - 1
    BY <1>10, <1>11 DEF Surjection
<1> QED
    BY <1>12

\* The jobs of some keys are a sequence of jobs that fits.
LEMMA JobsTypes ==
  ASSUME NEW ks \in SUBSET Button, NEW from \in [Button -> Station \cup {NoStation}],
         \A k \in ks : from[k] \in Station,
         Len(queue) \in Nat, Len(queue) <= Depth
  PROVE  \E jobs \in Seq(JobRecord) :
           /\ Jobs(ks, from) = jobs /\ Len(queue) + Len(jobs) <= Depth
           /\ KeysOf(jobs) \subseteq ks
           /\ \A i \in 1..Len(jobs) : jobs[i].key \in ks /\ jobs[i].station = from[jobs[i].key]
<1> DEFINE n == Cardinality(ks)
           Nth(i) == CHOOSE k \in ks : Cardinality({j \in ks : j < k}) = i - 1
           m == IF n <= Depth - Len(queue) THEN n ELSE Depth - Len(queue)
           jobs == [i \in 1..m |-> [key |-> Nth(i), station |-> from[Nth(i)]]]
<1>1. n \in Nat /\ Depth \in Nat
    BY PushAssumption, FS_Subset, FS_CardinalityType
<1>2. \A i \in 1..n : Nth(i) \in ks
    BY RankOf
<1> HIDE DEF n, Nth
<1>3. m \in Nat /\ m <= n /\ Len(queue) + m <= Depth
    BY <1>1
<1>4. {i \in 1..n : Len(queue) + i <= Depth} = 1..m
    BY <1>1
<1> HIDE DEF m
<1>5. Jobs(ks, from) = jobs
    BY <1>4 DEF Jobs, n, Nth
<1>6. \A i \in 1..m : /\ jobs[i].key \in ks /\ jobs[i] \in JobRecord
                      /\ jobs[i].station = from[jobs[i].key]
  <2> TAKE i \in 1..m
  <2>1. i \in 1..n
      BY <1>1, <1>3
  <2>2. Nth(i) \in ks /\ Nth(i) \in Button /\ from[Nth(i)] \in Station
      BY <1>2, <2>1
  <2>3. jobs[i] = [key |-> Nth(i), station |-> from[Nth(i)]]
      OBVIOUS
  <2> HIDE DEF jobs
  <2> QED
      BY <2>2, <2>3 DEF JobRecord
<1>7. jobs \in Seq(JobRecord) /\ Len(jobs) = m /\ DOMAIN jobs = 1..m
    BY <1>3, <1>6
<1> HIDE DEF jobs
<1> QED
    BY <1>3, <1>5, <1>6, <1>7 DEF KeysOf

PushTypes ==
  /\ slots \in [Button -> Station \cup {NoStation}] /\ keys \in [Button -> Station \cup {NoStation}]
  /\ queue \in Seq(JobRecord) /\ Len(queue) <= Depth
  /\ exists \in BOOLEAN /\ worker \in {"none", "idle", "taken", "selected", "playing"}
  /\ job = NoJob \/ job \in JobRecord
  /\ job = NoJob <=> worker \in {"none", "idle"}
  /\ ~exists => worker = "none" /\ queue = <<>>
  /\ asked \in Station \cup {NoStation} /\ tuned \in Station \cup {NoStation}
  /\ sounds \in BOOLEAN /\ slow \in BOOLEAN /\ agreed \subseteq Button

Unqueued(q, k) == \A i \in 1..Len(q) : q[i].key # k

\* The last job for a key carries this station.
LastCarries(q, k, s) ==
  \A i \in 1..Len(q) :
    q[i].key = k /\ (\A j \in 1..Len(q) : i < j => q[j].key # k) => q[i].station = s

\* The speaker has left its old station for the one of the job.
Switched == asked = NoStation /\ tuned = job.station

\* A key no job waits for has its station, or gets it from the job at work; at a slow speaker
\* nothing is known.
GetsIt(k) ==
  \/ slow
  \/ IF job # NoJob /\ job.key = k
     THEN /\ job.station = slots[k]
          /\ worker = "selected" => asked = job.station \/ Switched
          /\ worker = "playing" => Switched
     ELSE keys[k] = slots[k]

(***************************************************************************)
(* Delivered speaks of an empty queue; while there are jobs, the last one  *)
(* for a key decides what the key will hold.                               *)
(***************************************************************************)
Promised ==
  \A k \in agreed : LastCarries(queue, k, slots[k]) /\ (Unqueued(queue, k) => GetsIt(k))

PushInv == PushTypes /\ Promised

\* No job is a job.
LEMMA NoJobIsNone == NoJob \notin JobRecord
BY PushAssumption DEF NoJob, JobRecord

\* Jobs put at the end of the queue: they decide for their keys.
LEMMA Enqueued ==
  ASSUME NEW q \in Seq(JobRecord), NEW r \in Seq(JobRecord), NEW k, NEW s,
         \A i \in 1..Len(r) : r[i].key = k => r[i].station = s,
         ~Unqueued(r, k) \/ LastCarries(q, k, s)
  PROVE  /\ LastCarries(q \o r, k, s)
         /\ Unqueued(q \o r, k) => Unqueued(q, k) /\ Unqueued(r, k)
<1> DEFINE t == q \o r
<1>1. /\ Len(t) = Len(q) + Len(r) /\ Len(q) \in Nat /\ Len(r) \in Nat
      /\ \A i \in 1..Len(q) + Len(r) : t[i] = IF i <= Len(q) THEN q[i] ELSE r[i - Len(q)]
    BY ConcatProperties, LenProperties
<1>2. \A i \in 1..Len(q) : i \in 1..Len(t) /\ t[i] = q[i]
    BY <1>1
<1>3. \A i \in 1..Len(r) : Len(q) + i \in 1..Len(t) /\ t[Len(q) + i] = r[i]
    BY <1>1
<1>4. \A i \in 1..Len(t) : i \in 1..Len(q) \/ (i - Len(q) \in 1..Len(r) /\ t[i] = r[i - Len(q)])
    BY <1>1
<1> HIDE DEF t
<1>5. Unqueued(t, k) => Unqueued(q, k) /\ Unqueued(r, k)
    BY <1>2, <1>3 DEF Unqueued
<1>6. ASSUME NEW i \in 1..Len(t), t[i].key = k, \A j \in 1..Len(t) : i < j => t[j].key # k
      PROVE  t[i].station = s
  <2>1. CASE i \in 1..Len(q)
    <3>1. \A j \in 1..Len(r) : i < Len(q) + j
        BY <1>1, <2>1
    <3>2. Unqueued(r, k)
        BY <1>3, <1>6, <3>1 DEF Unqueued
    <3>3. LastCarries(q, k, s)
        BY <3>2
    <3>4. \A j \in 1..Len(q) : i < j => q[j].key # k
        BY <1>2, <1>6
    <3> QED
        BY <1>2, <1>6, <2>1, <3>3, <3>4 DEF LastCarries
  <2>2. CASE i - Len(q) \in 1..Len(r) /\ t[i] = r[i - Len(q)]
      BY <1>6, <2>2
  <2> QED
      BY <1>4, <2>1, <2>2
<1> QED
    BY <1>5, <1>6 DEF LastCarries, t

\* The first job leaves the queue.
LEMMA Dequeued ==
  ASSUME NEW q \in Seq(JobRecord), q # <<>>, NEW k, NEW s, LastCarries(q, k, s)
  PROVE  /\ LastCarries(Tail(q), k, s)
         /\ Unqueued(Tail(q), k) => IF Head(q).key = k THEN Head(q).station = s ELSE Unqueued(q, k)
<1>1. /\ Tail(q) \in Seq(JobRecord) /\ Len(q) \in Nat /\ Len(q) > 0 /\ Len(Tail(q)) = Len(q) - 1
      /\ \A i \in 1..Len(Tail(q)) : Tail(q)[i] = q[i + 1]
      /\ Head(q) = q[1]
    BY HeadTailProperties, LenProperties, EmptySeq
<1>2. \A i \in 2..Len(q) : i - 1 \in 1..Len(Tail(q)) /\ q[i] = Tail(q)[i - 1]
    BY <1>1
<1>3. \A i \in 1..Len(Tail(q)) : i + 1 \in 1..Len(q)
    BY <1>1
<1>4. LastCarries(Tail(q), k, s)
  <2> SUFFICES ASSUME NEW i \in 1..Len(Tail(q)), Tail(q)[i].key = k,
                      \A j \in 1..Len(Tail(q)) : i < j => Tail(q)[j].key # k
               PROVE  Tail(q)[i].station = s
      BY DEF LastCarries
  <2>1. \A j \in 1..Len(q) : i + 1 < j => q[j].key # k
    <3> TAKE j \in 1..Len(q)
    <3> HAVE i + 1 < j
    <3>1. j \in 2..Len(q) /\ i < j - 1
        BY <1>1
    <3> QED
        BY <1>2, <3>1
  <2> QED
      BY <1>1, <1>3, <2>1 DEF LastCarries
<1>5. ASSUME Unqueued(Tail(q), k) PROVE \A j \in 2..Len(q) : q[j].key # k
    BY <1>2, <1>5 DEF Unqueued
<1>6. ASSUME Unqueued(Tail(q), k), Head(q).key = k PROVE Head(q).station = s
  <2>1. 1 \in 1..Len(q) /\ \A j \in 1..Len(q) : 1 < j => j \in 2..Len(q)
      BY <1>1
  <2> QED
      BY <1>1, <1>5, <1>6, <2>1 DEF LastCarries
<1>7. ASSUME Unqueued(Tail(q), k), Head(q).key # k PROVE Unqueued(q, k)
  <2>1. \A j \in 1..Len(q) : j = 1 \/ j \in 2..Len(q)
      BY <1>1
  <2> QED
      BY <1>1, <1>5, <1>7, <2>1 DEF Unqueued
<1> QED
    BY <1>4, <1>6, <1>7

\* Jobs for some keys join the queue with what is in the store; all other keys of a new
\* agreement hold it, and no job waits for them.
LEMMA BulkPromised ==
  ASSUME PushTypes, NEW to, slots' = to, to \in [Button -> Station \cup {NoStation}],
         NEW ks \in SUBSET Button, \A k \in ks : to[k] \in Station,
         queue' = queue \o Jobs(ks, to), QueueReady, WorkerRests,
         agreed' \subseteq Button,
         \A k \in agreed' \ KeysOf(Jobs(ks, to)) :
            LastCarries(queue, k, to[k]) /\ (Unqueued(queue, k) => GetsIt(k) /\ to[k] = slots[k])
  PROVE  PushInv'
<1>1. /\ queue \in Seq(JobRecord) /\ Len(queue) \in Nat /\ Len(queue) <= Depth
    BY LenProperties DEF PushTypes
<1>2. PICK jobs \in Seq(JobRecord) :
        /\ Jobs(ks, to) = jobs /\ Len(queue) + Len(jobs) <= Depth
        /\ KeysOf(jobs) \subseteq ks
        /\ \A i \in 1..Len(jobs) : jobs[i].key \in ks /\ jobs[i].station = to[jobs[i].key]
    BY <1>1, JobsTypes
<1>3. DOMAIN jobs = 1..Len(jobs)
    BY <1>2, LenProperties
<1>4. /\ queue' = queue \o jobs /\ queue' \in Seq(JobRecord) /\ Len(queue') <= Depth
    BY <1>1, <1>2, ConcatProperties
<1>5. PushTypes'
    BY <1>4 DEF PushTypes, QueueReady, WorkerRests, speaker
<1>6. ASSUME NEW k \in agreed'
      PROVE  LastCarries(queue', k, to[k]) /\ (Unqueued(queue', k) => GetsIt(k)')
  <2>1. \A i \in 1..Len(jobs) : jobs[i].key = k => jobs[i].station = to[k]
      BY <1>2
  <2>2. k \in KeysOf(jobs) <=> ~Unqueued(jobs, k)
      BY <1>3 DEF KeysOf, Unqueued
  <2>3. k \notin KeysOf(jobs) =>
          LastCarries(queue, k, to[k]) /\ (Unqueued(queue, k) => GetsIt(k) /\ to[k] = slots[k])
      BY <1>2, <1>6
  <2>4. /\ LastCarries(queue', k, to[k])
        /\ Unqueued(queue', k) => Unqueued(queue, k) /\ Unqueued(jobs, k)
      BY <1>1, <1>2, <1>4, <2>1, <2>2, <2>3, Enqueued
  <2>5. GetsIt(k) /\ to[k] = slots[k] => GetsIt(k)'
      BY DEF GetsIt, Switched, WorkerRests, speaker, QueueReady, PushTypes
  <2> QED
      BY <2>2, <2>3, <2>4, <2>5
<1> QED
    BY <1>5, <1>6 DEF PushInv, Promised

\* The handlers of the web server.
LEMMA PushHandlers ==
  ASSUME PushInv, NEW k, NEW j,
         \/ k \in Button /\ j \in Button /\ (Edits(k) \/ Swaps(j, k) \/ PushesOne(k))
         \/ PushesAll \/ Restores
  PROVE  PushInv'
<1>1. /\ queue \in Seq(JobRecord) /\ Len(queue) \in Nat /\ Len(queue) <= Depth
      /\ agreed \subseteq Button /\ slots \in [Button -> Station \cup {NoStation}]
      /\ \A b \in agreed : LastCarries(queue, b, slots[b]) /\ (Unqueued(queue, b) => GetsIt(b))
    BY LenProperties DEF PushTypes, PushInv, Promised
<1>2. CASE k \in Button /\ j \in Button /\ (Edits(k) \/ Swaps(j, k))
  <2>1. PushTypes'
    <3>1. /\ slots' \in [Button -> Station \cup {NoStation}] /\ agreed' \subseteq agreed
          /\ WorkerRests /\ UNCHANGED queue
        BY <1>1, <1>2 DEF Edits, Swaps
    <3>2. \/ exists' = exists /\ worker' = worker
          \/ exists' = TRUE /\ worker' \in {worker, "idle"} /\ worker \in {"none", worker'}
        BY <1>2 DEF Edits, Swaps, QueueReady, PushInv, PushTypes
    <3>3. job' = NoJob <=> worker' \in {"none", "idle"}
        BY <3>1, <3>2 DEF PushInv, PushTypes, WorkerRests
    <3>4. ~exists' => worker' = "none" /\ queue' = <<>>
        BY <3>1, <3>2 DEF PushInv, PushTypes
    <3>5. exists' \in BOOLEAN /\ worker' \in {"none", "idle", "taken", "selected", "playing"}
        BY <3>2 DEF PushInv, PushTypes
    <3> QED
        BY <1>1, <3>1, <3>3, <3>4, <3>5 DEF PushInv, PushTypes, WorkerRests, speaker
  <2>2. /\ agreed' \subseteq agreed /\ \A b \in agreed' : slots'[b] = slots[b]
        /\ UNCHANGED queue
      BY <1>1, <1>2 DEF Edits, Swaps
  <2>3. ASSUME NEW b \in agreed', GetsIt(b) PROVE GetsIt(b)'
      BY <1>2, <2>2, <2>3 DEF GetsIt, Switched, Edits, Swaps, QueueReady, WorkerRests,
                                  speaker, PushInv, PushTypes
  <2> QED
      BY <1>1, <2>1, <2>2, <2>3 DEF PushInv, Promised
<1>3. CASE k \in Button /\ PushesOne(k)
  <2> DEFINE one == [key |-> k, station |-> slots[k]]
  <2>1. /\ one \in JobRecord /\ one.key = k /\ one.station = slots[k] /\ Len(queue) < Depth
        /\ queue' = Append(queue, one) /\ agreed' = agreed \cup {k} /\ UNCHANGED slots
      BY <1>1, <1>3 DEF PushesOne, JobRecord
  <2> HIDE DEF one
  <2>2. <<one>> \in Seq(JobRecord) /\ Len(<<one>>) = 1 /\ queue' = queue \o <<one>>
      BY <1>1, <2>1
  <2>3. queue' \in Seq(JobRecord) /\ Len(queue') <= Depth
    <3>1. /\ queue \o <<one>> \in Seq(JobRecord)
          /\ Len(queue \o <<one>>) = Len(queue) + Len(<<one>>)
        BY <1>1, <2>2, ConcatProperties
    <3> QED
        BY <1>1, <2>1, <2>2, <3>1, PushAssumption
  <2>4. PushTypes'
    <3>1. exists' = TRUE /\ worker' = (IF exists THEN worker ELSE "idle") /\ WorkerRests
        BY <1>3 DEF PushesOne, QueueReady, PushInv, PushTypes
    <3>2. agreed' \subseteq Button /\ UNCHANGED slots
        BY <1>1, <1>3, <2>1
    <3>3. job' = NoJob <=> worker' \in {"none", "idle"}
        BY <3>1 DEF PushInv, PushTypes, WorkerRests
    <3> QED
        BY <2>3, <3>1, <3>2, <3>3 DEF PushInv, PushTypes, WorkerRests, speaker
  <2>5. ASSUME NEW b \in agreed'
        PROVE  LastCarries(queue', b, slots'[b]) /\ (Unqueued(queue', b) => GetsIt(b)')
    <3>1. \A i \in 1..Len(<<one>>) : <<one>>[i] = one
        BY <2>2
    <3>2. b = k => ~Unqueued(<<one>>, b)
        BY <2>1, <2>2, <3>1 DEF Unqueued
    <3>3. LastCarries(queue', b, slots[b]) /\ (Unqueued(queue', b) => Unqueued(queue, b) /\ b # k)
      <4>1. \A i \in 1..Len(<<one>>) : <<one>>[i].key = b => <<one>>[i].station = slots[b]
          BY <2>1, <3>1
      <4>2. ~Unqueued(<<one>>, b) \/ LastCarries(queue, b, slots[b])
          BY <1>1, <2>1, <2>5, <3>2
      <4>3. /\ LastCarries(queue \o <<one>>, b, slots[b])
            /\ Unqueued(queue \o <<one>>, b) => Unqueued(queue, b) /\ Unqueued(<<one>>, b)
          BY <1>1, <2>2, <4>1, <4>2, Enqueued
      <4> QED
          BY <2>2, <3>2, <4>3
    <3>4. GetsIt(b) => GetsIt(b)'
        BY <1>3 DEF GetsIt, Switched, PushesOne, QueueReady, WorkerRests, speaker, PushInv,
                   PushTypes
    <3> QED
        BY <1>1, <2>1, <2>5, <3>3, <3>4
  <2> QED
      BY <2>4, <2>5 DEF PushInv, Promised
<1>4. CASE PushesAll
  <2>1. PICK wanted \in {Differing, Filled} :
          /\ queue' = queue \o Jobs(wanted, slots)
          /\ agreed' = agreed \cup {b \in Filled \ wanted : ~Waits(b)} \cup KeysOf(Jobs(wanted, slots))
      BY <1>4 DEF PushesAll
  <2>2. wanted \in SUBSET Button /\ (\A b \in wanted : slots[b] \in Station) /\ UNCHANGED slots
      BY <1>1, <1>4 DEF PushesAll, Differing, Filled
  <2>3. KeysOf(Jobs(wanted, slots)) \subseteq Button
      BY <1>1, <2>2, JobsTypes
  <2>4. ASSUME NEW b \in agreed' \ KeysOf(Jobs(wanted, slots))
        PROVE  LastCarries(queue, b, slots[b]) /\ (Unqueued(queue, b) => GetsIt(b))
    <3>1. b \in agreed \/ (b \in Filled \ wanted /\ ~Waits(b))
        BY <2>1, <2>2, <2>4
    <3>2. ASSUME b \in Filled \ wanted, ~Waits(b)
          PROVE  LastCarries(queue, b, slots[b]) /\ GetsIt(b)
      <4>1. keys[b] = slots[b]
          BY <3>2 DEF Differing
      <4> QED
          BY <3>2, <4>1 DEF Waits, LastCarries, GetsIt
    <3> QED
        BY <1>1, <3>1, <3>2
  <2>5. agreed' \subseteq Button
      BY <1>1, <2>1, <2>3 DEF Filled
  <2> QED
      BY <1>1, <1>4, <2>1, <2>2, <2>4, <2>5, BulkPromised DEF PushesAll, PushInv
<1>5. CASE Restores
  <2>1. PICK snapshot \in [Button -> Station] :
          /\ slots' = snapshot /\ queue' = queue \o Jobs(Button, snapshot)
          /\ agreed' = KeysOf(Jobs(Button, snapshot)) /\ QueueReady /\ WorkerRests
      BY <1>5 DEF Restores
  <2>2. /\ snapshot \in [Button -> Station \cup {NoStation}]
        /\ \A b \in Button : snapshot[b] \in Station
      BY <2>1
  <2>3. agreed' \subseteq Button
      BY <1>1, <2>1, <2>2, JobsTypes
  <2> QED
      BY <1>1, <2>1, <2>2, <2>3, BulkPromised DEF PushInv
<1> QED
    BY <1>2, <1>3, <1>4, <1>5

\* The worker.
LEMMA PushWorker == ASSUME PushInv, WorkerStep PROVE PushInv'
<1> USE NoJobIsNone DEF Handlers, Aborts, speaker
<1>0. /\ PushTypes /\ Len(queue) \in Nat
      /\ \A b \in agreed : LastCarries(queue, b, slots[b]) /\ (Unqueued(queue, b) => GetsIt(b))
    BY LenProperties DEF PushTypes, PushInv, Promised
<1>1. CASE TakesJob
  <2>1. /\ worker = "idle" /\ queue # <<>> /\ job = NoJob /\ job' = Head(queue) /\ queue' = Tail(queue)
        /\ worker' = "taken" /\ UNCHANGED <<slots, exists, keys, asked, tuned, sounds, slow, agreed>>
      BY <1>0, <1>1 DEF TakesJob, PushTypes
  <2>2. /\ Head(queue) \in JobRecord /\ Tail(queue) \in Seq(JobRecord)
        /\ Len(Tail(queue)) = Len(queue) - 1
      BY <1>0, <2>1, HeadTailProperties DEF PushTypes
  <2>3. PushTypes'
    <3>1. Len(queue') <= Depth /\ queue' \in Seq(JobRecord) /\ job' \in JobRecord /\ exists
        BY <1>0, <2>1, <2>2, PushAssumption DEF PushTypes
    <3> QED
        BY <1>0, <2>1, <3>1 DEF PushTypes
  <2>4. ASSUME NEW b \in agreed
        PROVE  LastCarries(queue', b, slots[b]) /\ (Unqueued(queue', b) => GetsIt(b)')
    <3>1. /\ LastCarries(Tail(queue), b, slots[b])
          /\ Unqueued(Tail(queue), b) =>
               IF Head(queue).key = b THEN Head(queue).station = slots[b] ELSE Unqueued(queue, b)
        BY <1>0, <2>1, Dequeued DEF PushTypes
    <3>2. Unqueued(Tail(queue), b) => GetsIt(b)'
      <4>1. CASE Head(queue).key = b
          BY <2>1, <2>2, <3>1, <4>1 DEF GetsIt
      <4>2. CASE Head(queue).key # b
        <5>1. Unqueued(Tail(queue), b) => slow \/ keys[b] = slots[b]
            BY <1>0, <2>1, <3>1, <4>2 DEF GetsIt
        <5> QED
            BY <2>1, <4>2, <5>1 DEF GetsIt
      <4> QED
          BY <4>1, <4>2
    <3> QED
        BY <2>1, <3>1, <3>2
  <2> QED
      BY <2>1, <2>3, <2>4 DEF PushInv, Promised
<1>2. CASE Selects \/ SeesPlay
  <2>1. PushTypes'
    <3>1. CASE Selects
        BY <1>0, <3>1 DEF PushTypes, Selects, JobRecord
    <3>2. CASE SeesPlay
        BY <1>0, <3>2 DEF PushTypes, SeesPlay
    <3> QED
        BY <1>2, <3>1, <3>2
  <2>2. ASSUME NEW b \in agreed, GetsIt(b) PROVE GetsIt(b)'
    <3>1. CASE Selects
        BY <2>2, <3>1 DEF GetsIt, Selects
    <3>2. CASE SeesPlay
      <4>1. job \in JobRecord /\ job.station # NoStation /\ worker = "selected"
            /\ (slow \/ asked = NoStation)
          BY <1>0, <3>2, PushAssumption DEF PushTypes, JobRecord, SeesPlay
      <4> QED
          BY <2>2, <3>2, <4>1 DEF GetsIt, Switched, SeesPlay
    <3> QED
        BY <1>2, <3>1, <3>2
  <2> QED
      BY <1>0, <1>2, <2>1, <2>2 DEF PushInv, Promised, Selects, SeesPlay
<1>3. CASE SelectFails \/ SeesNone
  <2>1. PushTypes'
      BY <1>0, <1>3 DEF PushTypes, SelectFails, SeesNone
  <2>2. ASSUME NEW b \in agreed', GetsIt(b) PROVE GetsIt(b)'
      BY <1>3, <2>2 DEF GetsIt, SelectFails, SeesNone
  <2> QED
      BY <1>0, <1>3, <2>1, <2>2 DEF PushInv, Promised, SelectFails, SeesNone
<1>4. CASE LongPress
  <2>1. job # NoJob /\ job \in JobRecord /\ job.key \in Button /\ worker = "playing"
      BY <1>0, <1>4 DEF LongPress, PushTypes, JobRecord
  <2>2. /\ job' = NoJob /\ worker' = "idle" /\ UNCHANGED <<slots, queue, exists, asked, tuned, slow>>
        /\ agreed' \subseteq agreed
        /\ \A b \in Button : b # job.key => keys'[b] = keys[b]
        /\ job.key \in agreed' => keys'[job.key] = tuned
        /\ keys' = keys \/ keys' = [keys EXCEPT ![job.key] = tuned]
      BY <1>0, <1>4, <2>1 DEF LongPress, PushTypes
  <2>3. PushTypes'
    <3>1. keys' \in [Button -> Station \cup {NoStation}]
        BY <1>0, <2>2 DEF PushTypes
    <3>2. UNCHANGED sounds
        BY <1>4 DEF LongPress
    <3> QED
        BY <1>0, <2>1, <2>2, <3>1, <3>2 DEF PushTypes
  <2>4. ASSUME NEW b \in agreed', GetsIt(b) PROVE GetsIt(b)'
      BY <1>0, <2>1, <2>2, <2>4 DEF GetsIt, Switched, PushTypes
  <2> QED
      BY <1>0, <2>2, <2>3, <2>4 DEF PushInv, Promised
<1> QED
    BY <1>1, <1>2, <1>3, <1>4 DEF WorkerStep

\* The speaker, its user, and power.
LEMMA PushWorld ==
  ASSUME PushInv, NEW k,
         \/ k \in Button /\ UserRecords(k)
         \/ SpeakerSwitches \/ Plays \/ UserTunes \/ PushPowerFails \/ UNCHANGED push
  PROVE  PushInv'
<1> USE DEF speaker
<1>0. /\ PushTypes
      /\ \A b \in agreed : LastCarries(queue, b, slots[b]) /\ (Unqueued(queue, b) => GetsIt(b))
    BY DEF PushInv, Promised
<1>1. CASE PushPowerFails
  <2>1. <<>> \in Seq(JobRecord) /\ Len(<<>>) <= Depth
      BY EmptySeq, PushAssumption
  <2> QED
      BY <1>0, <1>1, <2>1 DEF PushPowerFails, PushInv, PushTypes, Promised
<1>2. CASE SpeakerSwitches \/ Plays \/ UserTunes \/ (k \in Button /\ UserRecords(k)) \/ UNCHANGED push
  <2>1. PushTypes'
      BY <1>0, <1>2 DEF PushTypes, SpeakerSwitches, Plays, UserTunes, UserRecords, push
  <2>2. agreed' \subseteq agreed /\ UNCHANGED <<slots, queue>>
      BY <1>2 DEF SpeakerSwitches, Plays, UserTunes, UserRecords, push
  <2>3. ASSUME NEW b \in agreed', GetsIt(b) PROVE GetsIt(b)'
      BY <1>0, <1>2, <2>3 DEF GetsIt, Switched, SpeakerSwitches, Plays, UserTunes, UserRecords, push,
                                PushTypes
  <2> QED
      BY <1>0, <2>1, <2>2, <2>3 DEF PushInv, Promised
<1> QED
    BY <1>1, <1>2

\* The first boot.
LEMMA PushStart == PushInit => PushInv
<1>1. <<>> \in Seq(JobRecord) /\ Len(<<>>) <= Depth
    BY EmptySeq, PushAssumption
<1> QED
    BY <1>1, PushAssumption DEF PushInit, PushInv, PushTypes, Promised

\* Every step.
LEMMA PushStep == PushInv /\ [PushNext]_push => PushInv'
<1> SUFFICES ASSUME PushInv, [PushNext]_push PROVE PushInv'
    OBVIOUS
<1>1. ASSUME NEW k \in Button, Edits(k) \/ PushesOne(k) PROVE PushInv'
    BY <1>1, PushHandlers
<1>2. ASSUME NEW k \in Button, UserRecords(k) PROVE PushInv'
    BY <1>2, PushWorld
<1>3. ASSUME NEW k \in Button, NEW j \in Button, Swaps(j, k) PROVE PushInv'
    BY <1>3, PushHandlers
<1>4. CASE PushesAll \/ Restores
    BY <1>4, PushHandlers
<1>5. CASE WorkerStep
    BY <1>5, PushWorker
<1>6. CASE SpeakerSwitches \/ Plays \/ UserTunes \/ PushPowerFails \/ UNCHANGED push
    BY <1>6, PushWorld
<1> QED
    BY <1>1, <1>2, <1>3, <1>4, <1>5, <1>6 DEF PushNext

\* For any keys, stations and depth of the queue: once it is empty, every key that the user
\* was promised holds what the store holds, if the speaker leaves its old station before the
\* wait looks at it (api_endpoints.cpp:1537-1557, 1571-1690 and 3230-3320).
THEOREM DeliveredTheorem == PushSpec => []Delivered
<1>1. PushInv => Delivered
  <2> SUFFICES ASSUME PushInv, ~slow, queue = <<>>, job = NoJob, NEW k \in agreed
               PROVE  keys[k] = slots[k]
      BY DEF Delivered, DeliveredAlways
  <2>1. Unqueued(queue, k)
      BY DEF Unqueued
  <2> QED
      BY <2>1 DEF PushInv, Promised, GetsIt
<1> QED
    BY <1>1, PushStart, PushStep, PTL DEF PushSpec

\* Every variable of the queue keeps its type (PushTypeOK).
THEOREM PushTypesTheorem == PushSpec => []PushTypeOK
<1>1. PushInv => PushTypeOK
  <2> SUFFICES ASSUME PushTypes PROVE PushTypeOK
      BY DEF PushInv
  <2>1. \A i \in 1..Len(queue) : queue[i] \in JobRecord
      BY ElementOfSeq DEF PushTypes
  <2> QED
      BY <2>1 DEF PushTypes, PushTypeOK, JobRecord
<1> QED
    BY <1>1, PushStart, PushStep, PTL DEF PushSpec

-----------------------------------------------------------------------------
(* The list of speakers and their addresses.                                *)

DirectorySpec == DirectoryInit /\ [][DirectoryNext]_directory

Status == {"UNKNOWN", "MIGRATED", "OFFLINE"}
Entries8090 == [unit : Unit, ip : Place, status : Status, streak : 0..Debounce]
AskedStatuses == [unit : Unit, status : {"MIGRATED", "OFFLINE"}]
Searches == [at : {"idle", "known", "ssdp", "merge", "decide", "scan"}, todo : SUBSET Place,
             work : Seq(AskedStatuses), forced : BOOLEAN, again : BOOLEAN]

NoTwice(list) == \A i, j \in Positions(list) : list[i].unit = list[j].unit => i = j

DirTypes ==
  /\ lease \in [Unit -> Place] /\ awake \subseteq Unit /\ moves \in 0..MaxMoves
  /\ \A u, v \in Unit : lease[u] = lease[v] => u = v
  /\ known \in Seq(Entries8090) /\ NoTwice(known)
  /\ search \in Searches /\ adding \in {NoAdd} \cup [place : Place, unit : Unit]
  /\ quiet \in BOOLEAN

\* A list with a speaker at its address.
Has(list, u, a) == \E i \in Positions(list) : list[i].unit = u /\ list[i].ip = a
Here(u) == Has(known, u, lease[u])

\* During a search that nothing disturbs a speaker that answers is listed at its address, or
\* its address will be asked, or nobody is listed there yet and the scan will ask it.
ToAsk(u) == search.at \in {"known", "scan"} /\ lease[u] \in search.todo
ToScan(u) ==
  /\ search.at \in {"known", "ssdp", "merge", "decide"} /\ ~search.again
  /\ lease[u] \notin KnownPlaces
Covered(u) == search.at = "idle" \/ Here(u) \/ ToAsk(u) \/ ToScan(u)

DirectoryInv ==
  /\ DirTypes
  /\ search.again => search.at = "merge"
  /\ quiet /\ adding # NoAdd => lease[adding.unit] = adding.place
  /\ quiet => \A u \in awake : Covered(u)

\* What a merge makes of a list.
LEMMA MergedList ==
  ASSUME NEW list \in Seq(Entries8090), NoTwice(list), NEW u \in Unit, NEW a \in Place
  PROVE  LET m == Merged(list, u, a)
         IN  /\ m \in Seq(Entries8090) /\ NoTwice(m) /\ Has(m, u, a)
             /\ \A i \in Positions(list) : i \in Positions(m) /\ (list[i].unit # u => m[i] = list[i])
             /\ \A i \in Positions(m) : m[i].unit # u => i \in Positions(list) /\ m[i] = list[i]
             /\ \A i \in Positions(m) : m[i].unit = u => m[i].ip = a
<1> USE DirectoryAssumption DEF Positions
<1>0. /\ Len(list) \in Nat /\ list \in [1..Len(list) -> Entries8090] /\ DOMAIN list = 1..Len(list)
    BY LenProperties
<1>1. CASE Listing(list, u) # {}
  <2> DEFINE m == [i \in 1..Len(list) |-> IF list[i].unit = u THEN [list[i] EXCEPT !.ip = a] ELSE list[i]]
  <2>1. Merged(list, u, a) = m
      BY <1>1 DEF Merged
  <2>2. \A i \in 1..Len(list) :
          /\ m[i] \in Entries8090 /\ m[i].unit = list[i].unit
          /\ m[i].ip = IF list[i].unit = u THEN a ELSE list[i].ip
          /\ list[i].unit # u => m[i] = list[i]
      BY <1>0 DEF Entries8090
  <2>3. m \in Seq(Entries8090) /\ Len(m) = Len(list)
    <3>1. m \in [1..Len(list) -> Entries8090]
        BY <2>2
    <3> HIDE DEF m
    <3> QED
        BY <1>0, <3>1
  <2> HIDE DEF m
  <2>4. NoTwice(m)
      BY <2>2, <2>3 DEF NoTwice
  <2>5. Has(m, u, a)
      BY <1>1, <2>2, <2>3 DEF Has, Listing
  <2> QED
      BY <2>1, <2>2, <2>3, <2>4, <2>5
<1>2. CASE Listing(list, u) = {}
  <2> DEFINE e == Entry8090(u, a)
             m == Append(list, e)
  <2>1. Merged(list, u, a) = m
      BY <1>2 DEF Merged
  <2>2. e \in Entries8090 /\ e.unit = u /\ e.ip = a
      BY DEF Entry8090, Entries8090, Status
  <2> HIDE DEF e
  <2>3. /\ m \in Seq(Entries8090) /\ Len(m) = Len(list) + 1
        /\ \A i \in 1..Len(list) : m[i] = list[i] /\ list[i].unit # u
        /\ m[Len(list) + 1] = e
      BY <1>0, <1>2, <2>2 DEF Listing
  <2> HIDE DEF m
  <2>4. \A i \in 1..Len(m) : i = Len(list) + 1 \/ i \in 1..Len(list)
      BY <1>0, <2>3
  <2>5. NoTwice(m)
      BY <2>2, <2>3, <2>4 DEF NoTwice
  <2>6. Has(m, u, a)
      BY <1>0, <2>2, <2>3 DEF Has
  <2> QED
      BY <1>0, <2>1, <2>2, <2>3, <2>4, <2>5, <2>6
<1> QED
    BY <1>1, <1>2

\* A speaker merged at its own address: nobody who was listed at his is lost, and the list
\* names no other address than its own.
LEMMA MergedHere ==
  ASSUME DirTypes, NEW u \in Unit, NEW list, list = Merged(known, u, lease[u])
  PROVE  /\ list \in Seq(Entries8090) /\ NoTwice(list)
         /\ Has(list, u, lease[u])
         /\ \A v \in Unit : Here(v) => Has(list, v, lease[v])
         /\ \A i \in Positions(list) : list[i].ip = lease[u] \/ list[i].ip \in KnownPlaces
<1>1. lease[u] \in Place
    BY DEF DirTypes
<1>2. /\ list \in Seq(Entries8090) /\ NoTwice(list) /\ Has(list, u, lease[u])
      /\ \A i \in Positions(known) : i \in Positions(list) /\ (known[i].unit # u => list[i] = known[i])
      /\ \A i \in Positions(list) : list[i].unit # u => i \in Positions(known) /\ list[i] = known[i]
      /\ \A i \in Positions(list) : list[i].unit = u => list[i].ip = lease[u]
    BY <1>1, MergedList DEF DirTypes
<1>3. ASSUME NEW v \in Unit, Here(v) PROVE Has(list, v, lease[v])
  <2>1. CASE v = u
      BY <1>2, <2>1
  <2>2. CASE v # u
      BY <1>2, <1>3, <2>2 DEF Here, Has
  <2> QED
      BY <2>1, <2>2
<1>4. \A i \in Positions(list) : list[i].ip = lease[u] \/ list[i].ip \in KnownPlaces
    BY <1>2 DEF KnownPlaces
<1> QED
    BY <1>2, <1>3, <1>4

\* A probe finds who answers at the address, and there is one at most.
LEMMA ProbeFinds ==
  ASSUME DirTypes, NEW a \in Place, Asks(a), UNCHANGED <<lease, awake>>
  PROVE  /\ known' \in Seq(Entries8090) /\ NoTwice(known')
         /\ \A v \in awake : (Here(v) \/ lease[v] = a => Here(v)')
                             /\ (lease[v] \in KnownPlaces' => lease[v] \in KnownPlaces \/ Here(v)')
<1>1. CASE At8090(a) = {} /\ UNCHANGED known
    BY <1>1 DEF DirTypes, At8090, Here, KnownPlaces
<1>2. CASE \E u \in At8090(a) : known' = Merged(known, u, a)
  <2>1. PICK u \in awake : lease[u] = a /\ known' = Merged(known, u, lease[u])
      BY <1>2 DEF At8090
  <2>2. u \in Unit /\ awake \subseteq Unit
      BY <2>1 DEF DirTypes
  <2>3. /\ known' \in Seq(Entries8090) /\ NoTwice(known') /\ Has(known', u, lease[u])
        /\ \A v \in Unit : Here(v) => Has(known', v, lease[v])
        /\ \A i \in Positions(known') : known'[i].ip = lease[u] \/ known'[i].ip \in KnownPlaces
      BY <2>1, <2>2, MergedHere
  <2>4. ASSUME NEW v \in awake PROVE Here(v) \/ lease[v] = a => Here(v)'
    <3>1. lease[v] = a => v = u
        BY <2>1, <2>2 DEF DirTypes
    <3> QED
        BY <2>2, <2>3, <3>1 DEF Here
  <2>5. ASSUME NEW v \in awake, lease[v] \in KnownPlaces' PROVE lease[v] \in KnownPlaces \/ Here(v)'
    <3>1. lease[v] = lease[u] \/ lease[v] \in KnownPlaces
        BY <2>3, <2>5 DEF KnownPlaces
    <3> QED
        BY <2>1, <2>4, <3>1
  <2> QED
      BY <2>3, <2>4, <2>5
<1> QED
    BY <1>1, <1>2 DEF Asks

\* A probe of the search's.
LEMMA ProbeStep ==
  ASSUME DirectoryInv, NEW a \in Place, ProbesKnown(a) \/ ProbesResponder(a) \/ ScansPlace(a)
  PROVE  DirectoryInv'
<1>1. /\ DirTypes /\ search \in Searches /\ Asks(a) /\ search.at \in {"known", "ssdp", "scan"}
      /\ search' = [search EXCEPT !.todo = search.todo \ {a}]
      /\ UNCHANGED <<lease, awake, moves, adding, quiet>>
    BY DEF DirectoryInv, DirTypes, ProbesKnown, ProbesResponder, ScansPlace, World
<1>2. /\ search' \in Searches /\ search'.at = search.at /\ search'.again = search.again
      /\ search'.todo = search.todo \ {a}
    BY <1>1 DEF Searches
<1>3. /\ known' \in Seq(Entries8090) /\ NoTwice(known')
      /\ \A v \in awake : (Here(v) \/ lease[v] = a => Here(v)')
                          /\ (lease[v] \in KnownPlaces' => lease[v] \in KnownPlaces \/ Here(v)')
    BY <1>1, ProbeFinds
<1>4. DirTypes'
    BY <1>1, <1>2, <1>3 DEF DirTypes
<1>5. ASSUME quiet', NEW u \in awake PROVE Covered(u)'
    BY <1>1, <1>2, <1>3, <1>5 DEF DirectoryInv, Covered, ToAsk, ToScan
<1> QED
    BY <1>1, <1>2, <1>4, <1>5 DEF DirectoryInv

\* The search begins, or goes on to its next part.
LEMMA PartStep ==
  ASSUME DirectoryInv,
         (\E forced \in BOOLEAN : Discovers(forced)) \/ KnownProbed \/ Skips \/ Scans
  PROVE  DirectoryInv'
<1>0. /\ DirTypes /\ search \in Searches /\ KnownPlaces \subseteq Place
      /\ UNCHANGED <<lease, awake, moves, known, adding>>
  <2>1. \A i \in Positions(known) : known[i].ip \in Place
    <3>1. \A i \in Positions(known) : known[i] \in Entries8090
        BY ElementOfSeq DEF DirectoryInv, DirTypes, Positions
    <3> QED
        BY <3>1 DEF Entries8090
  <2>2. DirTypes /\ search \in Searches
      BY DEF DirectoryInv, DirTypes
  <2>3. KnownPlaces \subseteq Place
      BY <2>1 DEF KnownPlaces
  <2>4. UNCHANGED <<lease, awake, moves, known, adding>>
      BY DEF Discovers, KnownProbed, Skips, Scans, World
  <2> QED
      BY <2>2, <2>3, <2>4
<1>a. NoSearch \in Searches /\ NoSearch.at = "idle" /\ NoSearch.again = FALSE
    BY EmptySeq DEF NoSearch, Searches
<1>b. \A u \in Unit : lease[u] \in Place
    BY <1>0 DEF DirTypes
<1>1. ASSUME NEW forced \in BOOLEAN, Discovers(forced) PROVE DirectoryInv'
  <2>1. /\ search' = [NoSearch EXCEPT !.at = "known", !.todo = KnownPlaces, !.forced = forced]
        /\ quiet' = (adding = NoAdd)
      BY <1>1 DEF Discovers
  <2>2. /\ search' \in Searches /\ search'.at = "known" /\ search'.todo = KnownPlaces
        /\ search'.again = FALSE
      BY <1>0, <1>a, <2>1 DEF Searches
  <2>3. quiet' \in BOOLEAN /\ (quiet' => adding' = NoAdd)
      BY <1>0, <2>1
  <2>4. DirTypes'
      BY <1>0, <2>2, <2>3 DEF DirTypes
  <2>5. \A u \in awake : Covered(u)'
      BY <1>0, <2>2 DEF Covered, ToAsk, ToScan, KnownPlaces
  <2> QED
      BY <1>0, <2>2, <2>3, <2>4, <2>5 DEF DirectoryInv
<1>2. CASE KnownProbed
  <2>1. PICK answered \in SUBSET awake :
          search' = [search EXCEPT !.at = "ssdp", !.todo = {lease[u] : u \in answered}]
      BY <1>2 DEF KnownProbed
  <2>2. search.at = "known" /\ search.todo = {} /\ UNCHANGED quiet
      BY <1>2 DEF KnownProbed
  <2>3. {lease[u] : u \in answered} \subseteq Place
      BY <1>0, <1>b DEF DirTypes
  <2>4. search' \in Searches /\ search'.at = "ssdp" /\ search'.again = search.again
      BY <1>0, <2>1, <2>3 DEF Searches
  <2>5. DirTypes'
      BY <1>0, <2>2, <2>4 DEF DirTypes
  <2>6. ASSUME quiet, NEW u \in awake PROVE Covered(u)'
      BY <1>0, <2>2, <2>4, <2>6 DEF DirectoryInv, Covered, ToAsk, ToScan, Here, KnownPlaces
  <2> QED
      BY <1>0, <2>2, <2>4, <2>5, <2>6 DEF DirectoryInv
<1>3. CASE Skips
  <2>1. search' = NoSearch /\ UNCHANGED quiet
      BY <1>3 DEF Skips
  <2>2. DirTypes'
      BY <1>0, <1>a, <2>1 DEF DirTypes
  <2> QED
      BY <1>0, <1>a, <2>1, <2>2 DEF DirectoryInv, Covered
<1>4. CASE Scans
  <2>1. /\ search.at = "decide" /\ UNCHANGED quiet
        /\ search' = [search EXCEPT !.at = "scan", !.todo = Place \ KnownPlaces]
      BY <1>4 DEF Scans
  <2>2. /\ search' \in Searches /\ search'.at = "scan" /\ search'.todo = Place \ KnownPlaces
        /\ search'.again = search.again
      BY <1>0, <2>1 DEF Searches
  <2>3. DirTypes'
      BY <1>0, <2>1, <2>2 DEF DirTypes
  <2>4. ASSUME quiet, NEW u \in awake PROVE Covered(u)'
    <3>1. Here(u) \/ lease[u] \notin KnownPlaces
        BY <2>1, <2>4 DEF DirectoryInv, Covered, ToAsk, ToScan
    <3>2. lease[u] \in Place
        BY <1>0, <1>b DEF DirTypes
    <3> QED
        BY <1>0, <2>2, <3>1, <3>2 DEF Covered, ToAsk, Here
  <2> QED
      BY <1>0, <2>1, <2>2, <2>3, <2>4 DEF DirectoryInv
<1> QED
    BY <1>1, <1>2, <1>3, <1>4

\* The statuses are asked without the lock.
LEMMA RefreshStep ==
  ASSUME DirectoryInv, Refreshes
  PROVE  DirectoryInv'
<1>0. /\ DirTypes /\ search \in Searches /\ search.at \in {"ssdp", "scan"} /\ search.todo = {}
      /\ UNCHANGED <<lease, awake, moves, known, adding, quiet>>
    BY DEF DirectoryInv, DirTypes, Refreshes, World
<1> DEFINE again == (search.at = "scan")
<1>1. PICK work \in [Positions(known) -> {"MIGRATED", "OFFLINE"}] :
        search' = [search EXCEPT
          !.at = "merge", !.again = again,
          !.work = [i \in Positions(known) |-> [unit |-> known[i].unit, status |-> work[i]]]]
    BY DEF Refreshes
<1> DEFINE list == [i \in Positions(known) |-> [unit |-> known[i].unit, status |-> work[i]]]
<1>2. list \in Seq(AskedStatuses)
  <2>1. \A i \in 1..Len(known) : known[i].unit \in Unit
    <3>1. \A i \in 1..Len(known) : known[i] \in Entries8090
        BY <1>0, ElementOfSeq DEF DirTypes
    <3> QED
        BY <3>1 DEF Entries8090
  <2>2. list \in [1..Len(known) -> AskedStatuses]
      BY <2>1 DEF AskedStatuses, Positions
  <2>3. Len(known) \in Nat
      BY <1>0, LenProperties DEF DirTypes
  <2> HIDE DEF list
  <2> QED
      BY <2>2, <2>3
<1> HIDE DEF list
<1>3. again \in BOOLEAN /\ (again <=> search.at = "scan")
    OBVIOUS
<1> HIDE DEF again
<1>4. search' = [search EXCEPT !.at = "merge", !.again = again, !.work = list]
    BY <1>1 DEF list
<1>5. search' \in Searches /\ search'.at = "merge" /\ search'.again = again
    BY <1>0, <1>2, <1>3, <1>4 DEF Searches
<1>6. DirTypes'
    BY <1>0, <1>5 DEF DirTypes
<1>7. ASSUME quiet, NEW u \in awake PROVE Covered(u)'
    BY <1>0, <1>3, <1>5, <1>7 DEF DirectoryInv, Covered, ToAsk, ToScan, Here, KnownPlaces
<1> QED
    BY <1>0, <1>5, <1>6, <1>7 DEF DirectoryInv

\* What a status makes of an entry.
LEMMA ShownEntry ==
  ASSUME NEW e \in Entries8090, NEW status \in Status
  PROVE  Shown(e, status) \in Entries8090 /\ Shown(e, status).unit = e.unit
         /\ Shown(e, status).ip = e.ip
<1> USE DirectoryAssumption
<1> DEFINE streak == IF status = "MIGRATED" THEN 0 ELSE IF e.streak < Debounce THEN e.streak + 1
                                                  ELSE e.streak
           verdict == IF streak = 0 \/ streak >= Debounce THEN status ELSE e.status
<1>1. Shown(e, status) = [e EXCEPT !.streak = streak, !.status = verdict]
    BY DEF Shown, Entries8090
<1>2. streak \in 0..Debounce /\ verdict \in Status
    BY DEF Entries8090
<1> HIDE DEF streak, verdict
<1> QED
    BY <1>1, <1>2 DEF Entries8090

\* A list whose entries changed in nothing but their statuses.
SameWhere(list) ==
  /\ list \in Seq(Entries8090) /\ Len(list) = Len(known)
  /\ \A i \in Positions(known) : list[i].unit = known[i].unit /\ list[i].ip = known[i].ip

\* It lists the same speakers at the same addresses.
LEMMA SameList ==
  ASSUME DirTypes, NEW list, SameWhere(list), known' = list, UNCHANGED lease
  PROVE  NoTwice(known') /\ KnownPlaces' = KnownPlaces /\ \A u \in Unit : Here(u)' <=> Here(u)
<1>1. Positions(list) = Positions(known)
    BY DEF SameWhere, Positions
<1>2. NoTwice(known')
    BY <1>1 DEF DirTypes, NoTwice, SameWhere
<1>3. KnownPlaces' = KnownPlaces
    BY <1>1 DEF KnownPlaces, SameWhere
<1> QED
    BY <1>1, <1>2, <1>3 DEF Here, Has, SameWhere

\* The statuses are merged into the list as it is by now.
LEMMA MergeStep ==
  ASSUME DirectoryInv, MergesStatuses
  PROVE  /\ DirectoryInv'
         /\ quiet' /\ search.again => \A u \in awake : Here(u)'
<1>0. /\ DirTypes /\ search \in Searches /\ search.at = "merge"
      /\ UNCHANGED <<lease, awake, moves, adding, quiet>>
      /\ search' = IF search.again THEN NoSearch ELSE [search EXCEPT !.at = "decide", !.work = <<>>]
    BY DEF DirectoryInv, DirTypes, MergesStatuses, World
<1> DEFINE probed(i) == {j \in Positions(search.work) : search.work[j].unit = known[i].unit}
           entry(i) == IF probed(i) = {} THEN known[i]
                       ELSE Shown(known[i], search.work[CHOOSE j \in probed(i) : TRUE].status)
           list == [i \in Positions(known) |-> entry(i)]
<1>1. known' = list
    BY DEF MergesStatuses
<1>2. ASSUME NEW i \in Positions(known)
      PROVE  entry(i) \in Entries8090 /\ entry(i).unit = known[i].unit /\ entry(i).ip = known[i].ip
  <2>1. known[i] \in Entries8090
      BY <1>0, ElementOfSeq DEF DirTypes, Positions
  <2>2. CASE probed(i) = {}
      BY <2>1, <2>2
  <2>3. CASE probed(i) # {}
    <3>1. PICK j \in Positions(search.work) : (CHOOSE k \in probed(i) : TRUE) = j
        BY <2>3
    <3>2. search.work[j] \in AskedStatuses
        BY <1>0, <3>1, ElementOfSeq DEF Searches, Positions
    <3>3. search.work[j].status \in Status
        BY <3>2 DEF AskedStatuses, Status
    <3>4. entry(i) = Shown(known[i], search.work[j].status)
        BY <2>3, <3>1
    <3> QED
        BY <2>1, <3>3, <3>4, ShownEntry
  <2> QED
      BY <2>2, <2>3
<1> HIDE DEF entry
<1>3. SameWhere(list)
  <2>1. list \in [1..Len(known) -> Entries8090] /\ Len(known) \in Nat
      BY <1>0, <1>2, LenProperties DEF DirTypes, Positions
  <2>2. \A i \in Positions(known) : list[i] = entry(i)
      OBVIOUS
  <2> HIDE DEF list
  <2>3. list \in Seq(Entries8090) /\ Len(list) = Len(known)
      BY <2>1
  <2> QED
      BY <1>2, <2>2, <2>3 DEF SameWhere
<1> HIDE DEF list
<1>4. known' \in Seq(Entries8090) /\ NoTwice(known') /\ KnownPlaces' = KnownPlaces
      /\ \A u \in Unit : Here(u)' <=> Here(u)
    BY <1>0, <1>1, <1>3, SameList DEF SameWhere
<1>5. /\ search' \in Searches /\ search'.again = FALSE
      /\ search'.at = IF search.again THEN "idle" ELSE "decide"
  <2>1. NoSearch \in Searches /\ NoSearch.at = "idle" /\ NoSearch.again = FALSE
      BY EmptySeq DEF NoSearch, Searches
  <2>2. ASSUME ~search.again
        PROVE  LET s == [search EXCEPT !.at = "decide", !.work = <<>>]
               IN  s \in Searches /\ s.at = "decide" /\ s.again = FALSE
      BY <1>0, <2>2, EmptySeq DEF Searches
  <2> QED
      BY <1>0, <2>1, <2>2
<1>6. DirTypes'
    BY <1>0, <1>4, <1>5 DEF DirTypes
<1>7. awake \subseteq Unit
    BY <1>0 DEF DirTypes
<1>8. ASSUME quiet, NEW u \in awake PROVE Covered(u)' /\ (search.again => Here(u)')
    BY <1>0, <1>4, <1>5, <1>7, <1>8 DEF DirectoryInv, Covered, ToAsk, ToScan
<1> QED
    BY <1>0, <1>5, <1>6, <1>8 DEF DirectoryInv

\* The user's speaker joins the list, at the address it was found at.
LEMMA AddStep ==
  ASSUME DirectoryInv, (\E a \in Place : Adds(a)) \/ AddMerges
  PROVE  DirectoryInv'
<1>0. DirTypes /\ UNCHANGED <<lease, awake, moves, search, quiet>>
    BY DEF DirectoryInv, Adds, AddMerges, World
<1>1. ASSUME NEW a \in Place, Adds(a) PROVE DirectoryInv'
  <2>1. PICK u \in At8090(a) : adding' = [place |-> a, unit |-> u]
      BY <1>1 DEF Adds
  <2>2. u \in Unit /\ lease[u] = a
      BY <1>0, <2>1 DEF At8090, DirTypes
  <2>3. UNCHANGED known /\ adding' \in [place : Place, unit : Unit]
      BY <1>1, <2>1, <2>2 DEF Adds
  <2>4. DirTypes'
      BY <1>0, <2>3 DEF DirTypes
  <2>5. \A v \in awake : Covered(v)' <=> Covered(v)
      BY <1>0, <2>3 DEF Covered, ToAsk, ToScan, Here, KnownPlaces
  <2> QED
      BY <1>0, <2>1, <2>2, <2>4, <2>5 DEF DirectoryInv
<1>2. CASE AddMerges
  <2> DEFINE u == adding.unit
             a == adding.place
             list == Merged(known, u, a)
             First(i) == list[i].ip = a /\ \A j \in 1..(i - 1) : list[j].ip # a
  <2>1. PICK status \in Verdicts(a) :
          known' = [i \in Positions(list) |->
                      IF First(i) THEN [list[i] EXCEPT !.status = status] ELSE list[i]]
      BY <1>2 DEF AddMerges
  <2>2. u \in Unit /\ a \in Place /\ adding' = NoAdd /\ status \in Status
    <3>1. adding # NoAdd
        BY <1>2 DEF AddMerges
    <3>2. adding \in [place : Place, unit : Unit]
        BY <1>0, <3>1 DEF DirTypes
    <3> QED
        BY <1>2, <3>2 DEF AddMerges, Verdicts, Status
  <2>3. quiet => lease[u] = a
      BY <1>2 DEF DirectoryInv, AddMerges
  <2>4. /\ list \in Seq(Entries8090) /\ NoTwice(list)
        /\ \A i \in Positions(list) : list[i].unit = u => list[i].ip = a
      BY <1>0, <2>2, MergedList DEF DirTypes
  <2>5. quiet => /\ Has(list, u, lease[u])
                 /\ \A v \in Unit : Here(v) => Has(list, v, lease[v])
                 /\ \A i \in Positions(list) : list[i].ip = lease[u] \/ list[i].ip \in KnownPlaces
      BY <1>0, <2>2, <2>3, MergedHere
  <2> HIDE DEF list
  <2>6. Len(list) \in Nat /\ \A i \in Positions(list) : list[i] \in Entries8090
      BY <2>4, LenProperties, ElementOfSeq DEF Positions
  <2>7. \A i \in Positions(list) :
          known'[i] \in Entries8090 /\ known'[i].unit = list[i].unit /\ known'[i].ip = list[i].ip
      BY <2>1, <2>2, <2>6 DEF Entries8090
  <2>8. known' \in [1..Len(list) -> Entries8090]
      BY <2>1, <2>7 DEF Positions
  <2>9. known' \in Seq(Entries8090) /\ Positions(known') = Positions(list)
      BY <2>6, <2>8 DEF Positions
  <2>10. DirTypes'
      BY <1>0, <2>2, <2>4, <2>7, <2>9 DEF DirTypes, NoTwice
  <2>11. ASSUME quiet, NEW v \in awake PROVE Covered(v)'
    <3>1. v \in Unit /\ (lease[v] = lease[u] => v = u)
        BY <1>0, <2>2 DEF DirTypes
    <3>2. Here(v) \/ v = u => Here(v)'
        BY <1>0, <2>5, <2>7, <2>9, <2>11, <3>1 DEF Here, Has
    <3>3. lease[v] \in KnownPlaces' => lease[v] \in KnownPlaces \/ Here(v)'
      <4>1. lease[v] \in KnownPlaces' => lease[v] = lease[u] \/ lease[v] \in KnownPlaces
          BY <2>5, <2>7, <2>9, <2>11 DEF KnownPlaces
      <4> QED
          BY <3>1, <3>2, <4>1
    <3> QED
        BY <1>0, <2>11, <3>2, <3>3 DEF DirectoryInv, Covered, ToAsk, ToScan
  <2> QED
      BY <1>0, <2>2, <2>10, <2>11 DEF DirectoryInv
<1> QED
    BY <1>1, <1>2

\* A step that disturbs the search.
LEMMA Disturbed ==
  ASSUME DirectoryInv, \/ (\E u \in Unit : Removes(u) \/ SleepsOrWakes(u))
                       \/ (\E u \in Unit, a \in Place : ChangesPlace(u, a))
                       \/ DirectoryReboots
  PROVE  DirectoryInv' /\ ~quiet'
<1> USE DirectoryAssumption
<1>0. DirTypes
    BY DEF DirectoryInv
<1>1. ASSUME NEW u \in Unit, Removes(u) PROVE DirectoryInv' /\ ~quiet'
  <2>1. PICK k \in Listing(known, u) :
          known' = SubSeq(known, 1, k - 1) \o SubSeq(known, k + 1, Len(known))
      BY <1>1 DEF Removes
  <2>2. quiet' = FALSE /\ UNCHANGED <<lease, awake, moves, search, adding>>
      BY <1>1 DEF Removes, World
  <2>3. /\ k \in 1..Len(known) /\ Len(known) \in Nat
        /\ \A i \in 1..Len(known) : known[i] \in Entries8090
      BY <1>0, <2>1, LenProperties, ElementOfSeq DEF DirTypes, Listing, Positions
  <2> DEFINE before == SubSeq(known, 1, k - 1)
             after == SubSeq(known, k + 1, Len(known))
  <2>4. /\ before \in Seq(Entries8090) /\ Len(before) = k - 1
        /\ \A i \in 1..(k - 1) : before[i] = known[i]
    <3>1. \A i \in 1..(k - 1) : known[i] \in Entries8090
        BY <2>3
    <3>2. 1 \in Int /\ k - 1 \in Int
        BY <2>3
    <3>3. /\ before \in Seq(Entries8090)
          /\ Len(before) = IF 1 <= k - 1 THEN (k - 1) - 1 + 1 ELSE 0
          /\ \A i \in 1..((k - 1) - 1 + 1) : before[i] = known[1 + i - 1]
        BY <3>1, <3>2, SubSeqProperties
    <3> QED
        BY <2>3, <3>3
  <2>5. /\ after \in Seq(Entries8090) /\ Len(after) = Len(known) - k
        /\ \A i \in 1..(Len(known) - k) : after[i] = known[k + i]
    <3>1. \A i \in (k + 1)..Len(known) : known[i] \in Entries8090
        BY <2>3
    <3>2. k + 1 \in Int /\ Len(known) \in Int
        BY <2>3
    <3>3. /\ after \in Seq(Entries8090)
          /\ Len(after) = IF k + 1 <= Len(known) THEN Len(known) - (k + 1) + 1 ELSE 0
          /\ \A i \in 1..(Len(known) - (k + 1) + 1) : after[i] = known[(k + 1) + i - 1]
        BY <3>1, <3>2, SubSeqProperties
    <3> QED
        BY <2>3, <3>3
  <2> HIDE DEF before, after
  <2>6. known' = before \o after
      BY <2>1 DEF before, after
  <2>7. /\ known' \in Seq(Entries8090) /\ Len(known') = Len(known) - 1
        /\ \A i \in 1..Len(known') : known'[i] = IF i < k THEN known[i] ELSE known[i + 1]
    <3>1. /\ known' \in Seq(Entries8090) /\ Len(known') = Len(before) + Len(after)
          /\ \A i \in 1..(Len(before) + Len(after)) :
               known'[i] = IF i <= Len(before) THEN before[i] ELSE after[i - Len(before)]
        BY <2>4, <2>5, <2>6, ConcatProperties
    <3>2. ASSUME NEW i \in 1..Len(known') PROVE known'[i] = IF i < k THEN known[i] ELSE known[i + 1]
      <4>1. CASE i < k
          BY <2>3, <2>4, <2>5, <3>1, <4>1
      <4>2. CASE ~(i < k)
        <5>1. i - (k - 1) \in 1..(Len(known) - k) /\ k + (i - (k - 1)) = i + 1
            BY <2>3, <2>4, <2>5, <3>1, <4>2
        <5>2. known'[i] = after[i - (k - 1)]
            BY <2>3, <2>4, <2>5, <3>1, <4>2
        <5> QED
            BY <2>5, <4>2, <5>1, <5>2
      <4> QED
          BY <4>1, <4>2
    <3>3. Len(known') = Len(known) - 1
        BY <2>3, <2>4, <2>5, <3>1
    <3> QED
        BY <3>1, <3>2, <3>3
  <2>8. NoTwice(known')
    <3> SUFFICES ASSUME NEW i \in 1..Len(known'), NEW j \in 1..Len(known'),
                        known'[i].unit = known'[j].unit
                 PROVE  i = j
        BY DEF NoTwice, Positions
    <3>1. PICK p \in 1..Len(known) : p = (IF i < k THEN i ELSE i + 1) /\ known'[i] = known[p]
        BY <2>3, <2>7
    <3>2. PICK q \in 1..Len(known) : q = (IF j < k THEN j ELSE j + 1) /\ known'[j] = known[q]
        BY <2>3, <2>7
    <3>3. p = q
        BY <1>0, <3>1, <3>2 DEF DirTypes, NoTwice, Positions
    <3> QED
        BY <2>3, <3>1, <3>2, <3>3
  <2> QED
      BY <1>0, <2>2, <2>7, <2>8 DEF DirectoryInv, DirTypes
<1>2. ASSUME NEW u \in Unit, SleepsOrWakes(u) PROVE DirectoryInv' /\ ~quiet'
  <2>1. /\ awake' \subseteq Unit /\ moves' \in 0..MaxMoves /\ quiet' = FALSE
        /\ UNCHANGED <<lease, known, search, adding>>
      BY <1>0, <1>2 DEF SleepsOrWakes, DirTypes
  <2> QED
      BY <1>0, <2>1 DEF DirectoryInv, DirTypes
<1>3. ASSUME NEW u \in Unit, NEW a \in Place, ChangesPlace(u, a) PROVE DirectoryInv' /\ ~quiet'
  <2>1. /\ moves' \in 0..MaxMoves /\ quiet' = FALSE /\ UNCHANGED <<awake, known, search, adding>>
        /\ lease' \in [Unit -> Place]
      BY <1>0, <1>3 DEF ChangesPlace, DirTypes
  <2>2. \A v, w \in Unit : lease'[v] = lease'[w] => v = w
      BY <1>0, <1>3 DEF ChangesPlace, DirTypes
  <2> QED
      BY <1>0, <2>1, <2>2 DEF DirectoryInv, DirTypes
<1>4. CASE DirectoryReboots
  <2>1. /\ known' = Reloaded /\ search' = NoSearch /\ adding' = NoAdd /\ quiet' = FALSE
        /\ UNCHANGED <<lease, awake, moves>>
      BY <1>4 DEF DirectoryReboots, World
  <2>2. Len(known) \in Nat /\ \A i \in Positions(known) : known[i] \in Entries8090
      BY <1>0, LenProperties, ElementOfSeq DEF DirTypes, Positions
  <2>3. \A i \in Positions(known) :
          /\ Reloaded[i] \in Entries8090 /\ Reloaded[i].unit = known[i].unit
          /\ Reloaded[i].ip = known[i].ip
      BY <2>2 DEF Reloaded, Entries8090
  <2>4. Reloaded \in [1..Len(known) -> Entries8090]
      BY <2>3 DEF Reloaded, Positions
  <2>5. SameWhere(Reloaded)
      BY <2>2, <2>3, <2>4 DEF SameWhere
  <2>6. known' \in Seq(Entries8090) /\ NoTwice(known')
      BY <1>0, <2>1, <2>5, SameList DEF SameWhere
  <2>7. NoSearch \in Searches /\ ~NoSearch.again
      BY EmptySeq DEF NoSearch, Searches
  <2> QED
      BY <1>0, <2>1, <2>6, <2>7 DEF DirectoryInv, DirTypes
<1> QED
    BY <1>1, <1>2, <1>3, <1>4

\* The stick as it starts, with a list of an earlier day.
LEMMA DirectoryStarts == DirectoryInit => DirectoryInv
<1> SUFFICES ASSUME DirectoryInit PROVE DirectoryInv
    OBVIOUS
<1> USE DirectoryAssumption DEF DirectoryInit, DirectoryQuiet
<1>1. known \in Seq(Entries8090) /\ NoTwice(known)
  <2>1. CASE known = <<>>
      BY <2>1, EmptySeq DEF NoTwice, Positions
  <2>2. CASE known # <<>>
    <3> DEFINE Old == [unit : Unit, ip : Place, status : {"MIGRATED"}, streak : {0}]
    <3>1. PICK n \in 1..Cardinality(Unit) :
            known \in [1..n -> Old] /\ \A i, j \in 1..n : known[i].unit = known[j].unit => i = j
        BY <2>2 DEF OldLists
    <3>2. n \in Nat /\ Old \subseteq Entries8090
        BY DEF Entries8090, Status
    <3> HIDE DEF Old
    <3>3. known \in [1..n -> Entries8090]
        BY <3>1, <3>2
    <3>4. known \in Seq(Entries8090) /\ Len(known) = n
        BY <3>2, <3>3
    <3> QED
        BY <3>1, <3>4 DEF NoTwice, Positions
  <2> QED
      BY <2>1, <2>2
<1>2. NoSearch \in Searches /\ ~NoSearch.again
    BY EmptySeq DEF NoSearch, Searches
<1>3. /\ lease \in [Unit -> Place] /\ \A u, v \in Unit : lease[u] = lease[v] => u = v
    OBVIOUS
<1>4. moves \in 0..MaxMoves /\ awake \subseteq Unit /\ adding = NoAdd /\ quiet = FALSE
    OBVIOUS
<1>5. DirTypes
    BY <1>1, <1>2, <1>3, <1>4 DEF DirTypes
<1> QED
    BY <1>2, <1>4, <1>5 DEF DirectoryInv

\* A step that leaves the list, its speakers and the tasks alone.
LEMMA DirectoryStutters == DirectoryInv /\ UNCHANGED directory => DirectoryInv'
BY DEF DirectoryInv, DirTypes, directory, Covered, ToAsk, ToScan, Here, KnownPlaces

\* Every step keeps the invariant; the one that ends a search with a scan shows the property.
LEMMA DirectoryStep ==
  ASSUME DirectoryInv, [DirectoryNext]_directory
  PROVE  /\ DirectoryInv'
         /\ search.again /\ search'.at = "idle" /\ quiet' => \A u \in awake : Here(u)'
<1> DEFINE Ends == search.again /\ search'.at = "idle" /\ quiet' => \A u \in awake : Here(u)'
<1>0. search.again => search.at = "merge"
    BY DEF DirectoryInv
<1>1. ASSUME NEW a \in Place, ProbesKnown(a) \/ ProbesResponder(a) \/ ScansPlace(a)
      PROVE  DirectoryInv' /\ Ends
    BY <1>0, <1>1, ProbeStep DEF ProbesKnown, ProbesResponder, ScansPlace
<1>2. CASE (\E forced \in BOOLEAN : Discovers(forced)) \/ KnownProbed \/ Skips \/ Scans
    BY <1>0, <1>2, PartStep DEF Discovers, KnownProbed, Skips, Scans
<1>3. CASE Refreshes
    BY <1>0, <1>3, RefreshStep DEF Refreshes
<1>4. CASE MergesStatuses
    BY <1>4, MergeStep
<1>5. CASE (\E a \in Place : Adds(a)) \/ AddMerges
    BY <1>0, <1>5, AddStep DEF Adds, AddMerges
<1>6. CASE \/ (\E u \in Unit : Removes(u) \/ SleepsOrWakes(u))
           \/ (\E u \in Unit, a \in Place : ChangesPlace(u, a))
           \/ DirectoryReboots
    BY <1>6, Disturbed
<1>7. CASE UNCHANGED directory
    BY <1>0, <1>7, DirectoryStutters DEF directory
<1> QED
    BY <1>1, <1>2, <1>3, <1>4, <1>5, <1>6, <1>7 DEF DirectoryNext

\* The invariant holds throughout.
LEMMA DirectoryInvHolds == DirectorySpec => []DirectoryInv
<1>1. DirectoryInv /\ [DirectoryNext]_directory => DirectoryInv'
    BY DirectoryStep
<1> QED
    BY <1>1, DirectoryStarts, PTL DEF DirectorySpec

\* The types of the list and the search.
THEOREM DirectoryTypesTheorem == DirectorySpec => []DirectoryTypeOK
<1>1. DirectoryInv => DirectoryTypeOK
  <2> SUFFICES ASSUME DirectoryInv PROVE DirectoryTypeOK
      OBVIOUS
  <2>1. \A i \in Positions(known) : known[i] \in Entries8090
      BY ElementOfSeq DEF DirectoryInv, DirTypes, Positions
  <2>2. \A i \in Positions(known) : known[i].ip \in Place /\ known[i].streak \in 0..Debounce
      BY <2>1 DEF Entries8090
  <2> QED
      BY <2>2 DEF DirectoryInv, DirTypes, NoTwice, Searches, DirectoryTypeOK
<1> QED
    BY <1>1, DirectoryInvHolds, PTL

\* A search with a scan that nothing disturbs ends with every speaker that answers listed at
\* its address, for any speakers and addresses (speaker_inventory.cpp:610-712).
THEOREM ScanTheorem == DirectorySpec => ScanFindsAll
<1>1. DirectoryInv /\ [DirectoryNext]_directory =>
        [(search.again /\ search'.at = "idle" /\ quiet') =>
           \A u \in awake : \E i \in Positions(known') :
             known'[i].unit = u /\ known'[i].ip = lease[u] ]_directory
  <2> SUFFICES ASSUME DirectoryInv, [DirectoryNext]_directory,
                      search.again, search'.at = "idle", quiet', NEW u \in awake, ~UNCHANGED directory
               PROVE  \E i \in Positions(known') : known'[i].unit = u /\ known'[i].ip = lease[u]
      OBVIOUS
  <2>1. Here(u)'
      BY DirectoryStep
  <2>2. UNCHANGED lease
    <3>1. search.at = "merge" /\ search.again
        BY DEF DirectoryInv
    <3>2. ~(\E v \in Unit, a \in Place : ChangesPlace(v, a))
        BY Disturbed
    <3> QED
        BY <3>2 DEF DirectoryNext, World, Discovers, ProbesKnown, ProbesResponder, ScansPlace, Adds,
                    KnownProbed, Refreshes, MergesStatuses, Skips, Scans, AddMerges, Removes,
                    SleepsOrWakes, DirectoryReboots
  <2> QED
      BY <2>1, <2>2 DEF Here, Has
<1> QED
    BY <1>1, DirectoryInvHolds, PTL DEF DirectorySpec, ScanFindsAll
=============================================================================
