------------------------------ MODULE Spotify ------------------------------
(***************************************************************************)
(* The Spotify login of the stick (spotify_player.cpp): an access token    *)
(* that expires, a refresh token the server may replace at every use, both *)
(* in RAM and in flash.  loop() refreshes ahead of time and the web task   *)
(* on a key press; the refresh reads the login under the lock, talks to    *)
(* the server without it, and writes back under it.                        *)
(***************************************************************************)
EXTENDS Naturals

CONSTANTS Account, NoAccount,
          MaxKey,        \* bound: refresh tokens the server issues per account
          LoginOverlaps  \* may a login or a logout fall into a refresh of loop()?

ASSUME SpotifyAssumption ==
  NoAccount \notin Account /\ MaxKey \in Nat /\ LoginOverlaps \in BOOLEAN

VARIABLES
  auth,    \* g_auth
  saved,   \* flash: the login of the last saveAuthToNVS_
  loaded,  \* g_authLoaded
  life,    \* expiresAtMs - millis(): 0 expired, 1 below a minute, 2 below five, 3 more
  refresh, \* the refresh of each task
  issued,  \* external: the refresh token of each account the server accepts
  unsaved, \* history: the last saveAuthToNVS_ failed
  lost     \* history: the last refresh token of the server is gone

spotify == <<auth, saved, loaded, life, refresh, issued, unsaved, lost>>

Tasks == {"loop", "web"}
NoAuth == [user |-> NoAccount, access |-> NoAccount, owner |-> NoAccount, key |-> 0]
NoRefresh == [at |-> "idle", owner |-> NoAccount, key |-> 0]

\* user: whose name is shown; access: whose access token; owner and key: the refresh token.
Configured == auth.owner # NoAccount

SpotifyInit ==
  /\ auth = NoAuth /\ saved = NoAuth /\ loaded = FALSE /\ life = 0
  /\ refresh = [t \in Tasks |-> NoRefresh]
  /\ issued = [a \in Account |-> 0] /\ unsaved = FALSE /\ lost = FALSE

-----------------------------------------------------------------------------
(* getValidAccessToken and doTokenRefresh_                                 *)

\* The token is good for another minute.
FastPath == auth.access # NoAccount /\ life >= 2

\* A task needs a token; the refresh starts with a copy of the login.
\* loop() asks when less than five minutes are left, but the fast path ends its refresh as
\* long as one is; the web task asks at a key press.
NeedsToken(t) ==
  /\ loaded /\ Configured /\ refresh[t].at = "idle" /\ ~FastPath
  /\ refresh' = [refresh EXCEPT ![t] = [at |-> "post", owner |-> auth.owner, key |-> auth.key]]
  /\ UNCHANGED <<auth, saved, loaded, life, issued, unsaved, lost>>

\* The server answers with a new access token, and perhaps a new refresh token.
ServerAnswers(t) ==
  /\ refresh[t].at = "post"
  /\ LET r == refresh[t]
     IN /\ r.key = issued[r.owner]
        /\ \/ /\ refresh' = [refresh EXCEPT ![t] = [r EXCEPT !.at = "store", !.key = 0]]
              /\ UNCHANGED issued
           \/ /\ r.key < MaxKey
              /\ refresh' = [refresh EXCEPT ![t] = [r EXCEPT !.at = "store", !.key = @ + 1]]
              /\ issued' = [issued EXCEPT ![r.owner] = @ + 1]
  /\ UNCHANGED <<auth, saved, loaded, life, unsaved, lost>>

\* The refresh token is an old one, or none of three answers can be used; the server may have
\* replaced the token with one of them.
Refused(t) ==
  /\ refresh[t].at = "post"
  /\ refresh' = [refresh EXCEPT ![t] = NoRefresh]
  /\ LET r == refresh[t]
     IN \/ UNCHANGED <<issued, lost>>
        \/ /\ r.key = issued[r.owner] /\ r.key < MaxKey
           /\ issued' = [issued EXCEPT ![r.owner] = @ + 1] /\ lost' = TRUE
  /\ UNCHANGED <<auth, saved, loaded, life, unsaved>>

\* saveAuthToNVS_ does not look whether the login reached the flash.
SavesAuth ==
  \/ saved' = auth' /\ unsaved' = FALSE
  \/ UNCHANGED saved /\ unsaved' = TRUE

\* Mutation of Renewed: the replaced refresh token is thrown away.
RenewedAccessOnly(r) == [auth EXCEPT !.access = r.owner]

\* The answer goes into the login as it is by now.
Renewed(r) ==
  IF r.key = 0 THEN [auth EXCEPT !.access = r.owner]
  ELSE [auth EXCEPT !.access = r.owner, !.owner = r.owner, !.key = r.key]

Stores(t) ==
  /\ refresh[t].at = "store"
  /\ auth' = Renewed(refresh[t]) /\ SavesAuth
  /\ life' = 3
  /\ refresh' = [refresh EXCEPT ![t] = NoRefresh]
  /\ UNCHANGED <<loaded, issued, lost>>

\* The answer is lost with power or because the lock is not free within 200 ms.
Loses(t) == refresh[t].at = "store" /\ refresh[t].key # 0

StoreTimesOut(t) ==
  /\ refresh[t].at = "store"
  /\ lost' = (lost \/ Loses(t))
  /\ refresh' = [refresh EXCEPT ![t] = NoRefresh]
  /\ UNCHANGED <<auth, saved, loaded, life, issued, unsaved>>

-----------------------------------------------------------------------------
(* Login, logout, time and power                                           *)

MayChange == LoginOverlaps \/ refresh["loop"].at = "idle"

\* exchangeAuthCode, or PUT /api/spotify/auth: the server issues the account's tokens, and
\* setAuth takes them unless the lock is not free within 200 ms.
LogsIn(a) ==
  /\ refresh["web"].at = "idle" /\ MayChange /\ issued[a] < MaxKey
  /\ issued' = [issued EXCEPT ![a] = @ + 1]
  /\ \/ /\ auth' = [user |-> a, access |-> a, owner |-> a, key |-> issued'[a]] /\ SavesAuth
        /\ loaded' = TRUE /\ life' = 3 /\ lost' = FALSE
     \/ UNCHANGED <<auth, saved, loaded, life, unsaved>> /\ lost' = TRUE
  /\ UNCHANGED refresh

\* Mutation of LogsOut: the access token and the name stay.
LogsOutHalf ==
  /\ refresh["web"].at = "idle" /\ MayChange /\ (auth # NoAuth \/ saved # NoAuth)
  /\ auth' = [auth EXCEPT !.owner = NoAccount, !.key = 0] /\ SavesAuth
  /\ loaded' = TRUE /\ life' = 0
  /\ UNCHANGED <<refresh, issued, lost>>

\* DELETE /api/spotify/auth
LogsOut ==
  /\ refresh["web"].at = "idle" /\ MayChange /\ (auth # NoAuth \/ saved # NoAuth)
  /\ auth' = NoAuth /\ SavesAuth
  /\ loaded' = TRUE /\ life' = 0
  /\ UNCHANGED <<refresh, issued, lost>>

\* loadAuthFromNVS_, at the first use: the expiry of the last boot means nothing.
LoadsLogin ==
  /\ ~loaded /\ loaded' = TRUE /\ auth' = saved /\ life' = 0
  /\ UNCHANGED <<saved, refresh, issued, unsaved, lost>>

TokenAges ==
  /\ life > 0 /\ life' = life - 1
  /\ UNCHANGED <<auth, saved, loaded, refresh, issued, unsaved, lost>>

Reboots ==
  /\ loaded
  /\ auth' = NoAuth /\ loaded' = FALSE /\ life' = 0
  /\ lost' = (lost \/ unsaved \/ \E t \in Tasks : Loses(t)) /\ unsaved' = FALSE
  /\ refresh' = [t \in Tasks |-> NoRefresh]
  /\ UNCHANGED <<saved, issued>>

SpotifyNext ==
  \/ \E t \in Tasks : NeedsToken(t) \/ ServerAnswers(t) \/ Refused(t) \/ Stores(t) \/ StoreTimesOut(t)
  \/ \E a \in Account : LogsIn(a)
  \/ LogsOut \/ LoadsLogin \/ TokenAges \/ Reboots

-----------------------------------------------------------------------------
SpotifyTypeOK ==
  /\ auth.user \in Account \cup {NoAccount} /\ life \in 0..3
  /\ \A a \in Account : issued[a] \in 0..MaxKey
  /\ \A t \in Tasks : refresh[t].at \in {"idle", "post", "store"}

\* The name shown, the access token that plays and the refresh token that renews it belong
\* to one account, whatever refreshes, logins and reboots interleave
\* (spotify_player.cpp:242-328 and 541-551).  A login inside a refresh of loop() is left out:
\* the answer is stored over it.
OneAccount ==
  auth.owner = auth.user /\ auth.access = auth.user /\ saved.owner = saved.user

\* Login l holds the refresh token the server accepts, or a task is about to store it.
Current(l) ==
  \/ l.key = issued[l.owner]
  \/ \E t \in Tasks : Loses(t) /\ refresh[t].owner = l.owner /\ refresh[t].key = issued[l.owner]

\* Neither two refreshes that interleave nor a failed save cost the refresh token the server
\* replaces at will: RAM holds the last one, and so does the flash from the next save that
\* succeeds (spotify_player.cpp:301-325).  It is lost when the answer cannot be used, when the
\* lock is not free within 200 ms, and when power fails before it is saved: whether the save
\* worked, nobody asks (spotify_player.cpp:222-232, 324 and 539).
LoginKept ==
  ~lost =>
    /\ auth.owner # NoAccount => Current(auth)
    /\ saved.owner # NoAccount /\ ~unsaved => Current(saved)
=============================================================================
