---------------------------- MODULE Provisioning ----------------------------
(***************************************************************************)
(* How the stick gets into a WiFi network (wifi_provisioning.cpp,          *)
(* captive_portal.cpp): setup() tries the stored credentials, then listens *)
(* to Improv on the serial port alone, then opens a portal beside it, and  *)
(* restarts when all windows are over.  The portal's handlers run in the   *)
(* task of the web server, all else in the task of setup() and loop().     *)
(*                                                                         *)
(* Times are the order in which the windows may close: an idle window      *)
(* closes only while nobody uses it, a hard limit closes it in any case.   *)
(***************************************************************************)
EXTENDS Naturals

CONSTANTS
  Net,      \* pairs of a network and a password
  Right,    \* those a router accepts
  NoNet,
  Port,     \* the serial ports Improv listens to: UART0 and native USB
  NoPort,
  ProvEnv   \* which of PossibleProvEnv the user and the radio may do

\* "again": another attempt is started while one runs or has succeeded.
PossibleProvEnv == { "again" }

ASSUME ProvisioningAssumption ==
  Right \subseteq Net /\ NoNet \notin Net /\ NoPort \notin Port /\ ProvEnv \subseteq PossibleProvEnv

VARIABLES
  stage,     \* where provisionWifi() is: "off" after a reset, "up" once it returned
  creds,     \* flash: ssid and psk in sixback-wifi
  link,      \* the network the station is connected to
  dialling,  \* the network WiFi.begin() was last called for
  improv,    \* improvActive
  session,   \* the network an Improv host is trying, in the library's blocking call
  chatter,   \* the serial ports at which bytes keep arriving
  claim,     \* improvClaimedBy
  portal,    \* active: access point, DNS and web server of the portal are up
  save,      \* saveState with saveSsid and savePsk
  begun,     \* the handler of the save has called WiFi.begin()
  visitor,   \* a client keeps touching the portal
  capped,    \* the portal's hard limit is over
  grace      \* connectedAtMs is set

radio == <<link, dialling>>
serial == <<improv, session, chatter, claim>>
http == <<portal, save, begun, visitor, capped, grace>>
prov == <<stage, creds, radio, serial, http>>

Idle == [state |-> "Idle", net |-> NoNet]
Saves == {Idle} \cup [state : {"Connecting", "Success", "Failed"}, net : Net]

Connected == link # NoNet
Connecting == save.state = "Connecting"

\* Everything but the flash starts afresh.
ProvReset ==
  /\ stage' = "off" /\ link' = NoNet /\ dialling' = NoNet
  /\ improv' = FALSE /\ session' = NoNet /\ chatter' = {} /\ claim' = NoPort
  /\ portal' = FALSE /\ save' = Idle /\ begun' = TRUE
  /\ visitor' = FALSE /\ capped' = FALSE /\ grace' = FALSE

\* What a reset leaves, the stage and the flash aside
ProvFresh ==
  /\ link = NoNet /\ dialling = NoNet
  /\ improv = FALSE /\ session = NoNet /\ chatter = {} /\ claim = NoPort
  /\ portal = FALSE /\ save = Idle /\ begun = TRUE
  /\ visitor = FALSE /\ capped = FALSE /\ grace = FALSE

ProvInit == stage = "off" /\ creds \in Net \cup {NoNet} /\ ProvFresh

-----------------------------------------------------------------------------
(* The radio and the people.                                                *)

\* With auto-reconnect on, the last network dialled is tried for good.
Associate ==
  /\ ~Connected /\ dialling \in Right
  /\ link' = dialling
  /\ UNCHANGED <<stage, creds, dialling, serial, http>>

LoseLink ==
  /\ Connected
  /\ link' = NoNet
  /\ UNCHANGED <<stage, creds, dialling, serial, http>>

Chatter(p) ==
  /\ improv
  /\ chatter' = IF p \in chatter THEN chatter \ {p} ELSE chatter \cup {p}
  /\ UNCHANGED <<stage, creds, radio, improv, session, claim, http>>

Visitor ==
  /\ portal
  /\ visitor' = ~visitor
  /\ UNCHANGED <<stage, creds, radio, serial, portal, save, begun, capped, grace>>

\* WiFi.begin(): an existing connection ends now or with a later event.
Dial(n) == dialling' = n /\ link' \in {link, NoNet}

\* WiFi.disconnect(true)
HangUp == dialling' = NoNet /\ link' = NoNet

\* Nothing else is being tried.
Free == session = NoNet /\ ~Connecting /\ dialling = NoNet
MayTry == Free \/ "again" \in ProvEnv

-----------------------------------------------------------------------------
(***************************************************************************)
(* Improv.  Every pump hands the bytes to the library, which connects      *)
(* while its caller waits, and reports success by the callback.            *)
(***************************************************************************)
Pumped == stage \in {"nvs", "exclusive", "portal", "up"} /\ improv

\* The task of setup() and loop() is not inside the library.
Running == session = NoNet

\* improvScanForMagic: the first port with a whole magic mutes the other.
Claim(p) ==
  /\ Pumped /\ Running /\ p \in chatter /\ claim = NoPort
  /\ claim' = p
  /\ UNCHANGED <<stage, creds, radio, improv, session, chatter, http>>

ImprovDial(n) ==
  /\ Pumped /\ Running /\ MayTry /\ claim \in chatter
  /\ stage = "nvs" => "again" \in ProvEnv
  /\ session' = n /\ Dial(n)
  /\ UNCHANGED <<stage, creds, improv, chatter, claim, http>>

\* onImprovConnected: persistCreds, and the window closes.
ImprovConnected ==
  /\ session # NoNet /\ Connected
  /\ creds' = session /\ session' = NoNet /\ improv' = FALSE /\ chatter' = {}
  /\ UNCHANGED <<stage, radio, claim, http>>

\* The library gives up and hangs up: onImprovError.
ImprovFails ==
  /\ session # NoNet /\ ~Connected
  /\ session' = NoNet /\ HangUp
  /\ UNCHANGED <<stage, creds, improv, chatter, claim, http>>

CloseImprov ==
  /\ improv' = FALSE /\ chatter' = {}
  /\ UNCHANGED <<stage, creds, radio, session, claim, http>>

\* improvTickInternal runs in every stage but the wait for the stored network.
Ticked == Pumped /\ Running /\ stage # "nvs"

ImprovIdle == Ticked /\ chatter = {} /\ CloseImprov

\* Mutation of ImprovWall: the window closes only while nothing arrives.
ImprovWallAwaitsIdle == Ticked /\ chatter = {} /\ CloseImprov

\* The library's own window of 120 s is over, and with it this one.
ImprovWall == Ticked /\ CloseImprov

-----------------------------------------------------------------------------
(* provisionWifi, up to the portal.                                         *)

\* startImprovMode, then tryConnectFromNVS.
PowerOn ==
  /\ stage = "off"
  /\ improv' = TRUE
  /\ stage' = IF creds = NoNet THEN "exclusive" ELSE "nvs"
  /\ dialling' = creds
  /\ UNCHANGED <<creds, link, session, chatter, claim, http>>

GoUp ==
  /\ stage' = "up"
  /\ UNCHANGED <<creds, radio, serial, http>>

NvsConnects == stage = "nvs" /\ Running /\ Connected /\ GoUp

NvsTimesOut ==
  /\ stage = "nvs" /\ Running /\ ~Connected
  /\ stage' = "exclusive" /\ HangUp
  /\ UNCHANGED <<creds, serial, http>>

ExclusiveConnects == stage = "exclusive" /\ Running /\ Connected /\ GoUp

\* Ten seconds are over, or the Improv window is: captiveStart.
OpenPortal ==
  /\ stage = "exclusive" /\ Running /\ ~Connected
  /\ stage' = "portal" /\ portal' = TRUE
  /\ save' = Idle /\ begun' = TRUE /\ capped' = FALSE /\ grace' = FALSE
  /\ UNCHANGED <<creds, radio, serial, visitor>>

-----------------------------------------------------------------------------
(***************************************************************************)
(* The portal.  handleSave notes the network, then calls WiFi.begin();     *)
(* captiveTick, in the other task, waits for the connection.               *)
(***************************************************************************)
Submit(n) ==
  /\ portal /\ ~Connecting /\ MayTry
  /\ save' = [state |-> "Connecting", net |-> n] /\ begun' = FALSE
  /\ UNCHANGED <<stage, creds, radio, serial, portal, visitor, capped, grace>>

SubmitDials ==
  /\ ~begun
  /\ begun' = TRUE /\ Dial(save.net)
  /\ UNCHANGED <<stage, creds, serial, portal, save, visitor, capped, grace>>

ClosePortal ==
  /\ portal' = FALSE /\ visitor' = FALSE
  /\ UNCHANGED begun

\* The tick that ends an attempt looks at the hard limit, too.
CloseIfCapped == IF capped THEN ClosePortal ELSE UNCHANGED <<portal, begun, visitor>>

\* captiveTick: connected, so the credentials are kept.
SaveConnects ==
  /\ portal /\ Running /\ Connecting /\ Connected
  /\ creds' = save.net /\ save' = [save EXCEPT !.state = "Success"]
  /\ CloseIfCapped
  /\ UNCHANGED <<stage, radio, serial, capped, grace>>

\* captiveTick: twenty seconds are over.
SaveTimesOut ==
  /\ portal /\ Running /\ Connecting /\ ~Connected /\ begun
  /\ HangUp /\ save' = [save EXCEPT !.state = "Failed"]
  /\ CloseIfCapped
  /\ UNCHANGED <<stage, creds, serial, capped, grace>>

PortalTick ==
  /\ portal /\ Running
  /\ ClosePortal
  /\ UNCHANGED <<stage, creds, radio, serial, save, capped, grace>>

\* Mutation of Expiring: an attempt does not delay it.
ExpiringAnyway == TRUE

Expiring == ~Connecting

\* captiveTick: the idle window of five minutes or the hard limit of thirty.
PortalIdle == Expiring /\ ~visitor /\ PortalTick
PortalCapped == Expiring /\ capped /\ PortalTick

HardCap ==
  /\ portal /\ ~capped
  /\ capped' = TRUE
  /\ UNCHANGED <<stage, creds, radio, serial, portal, save, begun, visitor, grace>>

\* The loop looks at the link after its captiveTick, which ends an attempt
\* that has connected (a link of less than a tick is not modelled), and
\* starts the 15 s of grace.
GraceStarts ==
  /\ stage = "portal" /\ Running /\ Connected /\ ~grace /\ ~Connecting
  /\ grace' = TRUE
  /\ UNCHANGED <<stage, creds, radio, serial, portal, save, begun, visitor, capped>>

\* Grace or both windows are over: captiveStop.
PortalEnds ==
  /\ stage = "portal" /\ Running
  /\ \/ grace /\ ~(Connecting /\ Connected)
     \/ ~improv /\ ~portal
  /\ stage' = "settling" /\ ClosePortal
  /\ UNCHANGED <<creds, radio, serial, save, capped, grace>>

RestartConnected == stage = "settling" /\ Connected /\ ProvReset /\ UNCHANGED creds

NotConnected ==
  /\ stage = "settling" /\ ~Connected
  /\ stage' = "settled"
  /\ UNCHANGED <<creds, radio, serial, http>>

\* The second read of WiFi.status().
RestartUnprovisioned == stage = "settled" /\ ~Connected /\ ProvReset /\ UNCHANGED creds
LinkCameBack == stage = "settled" /\ Connected /\ GoUp

-----------------------------------------------------------------------------
(* Later: a reset of the stick, and of its credentials.                     *)

PowerLoss == stage # "off" /\ ProvReset /\ UNCHANGED creds

FactoryReset == stage = "up" /\ ProvReset /\ creds' = NoNet

\* What the task of setup() and loop() does by itself.
ProvTask ==
  \/ PowerOn \/ NvsConnects \/ NvsTimesOut \/ ExclusiveConnects \/ OpenPortal
  \/ ImprovConnected \/ ImprovFails \/ SaveConnects \/ SaveTimesOut
  \/ GraceStarts \/ PortalEnds
  \/ RestartConnected \/ NotConnected \/ RestartUnprovisioned \/ LinkCameBack

ProvNext ==
  \/ ProvTask
  \/ ImprovIdle \/ ImprovWall \/ PortalIdle \/ PortalCapped \/ HardCap \/ SubmitDials
  \/ Associate \/ LoseLink \/ Visitor
  \/ \E p \in Port : Chatter(p) \/ Claim(p)
  \/ \E n \in Net : ImprovDial(n) \/ Submit(n)
  \/ PowerLoss \/ FactoryReset

-----------------------------------------------------------------------------
(* Properties.                                                              *)

ProvTypeOK ==
  /\ stage \in {"off", "nvs", "exclusive", "portal", "settling", "settled", "up"}
  /\ {creds, link, dialling, session} \subseteq Net \cup {NoNet}
  /\ chatter \subseteq Port /\ claim \in Port \cup {NoPort}
  /\ {improv, portal, begun, visitor, capped, grace} \subseteq BOOLEAN
  /\ save \in Saves

\* No window that ends closes the portal under an attempt that is still
\* waiting for its network: right credentials would never be stored.
AttemptNotCutOff == [][portal /\ ~portal' /\ stage' # "off" => save'.state # "Connecting"]_prov

\* A stick that nobody provisions is never stuck in the dark: it gets into a
\* network or restarts, whatever arrives at the serial port or the portal.
NeverDark == stage # "up" ~> stage \in {"off", "up"}

\* The task never stops; a limit that is over is seen by the first tick after
\* the attempts that delay it, however many there are.
ProvFairness ==
  /\ WF_prov(ProvTask) /\ WF_prov(HardCap) /\ WF_prov(SubmitDials)
  /\ SF_prov(ImprovWall) /\ SF_prov(PortalCapped) /\ SF_prov(PortalEnds)
=============================================================================
