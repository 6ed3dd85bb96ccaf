------------------------------- MODULE UiAuth -------------------------------
(***************************************************************************)
(* The password of the web interface (ui_auth.cpp): a configuration in     *)
(* the flash and the middleware that is live.  Handlers run in the task of *)
(* the web server, uiAuthSerialTick() in loop().  Nothing locks: they      *)
(* share the flash, the flag g_pendingApply and the middleware.            *)
(***************************************************************************)
EXTENDS Naturals

CONSTANTS
  Cred,     \* pairs of a user and a hash
  NoCred,
  Overlaps  \* may a reset overlap a step of the other task?

ASSUME UiAuthAssumption == NoCred \notin Cred /\ Overlaps \in BOOLEAN

VARIABLES
  config,   \* flash: UiAuthConfig
  live,     \* the credentials the middleware asks for, NoCred for AUTH_NONE
  pending,  \* g_pendingApply
  web,      \* the handler's next step: "idle", "mark", "answer", or one of a reset
  tick      \* the step of loop(): "idle", "load", "apply", or one of a reset

uiauth == <<config, live, pending, web, tick>>

\* A configuration, and what apply_() makes of it.
Configs == [enabled : BOOLEAN, cred : Cred \cup {NoCred}]
Nothing == [enabled |-> FALSE, cred |-> NoCred]
Applied(c) == IF c.enabled THEN c.cred ELSE NoCred

UiAuthInit ==
  /\ config = Nothing /\ live = NoCred /\ pending = FALSE
  /\ web = [at |-> "idle"] /\ tick = [at |-> "idle"]

At(t, s) == t.at = s
Step(s) == [at |-> s]
ResetSteps == {"erase", "forget", "open"}

\* A task may start a reset, and the other anything during one.
ResetAlone(other) == Overlaps \/ At(other, "idle")
NoReset(other) == Overlaps \/ other.at \notin ResetSteps

-----------------------------------------------------------------------------
(* handlePutUiAuth: save_() may fail, which nobody notices.                 *)

SavesConfig(c) ==
  /\ At(web, "idle") /\ NoReset(tick)
  /\ config' \in {c, config} /\ web' = Step("mark")
  /\ UNCHANGED <<live, pending, tick>>

\* uiAuthSetCredentials
SetCredentials(c) == SavesConfig([enabled |-> TRUE, cred |-> c])

\* uiAuthSetEnabled
SetEnabled(b) == config.cred # NoCred /\ SavesConfig([config EXCEPT !.enabled = b])

Marks ==
  /\ At(web, "mark") /\ pending' = TRUE /\ web' = Step("answer")
  /\ UNCHANGED <<config, live, tick>>

\* The request is over.
Answers == At(web, "answer") /\ web' = Step("idle") /\ UNCHANGED <<config, live, pending, tick>>

-----------------------------------------------------------------------------
(* uiAuthReset, by handlePostUiAuthReset or by a line at the serial port.   *)

Resets(t) ==
  \/ At(t, "erase") /\ config' = Nothing /\ UNCHANGED <<live, pending>>
  \/ At(t, "forget") /\ pending' = FALSE /\ UNCHANGED <<config, live>>
  \/ At(t, "open") /\ live' = NoCred /\ UNCHANGED <<config, pending>>
After(t) == Step(CASE At(t, "erase") -> "forget" [] At(t, "forget") -> "open" [] OTHER -> "idle")

WebReset ==
  /\ At(web, "idle") /\ ResetAlone(tick) /\ web' = Step("erase")
  /\ UNCHANGED <<config, live, pending, tick>>
SerialReset ==
  /\ At(tick, "idle") /\ ResetAlone(web) /\ tick' = Step("erase")
  /\ UNCHANGED <<config, live, pending, web>>

WebResets == Resets(web) /\ web' = After(web) /\ UNCHANGED tick
SerialResets == Resets(tick) /\ tick' = After(tick) /\ UNCHANGED web

-----------------------------------------------------------------------------
(* uiAuthSerialTick, and a restart with uiAuthInit.                         *)

TickTakes ==
  /\ At(tick, "idle") /\ pending /\ NoReset(web)
  /\ pending' = FALSE /\ tick' = Step("load")
  /\ UNCHANGED <<config, live, web>>

TickLoads ==
  /\ At(tick, "load") /\ tick' = [at |-> "apply", config |-> config]
  /\ UNCHANGED <<config, live, pending, web>>

\* Mutation of TickApplies: the flag is cleared when all is done.
TickAppliesAndClears ==
  /\ At(tick, "apply") /\ live' = Applied(tick.config) /\ tick' = Step("idle")
  /\ pending' = FALSE /\ UNCHANGED <<config, web>>
TickApplies ==
  /\ At(tick, "apply") /\ live' = Applied(tick.config) /\ tick' = Step("idle")
  /\ UNCHANGED <<config, pending, web>>

UiAuthReboot ==
  /\ live' = Applied(config) /\ pending' = FALSE
  /\ web' = Step("idle") /\ tick' = Step("idle")
  /\ UNCHANGED config

UiAuthNext ==
  \/ \E c \in Cred : SetCredentials(c)
  \/ \E b \in BOOLEAN : SetEnabled(b)
  \/ Marks \/ Answers \/ WebReset \/ WebResets \/ SerialReset \/ SerialResets
  \/ TickTakes \/ TickLoads \/ TickApplies \/ UiAuthReboot

-----------------------------------------------------------------------------
(* Properties.                                                              *)

UiAuthTypeOK ==
  /\ config \in Configs /\ live \in Cred \cup {NoCred} /\ pending \in BOOLEAN
  /\ web.at \in {"idle", "mark", "answer"} \cup ResetSteps
  /\ tick.at \in {"idle", "load", "apply"} \cup ResetSteps

\* When both tasks rest, the middleware asks for what the flash holds: no
\* change is lost to one that comes while another is applied, as long as no
\* reset overlaps.
LiveFollowsFlash ==
  ~Overlaps /\ At(web, "idle") /\ At(tick, "idle") /\ ~pending => live = Applied(config)
=============================================================================
