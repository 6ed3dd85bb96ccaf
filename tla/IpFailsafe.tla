----------------------------- MODULE IpFailsafe -----------------------------
(***************************************************************************)
(* A speaker stores the address of the cloud it polls, so the speakers     *)
(* must follow the stick when the router gives it another address.  The    *)
(* failsafe (ip_failsafe.cpp) remembers the last address it has dealt with *)
(* and points every owned speaker to the new one; meanwhile migrations     *)
(* (api_endpoints.cpp, auto_mode.cpp) and the status refresh               *)
(* (speaker_inventory.cpp) change which speakers are owned.                *)
(***************************************************************************)
EXTENDS Naturals

CONSTANTS
  Device,
  MaxAddr,     \* bound: addresses, numbered as the router first assigns them
  MaxRetries,  \* MAX_RETRIES (20 in the code)
  Bose, Peer,  \* the manufacturer's cloud; the cloud of another living stick
  AutoMode,    \* the zero-touch mode is enabled
  Env          \* which of PossibleEnv the environment may do

PossibleEnv ==
  { "return",    \* the router assigns an address the stick had before
    "overlap",   \* a migration or a refresh runs while the address changes, or
                 \* while a check still uses the address before
    "takeover",  \* someone else points a speaker to another cloud
    "noreply" }  \* a speaker is back from its reboot but cannot be read out

Addr == 1..MaxAddr
NoAddr == 0
Cloud == Addr \cup {Bose, Peer}
Foreign == {Bose, Peer}

ASSUME IpFailsafeAssumption ==
  /\ MaxAddr \in Nat \ {0} /\ MaxRetries \in Nat
  /\ Bose \notin Nat /\ Peer \notin Nat
  /\ AutoMode \in BOOLEAN /\ Env \subseteq PossibleEnv

VARIABLES
  ip,            \* the address held now, or last
  up,            \* the WiFi is connected
  lastIp,        \* flash: last_ip
  armed,         \* recheckArmed_
  retryPending,  \* retryPending_
  retriesLeft,   \* retriesLeft_
  check,         \* the one check that may run (checkRunning_)
  base,          \* device -> cloud the speaker polls
  owned,         \* devices with ownedByUs (flash)
  online,        \* devices that answer
  listed,        \* devices of a model and a firmware the auto mode knows
  job,           \* device -> its migration job
  pass,          \* the status refresh
  abandoned      \* history: speakers the failsafe has given up

vars == <<ip, up, lastIp, armed, retryPending, retriesLeft, check, base, owned, online,
          listed, job, pass, abandoned>>
failsafe == <<lastIp, armed, retryPending, retriesLeft, check, abandoned>>
fleet == <<base, owned, job, pass>>

NoCheck == [phase |-> "idle", now |-> NoAddr, todo |-> {}, bad |-> {}]
NoJob == [step |-> "none", to |-> NoAddr]
Unseen == [d \in Device |-> NoAddr]
NoPass == [step |-> "none", mine |-> {}, own |-> NoAddr, saw |-> Unseen, verified |-> {}]

Init ==
  /\ ip = 1 /\ up = FALSE
  /\ lastIp = NoAddr /\ armed = FALSE /\ retryPending = FALSE /\ retriesLeft = 0
  /\ check = [NoCheck EXCEPT !.phase = "start"]
  /\ base \in [Device -> Foreign] /\ owned = {}
  /\ online = Device /\ listed \in SUBSET Device
  /\ job = [d \in Device |-> NoJob] /\ pass = NoPass
  /\ abandoned = {}

-----------------------------------------------------------------------------
(* The WiFi, boots, and the speakers.                                       *)

\* Which address the router may assign.
Assignable(a) ==
  \/ a = ip
  \/ a = ip + 1
  \/ "return" \in Env

\* No migration and no refresh runs.
Quiet == pass = NoPass /\ \A d \in Device : job[d] = NoJob
MayStart == "overlap" \in Env \/ check.now \in {NoAddr, ip}

\* onGotIp_: connected, or connected again.
GotIp(a) ==
  /\ Assignable(a)
  /\ a # ip => Quiet \/ "overlap" \in Env
  /\ ip' = a /\ up' = TRUE /\ armed' = TRUE
  /\ UNCHANGED <<lastIp, retryPending, retriesLeft, check, fleet, online, listed, abandoned>>

LoseWifi ==
  /\ up
  /\ up' = FALSE
  /\ UNCHANGED <<ip, failsafe, fleet, online, listed>>

\* setup() runs the check before the tasks and the servers start.
Reboot(a) ==
  /\ Assignable(a)
  /\ ip' = a /\ up' \in BOOLEAN /\ armed' = up'
  /\ retryPending' = FALSE /\ retriesLeft' = 0
  /\ check' = [NoCheck EXCEPT !.phase = "start"]
  /\ job' = [d \in Device |-> NoJob] /\ pass' = NoPass
  /\ UNCHANGED <<lastIp, base, owned, online, listed, abandoned>>

SpeakerOnOff(d) ==
  /\ online' = IF d \in online THEN online \ {d} ELSE online \cup {d}
  /\ UNCHANGED <<ip, up, failsafe, fleet, listed>>

\* Another stick takes the speaker, or someone reverts it.
Takeover(d) ==
  /\ "takeover" \in Env
  /\ \E c \in Foreign : base' = [base EXCEPT ![d] = c]
  /\ UNCHANGED <<ip, up, failsafe, owned, online, listed, job, pass>>

(***************************************************************************)
(* migrateSpeaker: five commands over telnet.  A sequence that breaks off  *)
(* reports failure, and may have set the cloud's address all the same.     *)
(***************************************************************************)
Reachable(d) == up /\ d \in online
Pushed(d, to) == Reachable(d) /\ base' = [base EXCEPT ![d] = to]
NotPushed(d, to) == ~Reachable(d) /\ base' \in {base, [base EXCEPT ![d] = to]}

-----------------------------------------------------------------------------
(* The failsafe.                                                            *)

\* ipFailsafeTick: a check is due, by event or by the retry timer.
Tick ==
  /\ check.phase = "idle"
  /\ armed \/ retryPending
  /\ armed' = FALSE
  /\ check' = [NoCheck EXCEPT !.phase = "start"]
  /\ UNCHANGED <<ip, up, lastIp, retryPending, retriesLeft, fleet, online, listed, abandoned>>

TickSpawnFails ==
  /\ check.phase = "idle"
  /\ armed \/ retryPending
  /\ armed' = TRUE
  /\ UNCHANGED <<ip, up, lastIp, retryPending, retriesLeft, check, fleet, online, listed, abandoned>>

CheckNothingToDo ==
  /\ check.phase = "start"
  /\ \/ ~up /\ UNCHANGED <<lastIp, retryPending>>
     \/ up /\ lastIp = NoAddr /\ lastIp' = ip /\ UNCHANGED retryPending
     \/ up /\ lastIp = ip /\ retryPending' = FALSE /\ UNCHANGED lastIp
  /\ check' = NoCheck
  /\ UNCHANGED <<ip, up, armed, retriesLeft, fleet, online, listed, abandoned>>

CheckStarts ==
  /\ check.phase = "start" /\ up /\ lastIp \notin {NoAddr, ip}
  /\ retriesLeft' = IF retryPending THEN retriesLeft ELSE MaxRetries
  /\ check' = [phase |-> "run", now |-> ip, todo |-> owned, bad |-> {}]
  /\ abandoned' = {}
  /\ UNCHANGED <<ip, up, lastIp, armed, retryPending, fleet, online, listed>>

\* A speaker that already points to the new address is left alone.
CheckSpeaker(d) ==
  /\ check.phase = "run" /\ d \in check.todo
  /\ \/ /\ Pushed(d, check.now)
        /\ check' = [check EXCEPT !.todo = @ \ {d}]
     \/ /\ NotPushed(d, check.now)
        /\ check' = [check EXCEPT !.todo = @ \ {d}, !.bad = @ \cup {d}]
  /\ UNCHANGED <<ip, up, lastIp, armed, retryPending, retriesLeft, owned, online, listed, job, pass,
                 abandoned>>

CheckDone == check.phase = "run" /\ check.todo = {}

\* Mutation of CheckSucceeds: speakers that failed do not count.
CheckSucceedsAnyway ==
  /\ CheckDone
  /\ lastIp' = check.now /\ retryPending' = FALSE /\ check' = NoCheck
  /\ UNCHANGED <<ip, up, armed, retriesLeft, fleet, online, listed, abandoned>>

CheckSucceeds ==
  /\ CheckDone /\ check.bad = {}
  /\ lastIp' = check.now /\ retryPending' = FALSE /\ check' = NoCheck
  /\ UNCHANGED <<ip, up, armed, retriesLeft, fleet, online, listed, abandoned>>

CheckRetriesLater ==
  /\ CheckDone /\ check.bad # {} /\ retriesLeft > 0
  /\ retriesLeft' = retriesLeft - 1 /\ retryPending' = TRUE /\ check' = NoCheck
  /\ UNCHANGED <<ip, up, lastIp, armed, fleet, online, listed, abandoned>>

CheckGivesUp ==
  /\ CheckDone /\ check.bad # {} /\ retriesLeft = 0
  /\ lastIp' = check.now /\ retryPending' = FALSE /\ check' = NoCheck
  /\ abandoned' = check.bad
  /\ UNCHANGED <<ip, up, armed, retriesLeft, fleet, online, listed>>

-----------------------------------------------------------------------------
(* Migrations.  A job carries the address it was started with.              *)

SetJob(d, step, to) == job' = [job EXCEPT ![d] = [step |-> step, to |-> to]]

StartJob(d, step, to) ==
  /\ up /\ lastIp # NoAddr /\ job[d] = NoJob /\ MayStart
  /\ SetJob(d, step, to)
  /\ UNCHANGED <<ip, up, failsafe, base, owned, online, listed, pass>>

\* handleMigrate
StartMigrate(d) == StartJob(d, "migrate", ip)

\* migrateRevertWorker_
JobSucceeds(d) ==
  /\ job[d].step = "migrate"
  /\ Pushed(d, job[d].to)
  /\ owned' = owned \cup {d}
  /\ SetJob(d, "none", NoAddr)
  /\ UNCHANGED <<ip, up, failsafe, online, listed, pass>>

JobFails(d) ==
  /\ job[d].step = "migrate"
  /\ NotPushed(d, job[d].to)
  /\ SetJob(d, "none", NoAddr)
  /\ UNCHANGED <<ip, up, failsafe, owned, online, listed, pass>>

\* Mutation of Eligible: owned speakers are left to the failsafe.
EligibleIfForeign(d) == d \in listed \ owned /\ base[d] \notin {ip, Peer}

\* isEligible_: an owned speaker parked on a dead cloud, or one not owned on the whitelist.
Eligible(d) ==
  /\ base[d] \notin {ip, Peer}
  /\ IF d \in owned THEN base[d] # Bose ELSE d \in listed

\* A pass of the auto mode picks a speaker ...
AutoPick(d) ==
  /\ AutoMode /\ Reachable(d) /\ Eligible(d)
  /\ StartJob(d, "auto", NoAddr)

\* ... pushes the stick's address once the presets are imported ...
AutoPush(d) ==
  /\ job[d].step = "auto"
  /\ \/ Pushed(d, ip) /\ SetJob(d, "verify", ip)
     \/ NotPushed(d, ip) /\ SetJob(d, "none", NoAddr)
  /\ UNCHANGED <<ip, up, failsafe, owned, online, listed, pass>>

\* ... and owns the speaker, unless it does not come back from its reboot or then
\* reads out another address.
AutoVerify(d) ==
  /\ job[d].step = "verify"
  /\ \/ /\ (Reachable(d) /\ base[d] = job[d].to) \/ "noreply" \in Env
        /\ owned' = owned \cup {d}
     \/ /\ Reachable(d) => base[d] # job[d].to
        /\ UNCHANGED owned
  /\ SetJob(d, "none", NoAddr)
  /\ UNCHANGED <<ip, up, failsafe, base, online, listed, pass>>

-----------------------------------------------------------------------------
(* refreshMigrationStatus: snapshot, probe without the lock, merge.         *)

RefreshStart ==
  /\ up /\ lastIp # NoAddr /\ pass = NoPass /\ MayStart
  /\ pass' = [NoPass EXCEPT !.step = "probe", !.mine = owned, !.own = ip]
  /\ UNCHANGED <<ip, up, failsafe, base, owned, online, listed, job>>

\* A foreign cloud is verified if it is the manufacturer's or answers as a stick,
\* which this stick does too.
RefreshProbe ==
  /\ pass.step = "probe"
  /\ LET saw == [d \in Device |-> IF Reachable(d) THEN base[d] ELSE NoAddr]
         verified == {d \in pass.mine : saw[d] \in Foreign \cup {ip} /\ saw[d] # pass.own}
     IN pass' = [pass EXCEPT !.step = "merge", !.saw = saw, !.verified = verified]
  /\ UNCHANGED <<ip, up, failsafe, base, owned, online, listed, job>>

\* Mutation of Released: a cloud that is merely not ours releases the speaker.
ReleasedUnverified == {d \in owned : pass.saw[d] \notin {NoAddr, pass.own}}

\* Mutation of Claimed: no auto-claim.
ClaimedNever == {}

Claimed == {d \in Device : pass.saw[d] = pass.own}
Released == {d \in owned \cap pass.verified : pass.saw[d] \notin {NoAddr, pass.own}}

RefreshMerge ==
  /\ pass.step = "merge"
  /\ owned' = (owned \cup Claimed) \ Released
  /\ pass' = NoPass
  /\ UNCHANGED <<ip, up, failsafe, base, online, listed, job>>

Check ==
  \/ CheckNothingToDo \/ CheckStarts
  \/ \E d \in Device : CheckSpeaker(d)
  \/ CheckSucceeds \/ CheckRetriesLater \/ CheckGivesUp

Jobs(d) ==
  \/ StartMigrate(d) \/ JobSucceeds(d) \/ JobFails(d)
  \/ AutoPick(d) \/ AutoPush(d) \/ AutoVerify(d)

Refresh == RefreshStart \/ RefreshProbe \/ RefreshMerge

Next ==
  \/ \E a \in Addr : GotIp(a) \/ Reboot(a)
  \/ LoseWifi
  \/ Tick \/ TickSpawnFails
  \/ Check
  \/ \E d \in Device : SpeakerOnOff(d) \/ Takeover(d) \/ Jobs(d)
  \/ Refresh

Spec == Init /\ [][Next]_vars

(***************************************************************************)
(* The loop ticks and the tasks run.  The auto mode's timer refreshes the  *)
(* status and looks for speakers again and again; without it a refresh     *)
(* starts only when the user asks for one.                                 *)
(***************************************************************************)
Fairness ==
  /\ WF_vars(Tick) /\ WF_vars(Check)
  /\ WF_vars(RefreshProbe \/ RefreshMerge)
  /\ AutoMode => WF_vars(RefreshStart)
  /\ \A d \in Device : WF_vars(JobSucceeds(d) \/ JobFails(d))
  /\ \A d \in Device : WF_vars(AutoPick(d)) /\ WF_vars(AutoPush(d) \/ AutoVerify(d))

LiveSpec == Spec /\ Fairness

-----------------------------------------------------------------------------
(* Properties.                                                              *)

\* Every variable stays in its range.
TypeOK ==
  /\ ip \in Addr /\ up \in BOOLEAN
  /\ lastIp \in Addr \cup {NoAddr}
  /\ armed \in BOOLEAN /\ retryPending \in BOOLEAN /\ retriesLeft \in 0..MaxRetries
  /\ check \in [phase : {"idle", "start", "run"}, now : Addr \cup {NoAddr},
                todo : SUBSET Device, bad : SUBSET Device]
  /\ base \in [Device -> Cloud]
  /\ owned \subseteq Device /\ online \subseteq Device /\ listed \subseteq Device
  /\ job \in [Device -> [step : {"none", "migrate", "auto", "verify"},
                         to : Addr \cup {NoAddr}]]
  /\ pass \in [step : {"none", "probe", "merge"}, mine : SUBSET Device,
               own : Addr \cup {NoAddr}, saw : [Device -> Cloud \cup {NoAddr}],
               verified : SUBSET Device]
  /\ abandoned \subseteq Device

\* The speaker polls an address this stick no longer has.
Stale(d) == base[d] \in Addr \ {ip}

\* No owned speaker is forgotten on a dead address: as long as one is, a check is
\* armed, running or to be repeated, or has given it up
\* (ip_failsafe.h:12-19, "statt den Speaker dauerhaft auf der toten alten IP zu
\* lassen").
StaleHandled ==
  \A d \in owned :
    Stale(d) => ~up \/ armed \/ check.phase # "idle" \/ retryPending \/ d \in abandoned

\* last_ip moves on only when every speaker the check knew has been dealt with:
\* each was pointed to the new address, taken elsewhere, or given up
\* (ip_failsafe.cpp:162-165, "erst als verarbeitet, wenn ALLE owned Speaker
\* umgebogen sind").
AllFollowed ==
  [][lastIp' # lastIp /\ lastIp # NoAddr =>
       \A d \in owned : base[d] \in Foreign \cup {lastIp'} \/ d \in abandoned' \/ armed]_vars

\* From some time on the network is stable and nobody touches the speakers.
Undisturbed ==
  /\ <>[](up /\ online = Device)
  /\ <>[][/\ ip' = ip
          /\ \A a \in Addr : ~Reboot(a)
          /\ \A d \in Device : ~Takeover(d) /\ ~StartMigrate(d)]_vars

\* Then every owned speaker comes to poll this stick, unless it was given up
\* (ip_failsafe.h:12-19).
SpeakersFollow == Undisturbed => \A d \in Device : d \in owned ~> ~Stale(d) \/ d \in abandoned

\* Then, with the auto mode, a stick owns the speakers that poll it, and none that
\* polls a foreign cloud (speaker_inventory.cpp:1079-1103, "Auto-Claim", "Auto-Release").
OwnershipSettles ==
  Undisturbed => <>[]\A d \in Device : (base[d] = ip => d \in owned)
                                      /\ (base[d] \in Foreign => d \notin owned)

\* With the auto mode, no speaker it may claim stays on a dead address for ever, given up or
\* not (README.md:82-84, "automatically re-claimed on the next tick"): none it owns, of
\* whatever model and firmware, and none of the whitelist (auto_mode.cpp:208-236).  One off
\* the whitelist stays there once a refresh releases it: the auto mode leaves it alone.
AutoModeReclaims ==
  Undisturbed =>
    \A d \in Device : Stale(d) /\ d \in owned \cup listed ~> ~Stale(d) \/ d \notin owned \cup listed
=============================================================================
