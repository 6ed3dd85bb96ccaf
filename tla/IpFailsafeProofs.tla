-------------------------- MODULE IpFailsafeProofs --------------------------
(***************************************************************************)
(* Proofs about IpFailsafe for any set of speakers, any number of          *)
(* addresses and any number of retries.                                    *)
(***************************************************************************)
EXTENDS IpFailsafe, TLAPS

-----------------------------------------------------------------------------
(* Types.                                                                   *)

Checks == [phase : {"idle", "start", "run"}, now : Addr \cup {NoAddr},
           todo : SUBSET Device, bad : SUBSET Device]
JobRecords == [step : {"none", "migrate", "auto", "verify"}, to : Addr \cup {NoAddr}]
Passes == [step : {"none", "probe", "merge"}, mine : SUBSET Device,
           own : Addr \cup {NoAddr}, saw : [Device -> Cloud \cup {NoAddr}],
           verified : SUBSET Device]

(***************************************************************************)
(* TypeOK is not inductive: the address a speaker is given must be one.    *)
(***************************************************************************)
Named ==
  /\ check.phase = "run" => check.now # NoAddr
  /\ \A d \in Device : job[d].step = "migrate" => job[d].to # NoAddr

TypeInv == TypeOK /\ Named

\* The resting values have the right types.
LEMMA RestingType ==
  /\ NoCheck \in Checks /\ [NoCheck EXCEPT !.phase = "start"] \in Checks
  /\ NoJob \in JobRecords /\ NoPass \in Passes
BY DEF Checks, JobRecords, Passes, NoCheck, NoJob, NoPass, Unseen

\* Addresses are positive.
LEMMA AddrFacts ==
  /\ NoAddr \notin Addr /\ Addr \subseteq Nat /\ 1 \in Addr
  /\ Bose \notin Addr \cup {NoAddr} /\ Peer \notin Addr \cup {NoAddr}
BY IpFailsafeAssumption DEF Addr, NoAddr

\* Pointing a speaker to an address keeps the type of base.
LEMMA PushType ==
  ASSUME TypeOK, NEW d \in Device, NEW a \in Addr, Pushed(d, a) \/ NotPushed(d, a)
  PROVE  base' \in [Device -> Cloud]
BY DEF TypeOK, Pushed, NotPushed, Cloud

\* A job that was set has the right type.
LEMMA SetJobType ==
  ASSUME TypeInv, NEW d \in Device, NEW s \in {"none", "migrate", "auto", "verify"},
         NEW a \in Addr \cup {NoAddr}, SetJob(d, s, a), s = "migrate" => a # NoAddr
  PROVE  /\ job' \in [Device -> JobRecords]
         /\ \A e \in Device : job'[e].step = "migrate" => job'[e].to # NoAddr
BY DEF TypeInv, TypeOK, Named, SetJob, JobRecords

\* The failsafe keeps the types.
LEMMA CheckType == ASSUME TypeInv, Check PROVE TypeInv'
<1>0. MaxRetries \in Nat /\ NoAddr \notin Addr
  BY IpFailsafeAssumption, AddrFacts
<1>1. CASE CheckNothingToDo
  <2>1. check' = NoCheck /\ lastIp' \in Addr \cup {NoAddr} /\ retryPending' \in BOOLEAN
    BY <1>1 DEF CheckNothingToDo, TypeInv, TypeOK
  <2> QED BY <1>1, <2>1, RestingType
          DEF CheckNothingToDo, TypeInv, TypeOK, Named, fleet, Checks, NoCheck
<1>2. CASE CheckStarts
  <2>0. ip \in Addr /\ owned \in SUBSET Device /\ retriesLeft \in 0..MaxRetries
        /\ check' = [phase |-> "run", now |-> ip, todo |-> owned, bad |-> {}]
        /\ retriesLeft' \in {retriesLeft, MaxRetries}
    BY <1>2 DEF CheckStarts, TypeInv, TypeOK
  <2>1. check' \in Checks /\ check'.now # NoAddr /\ retriesLeft' \in 0..MaxRetries
    BY <1>0, <2>0 DEF Checks
  <2> QED BY <1>2, <2>1 DEF CheckStarts, TypeInv, TypeOK, Named, fleet, Checks
<1>3. ASSUME NEW d \in Device, CheckSpeaker(d) PROVE TypeInv'
  <2>0. PICK bad \in {check.bad, check.bad \cup {d}} :
          check' = [check EXCEPT !.todo = @ \ {d}, !.bad = bad]
    BY <1>3 DEF CheckSpeaker, TypeInv, TypeOK
  <2>1. check' \in Checks /\ check'.phase = "run" /\ check'.now = check.now
    BY <1>3, <2>0 DEF CheckSpeaker, TypeInv, TypeOK, Checks
  <2>2. check.now \in Addr
    BY <1>3 DEF CheckSpeaker, TypeInv, TypeOK, Named
  <2>3. base' \in [Device -> Cloud]
    BY <1>3, <2>2, PushType DEF CheckSpeaker, TypeInv
  <2> QED BY <1>0, <1>3, <2>1, <2>2, <2>3 DEF CheckSpeaker, TypeInv, TypeOK, Named, Checks
<1>4. CASE CheckSucceeds \/ CheckRetriesLater \/ CheckGivesUp
  <2>0. retriesLeft \in 0..MaxRetries /\ check.now \in Addr \cup {NoAddr}
        /\ check.bad \subseteq Device
    BY DEF TypeInv, TypeOK
  <2>1. check' = NoCheck /\ lastIp' \in Addr \cup {NoAddr} /\ retryPending' \in BOOLEAN
        /\ retriesLeft' \in 0..MaxRetries /\ abandoned' \subseteq Device
    <3>1. lastIp' \in {lastIp, check.now} /\ retryPending' \in BOOLEAN
          /\ abandoned' \in {abandoned, check.bad} /\ check' = NoCheck
      BY <1>4 DEF CheckSucceeds, CheckRetriesLater, CheckGivesUp
    <3>2. retriesLeft' = retriesLeft \/ (retriesLeft > 0 /\ retriesLeft' = retriesLeft - 1)
      BY <1>4 DEF CheckSucceeds, CheckRetriesLater, CheckGivesUp
    <3>3. retriesLeft' \in 0..MaxRetries
      BY <1>0, <2>0, <3>2
    <3> QED BY <2>0, <3>1, <3>3 DEF TypeInv, TypeOK
  <2>2. UNCHANGED <<ip, up, armed, fleet, online, listed>>
    BY <1>4 DEF CheckSucceeds, CheckRetriesLater, CheckGivesUp
  <2> QED BY <2>1, <2>2, RestingType DEF TypeInv, TypeOK, Named, fleet, Checks, NoCheck
<1> QED BY <1>1, <1>2, <1>3, <1>4 DEF Check

\* The migrations keep the types.
LEMMA JobsType == ASSUME TypeInv, NEW d \in Device, Jobs(d) PROVE TypeInv'
<1>0. NoAddr \notin Addr /\ ip \in Addr
  BY AddrFacts DEF TypeInv, TypeOK
<1>1. ASSUME base' \in [Device -> Cloud], owned' \in {owned, owned \cup {d}},
             NEW s \in {"none", "migrate", "auto", "verify"}, NEW a \in Addr \cup {NoAddr},
             SetJob(d, s, a), s = "migrate" => a # NoAddr,
             UNCHANGED <<ip, up, failsafe, online, listed, pass>>
      PROVE TypeInv'
  <2>1. job' \in [Device -> JobRecords]
        /\ \A e \in Device : job'[e].step = "migrate" => job'[e].to # NoAddr
    BY <1>1, SetJobType
  <2> QED BY <1>1, <2>1 DEF TypeInv, TypeOK, Named, failsafe, JobRecords
<1>2. CASE StartMigrate(d)
  BY <1>0, <1>1, <1>2 DEF StartMigrate, StartJob, TypeInv, TypeOK
<1>3. CASE JobSucceeds(d) \/ JobFails(d)
  <2>1. job[d].to \in Addr
    BY <1>3 DEF JobSucceeds, JobFails, TypeInv, TypeOK, Named
  <2>2. base' \in [Device -> Cloud]
    BY <1>3, <2>1, PushType DEF JobSucceeds, JobFails, TypeInv
  <2> QED BY <1>1, <1>3, <2>2 DEF JobSucceeds, JobFails
<1>4. CASE AutoPick(d)
  BY <1>1, <1>4 DEF AutoPick, StartJob, TypeInv, TypeOK
<1>5. CASE AutoPush(d)
  <2>1. base' \in [Device -> Cloud]
    BY <1>0, <1>5, PushType DEF AutoPush, TypeInv
  <2> QED BY <1>0, <1>1, <1>5, <2>1 DEF AutoPush
<1>6. CASE AutoVerify(d)
  BY <1>1, <1>6 DEF AutoVerify, TypeInv, TypeOK
<1> QED BY <1>2, <1>3, <1>4, <1>5, <1>6 DEF Jobs

\* The status refresh keeps the types.
LEMMA RefreshType == ASSUME TypeInv, Refresh PROVE TypeInv'
<1>1. CASE RefreshStart
  <2>1. pass' \in Passes
    BY <1>1, RestingType DEF RefreshStart, TypeInv, TypeOK, Passes, NoPass, Unseen
  <2> QED BY <1>1, <2>1 DEF RefreshStart, TypeInv, TypeOK, Named, failsafe, Passes
<1>2. CASE RefreshProbe
  <2> DEFINE saw == [d \in Device |-> IF Reachable(d) THEN base[d] ELSE NoAddr]
             verified == {d \in pass.mine : saw[d] \in Foreign \cup {ip} /\ saw[d] # pass.own}
  <2>1. saw \in [Device -> Cloud \cup {NoAddr}] /\ verified \subseteq Device
    BY DEF TypeInv, TypeOK
  <2>2. pass' = [pass EXCEPT !.step = "merge", !.saw = saw, !.verified = verified]
    BY <1>2 DEF RefreshProbe
  <2>3. pass' \in Passes
    <3> HIDE DEF saw, verified
    <3> QED BY <2>1, <2>2 DEF TypeInv, TypeOK, Passes
  <2> QED BY <1>2, <2>3 DEF RefreshProbe, TypeInv, TypeOK, Named, failsafe, Passes
<1>3. CASE RefreshMerge
  <2>1. owned' \subseteq Device
    BY <1>3 DEF RefreshMerge, Claimed, Released, TypeInv, TypeOK
  <2> QED BY <1>3, <2>1, RestingType
          DEF RefreshMerge, TypeInv, TypeOK, Named, failsafe, Passes
<1> QED BY <1>1, <1>2, <1>3 DEF Refresh

\* Every step keeps the types.
LEMMA TypeStep == ASSUME TypeInv, [Next]_vars PROVE TypeInv'
<1>1. ASSUME NEW a \in Addr, GotIp(a) PROVE TypeInv'
  BY <1>1 DEF GotIp, TypeInv, TypeOK, Named, fleet
<1>2. ASSUME NEW a \in Addr, Reboot(a) PROVE TypeInv'
  <2>1. 0 \in 0..MaxRetries
    BY IpFailsafeAssumption
  <2>2. check'.phase = "start" /\ \A d \in Device : job'[d].step = "none"
    BY <1>2 DEF Reboot, NoCheck, NoJob
  <2> QED BY <1>2, <2>1, <2>2, RestingType
          DEF Reboot, TypeInv, TypeOK, Named, Checks, JobRecords, Passes
<1>3. CASE LoseWifi
  BY <1>3 DEF LoseWifi, TypeInv, TypeOK, Named, failsafe, fleet
<1>4. CASE Tick \/ TickSpawnFails
  <2>1. check' \in Checks /\ (check'.phase = "run" => check'.now # NoAddr)
    BY <1>4, RestingType DEF Tick, TickSpawnFails, TypeInv, TypeOK, Named, Checks, NoCheck
  <2> QED BY <1>4, <2>1 DEF Tick, TickSpawnFails, TypeInv, TypeOK, Named, fleet, Checks
<1>5. ASSUME NEW d \in Device, SpeakerOnOff(d) PROVE TypeInv'
  BY <1>5 DEF SpeakerOnOff, TypeInv, TypeOK, Named, failsafe, fleet
<1>6. ASSUME NEW d \in Device, Takeover(d) PROVE TypeInv'
  BY <1>6 DEF Takeover, TypeInv, TypeOK, Named, failsafe, Cloud, Foreign
<1>7. CASE UNCHANGED vars
  BY <1>7 DEF vars, TypeInv, TypeOK, Named
<1> QED BY <1>1, <1>2, <1>3, <1>4, <1>5, <1>6, <1>7, CheckType, JobsType, RefreshType DEF Next

\* The initial states have the right types.
LEMMA TypeInit == Init => TypeInv
<1>1. ASSUME Init PROVE TypeInv
  <2>1. 0 \in 0..MaxRetries
    BY IpFailsafeAssumption
  <2>2. check.phase = "start" /\ \A d \in Device : job[d].step = "none"
    BY <1>1 DEF Init, NoCheck, NoJob
  <2> QED BY <1>1, <2>1, <2>2, AddrFacts, RestingType
          DEF Init, TypeInv, TypeOK, Named, Cloud, Foreign, Checks, JobRecords, Passes
<1> QED BY <1>1

\* Type correctness, whatever the environment does.
THEOREM TypeTheorem == Spec => []TypeOK
<1>1. TypeInv => TypeOK
  BY DEF TypeInv
<1> QED BY <1>1, TypeInit, TypeStep, PTL DEF Spec

-----------------------------------------------------------------------------
(* The inductive invariant behind StaleHandled and AllFollowed.             *)

(***************************************************************************)
(* The environment of the theorems: the router never goes back to an       *)
(* address, and no migration or refresh spans a change.  Takeovers,        *)
(* reboots, lost connections, speakers that are off and speakers that are  *)
(* not read out after a push are allowed.                                  *)
(***************************************************************************)
Settled == "return" \notin Env /\ "overlap" \notin Env

\* Addresses only grow: a check works for a later one than it has dealt with.
Order ==
  /\ lastIp <= ip
  /\ check.phase = "run" => lastIp < check.now /\ check.now <= ip
  /\ check.phase # "run" => check.now = NoAddr

\* Before the first check has run there is nothing to follow.
Fresh == lastIp = NoAddr => owned = {} /\ Quiet /\ check.phase # "run"

\* A migration works for the address held now; what the auto mode has pushed and is
\* about to own is not stale.
JobsCurrent ==
  \A d \in Device :
    job[d] # NoJob =>
      /\ check.now \in {NoAddr, ip}
      /\ job[d].step = "migrate" => job[d].to = ip
      /\ job[d].step = "verify" => ~Stale(d)

\* So does a refresh, and what it is about to claim is not stale.
PassCurrent ==
  pass # NoPass =>
    /\ check.now \in {NoAddr, ip} /\ pass.own = ip
    /\ pass.step = "merge" => \A d \in Device : pass.saw[d] = pass.own => ~Stale(d)

\* A running check knows every stale speaker, or another check is due.
RunKnown ==
  check.phase = "run" =>
    \/ check.now = ip /\ \A d \in owned : Stale(d) => d \in check.todo \cup check.bad
    \/ check.now # ip /\ armed

\* Once an address is dealt with, the speakers left behind were given up.
LastDone == lastIp = ip => \A d \in owned : Stale(d) => d \in abandoned

\* An address not yet dealt with is being dealt with.
Watched == up /\ lastIp # ip => armed \/ check.phase # "idle" \/ retryPending

Follows == Order /\ RunKnown /\ LastDone /\ Watched
StaleInv == TypeInv /\ Follows /\ Fresh /\ JobsCurrent /\ PassCurrent

\* A speaker pushed to the current address, or left alone, is not made stale.
LEMMA PushFresh ==
  ASSUME TypeOK, NEW d \in Device, Pushed(d, ip) \/ NotPushed(d, ip), ip' = ip, NEW e \in Device
  PROVE  /\ ~Stale(e) => ~Stale(e)'
         /\ Pushed(d, ip) => ~Stale(d)'
BY DEF TypeOK, Pushed, NotPushed, Stale

(***************************************************************************)
(* A step that makes no speaker stale and adds only speakers that are not  *)
(* stale keeps what the failsafe relies on.                                *)
(***************************************************************************)
LEMMA CalmStep ==
  ASSUME StaleInv, UNCHANGED <<ip, up, failsafe>>,
         \A d \in Device : ~Stale(d) => ~Stale(d)',
         owned' \subseteq Device, \A d \in owned' \ owned : ~Stale(d)'
  PROVE  Follows'
<1>1. UNCHANGED <<lastIp, armed, retryPending, check, abandoned>>
  BY DEF failsafe
<1>2. \A d \in owned' : Stale(d)' => d \in owned /\ Stale(d)
  OBVIOUS
<1>3. Order' /\ Watched'
  BY <1>1 DEF StaleInv, Follows, Order, Watched
<1>4. RunKnown'
  BY <1>1, <1>2 DEF StaleInv, Follows, RunKnown
<1>5. LastDone'
  BY <1>1, <1>2 DEF StaleInv, Follows, LastDone
<1> QED BY <1>3, <1>4, <1>5 DEF Follows

\* The migrations keep the invariant.
LEMMA JobsStale ==
  ASSUME Settled, StaleInv, NEW d \in Device, Jobs(d), TypeInv' PROVE StaleInv'
<1>0. /\ TypeOK /\ UNCHANGED <<ip, up, failsafe, online, pass>>
      /\ lastIp # NoAddr \/ job[d] # NoJob
  BY DEF StaleInv, TypeInv, Jobs, StartMigrate, AutoPick, StartJob, JobSucceeds, JobFails, AutoPush,
         AutoVerify, NoJob
<1>1. lastIp # NoAddr /\ lastIp' # NoAddr
  BY <1>0 DEF StaleInv, Fresh, Quiet, failsafe
<1>2. job[d] # NoJob => check.now \in {NoAddr, ip}
  BY DEF StaleInv, JobsCurrent
<1>3. ASSUME NEW s, NEW a, SetJob(d, s, a), check.now \in {NoAddr, ip},
             s = "migrate" => a = ip, s = "verify" => ~Stale(d)',
             \A e \in Device : ~Stale(e) => ~Stale(e)'
      PROVE  JobsCurrent'
  <2>1. check' = check /\ ip' = ip
    BY <1>0 DEF failsafe
  <2>2. job' = [job EXCEPT ![d] = [step |-> s, to |-> a]]
    BY <1>3 DEF SetJob
  <2>3. job'[d] = [step |-> s, to |-> a] /\ \A e \in Device \ {d} : job'[e] = job[e]
    BY <1>0, <2>2 DEF TypeOK
  <2> QED BY <1>3, <2>1, <2>3 DEF StaleInv, JobsCurrent
<1>4. ASSUME \A e \in Device : ~Stale(e) => ~Stale(e)',
             owned' \in {owned, owned \cup {d}}, d \in owned' \ owned => ~Stale(d)',
             JobsCurrent'
      PROVE  StaleInv'
  <2>1. Follows'
    BY <1>0, <1>4, CalmStep DEF TypeOK
  <2>2. PassCurrent'
    BY <1>0, <1>4 DEF StaleInv, PassCurrent, failsafe
  <2>3. Fresh'
    BY <1>1 DEF Fresh
  <2> QED BY <1>4, <2>1, <2>2, <2>3 DEF StaleInv
<1>5. CASE StartMigrate(d) \/ AutoPick(d)
  <2>1. PICK s \in {"migrate", "auto"}, a \in {NoAddr, ip} :
          StartJob(d, s, a) /\ (s = "migrate" => a = ip)
    BY <1>5 DEF StartMigrate, AutoPick
  <2>2. check.now \in {NoAddr, ip} /\ SetJob(d, s, a) /\ UNCHANGED <<base, owned>>
    BY <2>1 DEF StartJob, MayStart, Settled
  <2>3. \A e \in Device : ~Stale(e) => ~Stale(e)'
    BY <1>0, <2>2 DEF Stale
  <2>4. JobsCurrent'
    BY <1>3, <2>1, <2>2, <2>3
  <2> QED BY <1>4, <2>2, <2>3, <2>4
<1>6. CASE JobSucceeds(d) \/ JobFails(d)
  <2>1. job[d] # NoJob /\ job[d].to = ip /\ SetJob(d, "none", NoAddr)
    BY <1>6 DEF JobSucceeds, JobFails, NoJob, StaleInv, JobsCurrent
  <2>2. \/ owned' = owned /\ NotPushed(d, ip)
        \/ owned' = owned \cup {d} /\ Pushed(d, ip)
    BY <1>6, <2>1 DEF JobSucceeds, JobFails
  <2>3. /\ \A e \in Device : ~Stale(e) => ~Stale(e)'
        /\ Pushed(d, ip) => ~Stale(d)'
    BY <1>0, <2>2, PushFresh
  <2>4. JobsCurrent'
    BY <1>2, <1>3, <2>1, <2>3
  <2> QED BY <1>4, <2>2, <2>3, <2>4
<1>7. CASE AutoPush(d)
  <2>1. /\ job[d] # NoJob /\ owned' = owned
        /\ \/ Pushed(d, ip) /\ SetJob(d, "verify", ip)
           \/ NotPushed(d, ip) /\ SetJob(d, "none", NoAddr)
    BY <1>7 DEF AutoPush, NoJob
  <2>2. /\ \A e \in Device : ~Stale(e) => ~Stale(e)'
        /\ Pushed(d, ip) => ~Stale(d)'
    BY <1>0, <2>1, PushFresh
  <2>3. JobsCurrent'
    BY <1>2, <1>3, <2>1, <2>2
  <2> QED BY <1>4, <2>1, <2>2, <2>3
<1>8. CASE AutoVerify(d)
  <2>1. /\ job[d] # NoJob /\ ~Stale(d) /\ SetJob(d, "none", NoAddr) /\ base' = base
        /\ owned' \in {owned, owned \cup {d}}
    BY <1>8 DEF AutoVerify, NoJob, StaleInv, JobsCurrent
  <2>2. \A e \in Device : ~Stale(e) => ~Stale(e)'
    BY <1>0, <2>1 DEF Stale
  <2>3. JobsCurrent'
    BY <1>2, <1>3, <2>1, <2>2
  <2> QED BY <1>4, <2>1, <2>2, <2>3
<1> QED BY <1>5, <1>6, <1>7, <1>8 DEF Jobs

\* The status refresh keeps the invariant.
LEMMA RefreshStale ==
  ASSUME Settled, StaleInv, Refresh, TypeInv' PROVE StaleInv'
<1>0. /\ TypeOK /\ UNCHANGED <<ip, up, failsafe, base, online, job>>
      /\ lastIp # NoAddr \/ pass # NoPass
  BY DEF StaleInv, TypeInv, Refresh, RefreshStart, RefreshProbe, RefreshMerge, NoPass
<1>1. lastIp # NoAddr /\ lastIp' # NoAddr
  BY <1>0 DEF StaleInv, Fresh, Quiet, failsafe
<1>2. Fresh' /\ JobsCurrent' /\ \A d \in Device : Stale(d)' = Stale(d)
  BY <1>0, <1>1 DEF StaleInv, Fresh, Quiet, JobsCurrent, failsafe, Stale
<1>3. ASSUME owned' \subseteq Device, \A d \in owned' \ owned : ~Stale(d)', PassCurrent'
      PROVE  StaleInv'
  <2>1. Follows'
    BY <1>0, <1>2, <1>3, CalmStep
  <2> QED BY <1>2, <1>3, <2>1 DEF StaleInv
<1>4. CASE RefreshStart
  <2>1. pass' = [NoPass EXCEPT !.step = "probe", !.mine = owned, !.own = ip]
        /\ check.now \in {NoAddr, ip} /\ owned' = owned
    BY <1>4 DEF RefreshStart, MayStart, Settled
  <2>2. pass'.own = ip /\ pass'.step = "probe"
    BY <2>1 DEF NoPass
  <2>3. PassCurrent'
    BY <1>0, <2>1, <2>2 DEF PassCurrent, failsafe
  <2> QED BY <1>0, <1>3, <2>1, <2>3 DEF TypeOK
<1>5. CASE RefreshProbe
  <2> DEFINE saw == [d \in Device |-> IF Reachable(d) THEN base[d] ELSE NoAddr]
             verified == {d \in pass.mine : saw[d] \in Foreign \cup {ip} /\ saw[d] # pass.own}
  <2>1. pass' = [pass EXCEPT !.step = "merge", !.saw = saw, !.verified = verified]
        /\ owned' = owned /\ pass # NoPass
    BY <1>5 DEF RefreshProbe, NoPass
  <2>2. check.now \in {NoAddr, ip} /\ pass.own = ip
    BY <2>1 DEF StaleInv, PassCurrent
  <2>3. pass'.own = ip /\ pass'.saw = saw
    <3> HIDE DEF saw, verified
    <3> QED BY <1>0, <2>1, <2>2 DEF TypeOK
  <2>4. \A d \in Device : saw[d] = ip => ~Stale(d)
    BY <1>0, AddrFacts DEF Stale, TypeOK
  <2> HIDE DEF saw
  <2>5. PassCurrent'
    BY <1>0, <1>2, <2>2, <2>3, <2>4 DEF PassCurrent, failsafe
  <2> QED BY <1>0, <1>3, <2>1, <2>5 DEF TypeOK
<1>6. CASE RefreshMerge
  <2>1. pass # NoPass /\ pass.step = "merge" /\ pass' = NoPass
        /\ owned' = (owned \cup Claimed) \ Released
    BY <1>6 DEF RefreshMerge, NoPass
  <2>2. \A d \in Claimed : d \in Device /\ ~Stale(d)
    BY <2>1 DEF Claimed, StaleInv, PassCurrent
  <2>3. PassCurrent'
    BY <2>1 DEF PassCurrent
  <2> QED BY <1>0, <1>2, <1>3, <2>1, <2>2, <2>3 DEF TypeOK
<1> QED BY <1>4, <1>5, <1>6 DEF Refresh

\* What dealing with one speaker does to the check.
LEMMA SpeakerCheck ==
  ASSUME TypeOK, NEW d \in Device, CheckSpeaker(d)
  PROVE  /\ check'.phase = "run" /\ check'.now = check.now
         /\ check'.todo = check.todo \ {d}
         /\ \/ Pushed(d, check.now) /\ check'.bad = check.bad
            \/ NotPushed(d, check.now) /\ check'.bad = check.bad \cup {d}
<1>0. check \in Checks /\ check.phase = "run"
  BY DEF TypeOK, Checks, CheckSpeaker
<1>1. CASE Pushed(d, check.now) /\ check' = [check EXCEPT !.todo = @ \ {d}]
  BY <1>0, <1>1 DEF Checks
<1>2. CASE /\ NotPushed(d, check.now)
           /\ check' = [check EXCEPT !.todo = @ \ {d}, !.bad = @ \cup {d}]
  BY <1>0, <1>2 DEF Checks
<1> QED BY <1>1, <1>2 DEF CheckSpeaker

\* The failsafe keeps its invariant.
LEMMA CheckStale ==
  ASSUME StaleInv, Check, TypeInv' PROVE StaleInv'
<1>0. /\ TypeOK /\ UNCHANGED <<ip, up, armed, online, owned, job, pass>>
      /\ ip \in Nat /\ lastIp \in Nat /\ check.now \in Nat /\ ip # NoAddr
  <2>1. UNCHANGED <<ip, up, armed, online, owned, job, pass>>
    BY DEF Check, CheckNothingToDo, CheckStarts, CheckSpeaker, CheckSucceeds,
         CheckRetriesLater, CheckGivesUp, fleet
  <2>2. TypeOK /\ ip \in Addr /\ lastIp \in Addr \cup {NoAddr}
        /\ check.now \in Addr \cup {NoAddr}
    BY DEF StaleInv, TypeInv, TypeOK
  <2>3. 0 \in Nat /\ NoAddr = 0
    BY DEF NoAddr
  <2>4. ip \in Nat /\ lastIp \in Nat /\ check.now \in Nat /\ ip # NoAddr
    BY <2>2, <2>3, AddrFacts
  <2> QED BY <2>1, <2>2, <2>4
<1>1. CASE check' = NoCheck /\ UNCHANGED base
  <2>1. check'.now = NoAddr /\ check'.phase = "idle"
    BY <1>1 DEF NoCheck
  <2>2. JobsCurrent' /\ PassCurrent' /\ RunKnown'
    BY <1>0, <1>1, <2>1 DEF StaleInv, JobsCurrent, PassCurrent, RunKnown, Stale
  <2>3. ASSUME Order', LastDone', Watched', lastIp' = NoAddr => lastIp = NoAddr PROVE StaleInv'
    <3>1. Fresh'
      BY <1>0, <2>1, <2>3 DEF StaleInv, Fresh, Quiet
    <3> QED BY <2>2, <2>3, <3>1 DEF StaleInv, Follows
  <2>4. CASE UNCHANGED <<lastIp, abandoned>> /\ (~up \/ lastIp = ip \/ retryPending')
    <3>1. Order' /\ LastDone' /\ Watched'
      BY <1>0, <1>1, <2>1, <2>4
         DEF StaleInv, Follows, Order, LastDone, Watched, Stale
    <3> QED BY <2>3, <2>4, <3>1
  <2>5. CASE lastIp = NoAddr /\ lastIp' = ip
    <3>1. Order' /\ LastDone' /\ Watched'
      BY <1>0, <1>1, <2>1, <2>5 DEF StaleInv, Fresh, Order, LastDone, Watched
    <3> QED BY <1>0, <2>3, <2>5, <3>1
  <2>6. CASE /\ CheckDone /\ lastIp' = check.now
             /\ check.bad = {} \/ abandoned' = check.bad
    <3>1. check.phase = "run" /\ check.todo = {} /\ lastIp < check.now /\ check.now <= ip
      BY <2>6 DEF CheckDone, StaleInv, Follows, Order
    <3>2. check.now = ip => \A d \in owned : Stale(d) => d \in check.bad
      BY <3>1 DEF StaleInv, Follows, RunKnown
    <3>3. check.now # ip => armed
      BY <3>1 DEF StaleInv, Follows, RunKnown
    <3>4. Order' /\ LastDone' /\ Watched' /\ lastIp' # NoAddr
      BY <1>0, <1>1, <2>1, <2>6, <3>1, <3>2, <3>3 DEF Order, LastDone, Watched, Stale, NoAddr
    <3> QED BY <2>3, <3>4
  <2>7. CASE CheckNothingToDo
    BY <2>4, <2>5, <2>7 DEF CheckNothingToDo
  <2>8. CASE CheckSucceeds \/ CheckRetriesLater \/ CheckGivesUp
    BY <2>4, <2>6, <2>8 DEF CheckSucceeds, CheckRetriesLater, CheckGivesUp
  <2>9. ~CheckStarts /\ ~\E d \in Device : CheckSpeaker(d)
    BY <1>0, <2>1, SpeakerCheck DEF CheckStarts
  <2> QED BY <2>7, <2>8, <2>9 DEF Check
<1>2. CASE CheckStarts
  <2>1. /\ check' = [phase |-> "run", now |-> ip, todo |-> owned, bad |-> {}]
        /\ lastIp # NoAddr /\ lastIp # ip /\ UNCHANGED <<lastIp, base>>
    BY <1>2 DEF CheckStarts, fleet
  <2>2. check'.phase = "run" /\ check'.now = ip /\ check'.todo = owned
    BY <2>1
  <2>3. Order' /\ RunKnown' /\ LastDone' /\ Watched'
    BY <1>0, <2>1, <2>2 DEF StaleInv, Follows, Order, RunKnown, LastDone, Watched
  <2>4. Fresh' /\ JobsCurrent' /\ PassCurrent'
    BY <1>0, <2>1, <2>2 DEF StaleInv, Fresh, JobsCurrent, PassCurrent, Stale
  <2> QED BY <2>3, <2>4 DEF StaleInv, Follows
<1>3. ASSUME NEW d \in Device, CheckSpeaker(d) PROVE StaleInv'
  <2>1. /\ check.phase = "run" /\ check'.phase = "run" /\ check'.now = check.now
        /\ check'.todo = check.todo \ {d}
        /\ \/ Pushed(d, check.now) /\ check'.bad = check.bad
           \/ NotPushed(d, check.now) /\ check'.bad = check.bad \cup {d}
        /\ UNCHANGED <<lastIp, retryPending, abandoned>>
    BY <1>0, <1>3, SpeakerCheck DEF CheckSpeaker
  <2>2. lastIp < check.now /\ check.now <= ip /\ lastIp # ip /\ lastIp # NoAddr
    BY <1>0, <2>1 DEF StaleInv, Follows, Order, Fresh
  <2>3. check.now = ip => \A e \in Device : (~Stale(e) => ~Stale(e)')
                                              /\ (Pushed(d, ip) => ~Stale(d)')
    BY <1>0, <2>1, PushFresh
  <2>4. RunKnown'
    BY <1>0, <2>1, <2>3 DEF StaleInv, Follows, RunKnown, TypeOK
  <2>5. Order' /\ LastDone' /\ Watched' /\ Fresh'
    BY <1>0, <2>1, <2>2 DEF StaleInv, Follows, Order, LastDone, Watched, Fresh
  <2>6. JobsCurrent' /\ PassCurrent'
    BY <1>0, <2>1, <2>2, <2>3 DEF StaleInv, JobsCurrent, PassCurrent, NoAddr
  <2> QED BY <2>4, <2>5, <2>6 DEF StaleInv, Follows
<1> QED BY <1>1, <1>2, <1>3
        DEF Check, CheckNothingToDo, CheckSucceeds, CheckRetriesLater, CheckGivesUp, fleet

\* Every step keeps the invariant.
LEMMA StaleStep ==
  ASSUME Settled, StaleInv, [Next]_vars PROVE StaleInv'
<1>0. TypeInv' /\ TypeOK /\ ip \in Addr /\ lastIp \in Addr \cup {NoAddr}
      /\ check.now \in Addr \cup {NoAddr}
  BY TypeStep DEF StaleInv, TypeInv, TypeOK
<1>1. ip \in Nat /\ lastIp \in Nat /\ check.now \in Nat /\ ip # NoAddr
  <2>1. 0 \in Nat /\ NoAddr = 0
    BY DEF NoAddr
  <2> QED BY <1>0, <2>1, AddrFacts
<1>2. ASSUME NEW a \in Addr, GotIp(a) PROVE StaleInv'
  <2>1. /\ ip' = a /\ armed' = TRUE /\ a \in {ip, ip + 1} /\ (a # ip => Quiet)
        /\ UNCHANGED <<lastIp, retryPending, check, base, owned, online, job, pass, abandoned>>
    BY <1>2 DEF GotIp, Assignable, fleet, Settled
  <2>2. Order' /\ Watched' /\ Fresh'
    BY <1>1, <2>1 DEF StaleInv, Follows, Order, Watched, Fresh, Quiet
  <2>3. JobsCurrent'
    BY <2>1 DEF StaleInv, JobsCurrent, Quiet, Stale
  <2>4. RunKnown' /\ LastDone' /\ PassCurrent'
    BY <1>1, <2>1
       DEF StaleInv, Follows, Order, RunKnown, LastDone, PassCurrent, Quiet, Stale
  <2> QED BY <1>0, <2>2, <2>3, <2>4 DEF StaleInv, Follows
<1>3. ASSUME NEW a \in Addr, Reboot(a) PROVE StaleInv'
  <2>1. /\ ip' = a /\ a \in {ip, ip + 1}
        /\ check'.phase = "start" /\ check'.now = NoAddr
        /\ job' = [d \in Device |-> NoJob] /\ pass' = NoPass
        /\ UNCHANGED <<lastIp, base, owned, abandoned>>
    BY <1>3 DEF Reboot, Assignable, Settled, NoCheck
  <2>2. Order' /\ Watched' /\ RunKnown' /\ JobsCurrent' /\ PassCurrent'
    BY <1>1, <2>1 DEF StaleInv, Follows, Order, Watched, RunKnown, JobsCurrent, PassCurrent
  <2>3. Fresh' /\ LastDone'
    BY <1>1, <2>1 DEF StaleInv, Follows, Order, Fresh, Quiet, LastDone, Stale
  <2> QED BY <1>0, <2>2, <2>3 DEF StaleInv, Follows
<1>4. ASSUME UNCHANGED <<ip, lastIp, armed, check, retryPending, abandoned>>,
             UNCHANGED <<base, owned, job, pass>>,
             up' => up
      PROVE  StaleInv'
  BY <1>0, <1>4 DEF StaleInv, Follows, Order, RunKnown, LastDone, Watched, Fresh, Quiet,
       JobsCurrent, PassCurrent, Stale
<1>5. CASE Tick \/ TickSpawnFails
  <2>1. /\ UNCHANGED <<ip, up, lastIp, retryPending, base, owned, job, pass, abandoned>>
        /\ check.phase = "idle"
        /\ \/ check' = check /\ armed'
           \/ check'.phase = "start" /\ check'.now = NoAddr
    BY <1>5 DEF Tick, TickSpawnFails, fleet, NoCheck
  <2> QED BY <1>0, <2>1 DEF StaleInv, Follows, Order, RunKnown, LastDone, Watched, Fresh, Quiet,
            JobsCurrent, PassCurrent, Stale
<1>6. ASSUME NEW d \in Device, Takeover(d) PROVE StaleInv'
  <2>1. /\ UNCHANGED <<ip, up, failsafe, owned, job, pass>>
        /\ \A e \in Device : base'[e] \in {base[e], Bose, Peer}
    BY <1>0, <1>6 DEF Takeover, TypeOK, Foreign
  <2>2. \A e \in Device : ~Stale(e) => ~Stale(e)'
    BY <2>1, AddrFacts DEF Stale
  <2>3. Follows'
    BY <1>0, <2>1, <2>2, CalmStep DEF TypeOK
  <2> QED BY <1>0, <2>1, <2>2, <2>3
          DEF StaleInv, Fresh, Quiet, JobsCurrent, PassCurrent, failsafe
<1>7. CASE LoseWifi \/ (\E d \in Device : SpeakerOnOff(d)) \/ UNCHANGED vars
  BY <1>4, <1>7 DEF LoseWifi, SpeakerOnOff, vars, failsafe, fleet
<1> QED BY <1>0, <1>2, <1>3, <1>5, <1>6, <1>7, CheckStale, JobsStale, RefreshStale DEF Next

\* The invariant holds initially: nothing is owned and a check is due.
LEMMA StaleInit == Init => StaleInv
<1>1. ASSUME Init PROVE StaleInv
  <2>1. check.phase = "start" /\ check.now = NoAddr /\ pass = NoPass /\ owned = {} /\ ip = 1
        /\ lastIp = NoAddr /\ ~up /\ \A d \in Device : job[d] = NoJob
    BY <1>1 DEF Init, NoCheck
  <2>2. Follows
    BY <2>1 DEF Follows, Order, RunKnown, LastDone, Watched, NoAddr
  <2>3. Fresh /\ JobsCurrent /\ PassCurrent
    BY <2>1 DEF Fresh, Quiet, JobsCurrent, PassCurrent
  <2> QED BY <1>1, <2>2, <2>3, TypeInit DEF StaleInv
<1> QED BY <1>1

(***************************************************************************)
(* No owned speaker is forgotten on a dead address, for any fleet and any  *)
(* number of addresses, while speakers are off, are taken over, the WiFi   *)
(* comes and goes and the stick reboots.                                   *)
(***************************************************************************)
THEOREM StaleTheorem ==
  ASSUME Settled PROVE Spec => []StaleHandled
<1>1. StaleInv => StaleHandled
  BY DEF StaleInv, Follows, Watched, LastDone, StaleHandled
<1> QED BY <1>1, StaleInit, StaleStep, PTL DEF Spec

\* last_ip moves on only when every owned speaker has been dealt with.
THEOREM FollowedTheorem ==
  ASSUME Settled PROVE Spec => AllFollowed
<1>1. ASSUME StaleInv, [Next]_vars, lastIp' # lastIp, lastIp # NoAddr, NEW d \in owned
      PROVE  base[d] \in Foreign \cup {lastIp'} \/ d \in abandoned' \/ armed
  <2>1. CASE CheckSucceeds \/ CheckGivesUp
    <3>1. /\ lastIp' = check.now /\ check.phase = "run" /\ check.todo = {}
          /\ check.bad = {} \/ abandoned' = check.bad
      BY <2>1 DEF CheckSucceeds, CheckGivesUp, CheckDone
    <3>2. base[d] \in Cloud
      BY <1>1 DEF StaleInv, TypeInv, TypeOK
    <3> QED BY <1>1, <3>1, <3>2 DEF StaleInv, Follows, RunKnown, Stale, Cloud, Foreign
  <2>2. ~(\E e \in Device : Jobs(e) \/ SpeakerOnOff(e) \/ Takeover(e)) /\ ~Refresh
    BY <1>1 DEF Jobs, StartMigrate, AutoPick, StartJob, JobSucceeds, JobFails, AutoPush,
         AutoVerify, SpeakerOnOff, Takeover, Refresh, RefreshStart, RefreshProbe, RefreshMerge,
         failsafe
  <2>3. ~(\E a \in Addr : GotIp(a) \/ Reboot(a)) /\ ~LoseWifi /\ ~Tick /\ ~TickSpawnFails
    BY <1>1 DEF GotIp, Reboot, LoseWifi, Tick, TickSpawnFails, failsafe
  <2>4. Check
    BY <1>1, <2>2, <2>3 DEF Next, vars
  <2>5. CheckSucceeds \/ CheckGivesUp
    BY <1>1, <2>4 DEF Check, CheckNothingToDo, CheckStarts, CheckSpeaker, CheckRetriesLater
  <2> QED BY <2>1, <2>5
<1>2. StaleInv /\ [Next]_vars =>
        [lastIp' # lastIp /\ lastIp # NoAddr =>
           \A d \in owned : base[d] \in Foreign \cup {lastIp'} \/ d \in abandoned' \/ armed]_vars
  BY <1>1
<1> QED BY <1>2, StaleInit, StaleStep, PTL DEF Spec, AllFollowed
=============================================================================
