---------------------------- MODULE DeviceProofs -----------------------------
(***************************************************************************)
(* Proofs about what keeps the stick itself running, each component on its *)
(* own: the update of its firmware, the restarts of the health check, and  *)
(* the way onto the user's network.                                        *)
(***************************************************************************)
EXTENDS OtaPull, Health, Provisioning, TLAPS

-----------------------------------------------------------------------------
(* The update.                                                             *)

OtaSpec == OtaInit /\ [][OtaNext]_ota

Calm == otaEnv \subseteq {"late"}

Active(t) == pc[t] \in {"get", "copy"}

OtaTypes ==
  /\ pc \in [Task -> {"none", "get", "copy", "done"}] /\ phase \in [Task -> Targets]
  /\ image \in [Targets -> Images] /\ boots \in {"old", "spare"}
  /\ kind \in Targets \cup {"none"} /\ upload \in Targets \cup {"no", "restart"}
  /\ asking \in {"no", "check", "install"} /\ got \in [Task -> Amounts]

\* One install at a time, and no handler prepares another.
OneInstall ==
  /\ \A s, t \in Task : Active(s) /\ Active(t) => s = t
  /\ \A t \in Task : Active(t) => state = "INSTALLING" /\ asking = "no"
  /\ asking = "install" => state # "INSTALLING"

\* An upload runs alone.
UploadAlone ==
  upload # "no" => asking # "install" /\ \A t \in Task : pc[t] = "none"

\* The session belongs to the one who is writing, who writes his own target.
SessionOwned ==
  kind # "none" =>
    /\ clean
    /\ \/ owner = Web /\ upload = kind
       \/ \E t \in Task : owner = t /\ pc[t] = "copy" /\ phase[t] = kind

\* A session of an upload in progress is its own.
UploadSession == upload \in Targets /\ kind # "none" => owner = Web

(***************************************************************************)
(* CommittedClean survives only because somebody is about to restart when  *)
(* the spare slot is chosen: an install that starts meanwhile writes the   *)
(* file system first and does not get further.                             *)
(***************************************************************************)
SpareWhole ==
  /\ boots = "spare" => Waiting /\ image["fw"] \in {"short", "new"}
  /\ Waiting => \A t \in Task : Active(t) => phase[t] = "fs"

OtaParts == OtaTypes /\ OneInstall /\ UploadAlone /\ SessionOwned /\ UploadSession /\ SpareWhole
OtaInv == Calm => OtaParts

USE DEF Images, Amounts

\* What a writer commits who was alone.
LEMMA WrittenAlone ==
  ASSUME clean, NEW w, owner = w, NEW amount \in Amounts \ {"few"}
  PROVE  Written(w, amount) \in {"short", "new"}
BY DEF Written

-----------------------------------------------------------------------------
(* Restarts.                                                                *)

\* After a reboot nothing of an update is left but the slots.
LEMMA ResetInv == ASSUME OtaTypes, OtaReset PROVE OtaParts'
<1>1. /\ pc' = [t \in Task |-> "none"] /\ phase' = [t \in Task |-> "fs"]
      /\ state' = "IDLE" /\ asking' = "no" /\ upload' = "no" /\ kind' = "none" /\ boots' = "old"
      /\ got' = [t \in Task |-> "few"]
    BY DEF OtaReset
<1>2. image' \in [Targets -> Images]
    BY DEF OtaReset, OtaTypes
<1> QED
    BY <1>1, <1>2 DEF OtaParts, OtaTypes, OneInstall, UploadAlone, SessionOwned, UploadSession,
                      SpareWhole, Waiting, Active, Targets

-----------------------------------------------------------------------------
(* The handlers.                                                            *)

\* A task that starts is the only one, or none does.
LEMMA SpawnInv ==
  ASSUME OtaParts, SpawnInstall, upload = "no", state # "INSTALLING", asking' = "no",
         UNCHANGED <<upload, update, mounted, otaEnv>>
  PROVE  OtaParts'
<1> USE DEF OtaParts
<1>1. \A t \in Task : ~Active(t)
    BY DEF OneInstall
<1>2. CASE state' = "ERROR" /\ UNCHANGED pull
    BY <1>1, <1>2 DEF pull, update, OtaTypes, OneInstall, UploadAlone, SessionOwned,
                      UploadSession, SpareWhole, Waiting, Active
<1>3. ASSUME NEW t \in Task, pc[t] = "none", state' = "INSTALLING",
             pc' = [pc EXCEPT ![t] = "get"], phase' = [phase EXCEPT ![t] = "fs"], UNCHANGED got
      PROVE  OtaParts'
    <2>1. \A s \in Task : pc'[s] = IF s = t THEN "get" ELSE pc[s]
        BY <1>3 DEF OtaTypes
    <2>2. \A s \in Task : phase'[s] = IF s = t THEN "fs" ELSE phase[s]
        BY <1>3 DEF OtaTypes
    <2>3. OtaTypes'
        BY <1>3 DEF OtaTypes, update, Targets
    <2>4. OneInstall' /\ UploadAlone'
        BY <1>1, <1>3, <2>1 DEF OneInstall, UploadAlone, Active, update
    <2>5. SessionOwned' /\ UploadSession'
        BY <1>3, <2>1, <2>2 DEF SessionOwned, UploadSession, update
    <2>6. SpareWhole'
        BY <1>1, <1>3, <2>1, <2>2 DEF SpareWhole, Waiting, Active, update
    <2> QED
        BY <2>3, <2>4, <2>5, <2>6
<1> QED
    BY <1>2, <1>3 DEF SpawnInstall

\* The handlers of the web page keep the invariant.
LEMMA HandlerInv ==
  ASSUME OtaParts, Calm, Check \/ Install \/ InstallChecks \/ Verdict PROVE OtaParts'
<1> USE DEF OtaParts
<1>1. CASE Check
    <2>1. ~Busy /\ state' = "CHECKING" /\ asking' = "check"
          /\ UNCHANGED <<pull, upload, update, mounted, otaEnv>>
        BY <1>1 DEF Check, Calm
    <2> QED
        BY <2>1 DEF Busy, pull, update, OtaTypes, OneInstall, UploadAlone, SessionOwned,
                    UploadSession, SpareWhole, Waiting, Active
<1>2. CASE Install
    <2>1. SpawnInstall /\ upload = "no" /\ state # "INSTALLING" /\ asking' = "no"
          /\ UNCHANGED <<upload, update, mounted, otaEnv>>
        BY <1>2 DEF Install, Asked, WebIdle, Calm
    <2> QED
        BY <2>1, SpawnInv
<1>3. CASE InstallChecks
    <2>1. asking' = "install" /\ upload = "no" /\ state # "INSTALLING"
          /\ UNCHANGED <<state, pull, upload, update, mounted, otaEnv>>
        BY <1>3 DEF InstallChecks, Asked, Calm
    <2> QED
        BY <2>1 DEF pull, update, OtaTypes, OneInstall, UploadAlone, SessionOwned,
                    UploadSession, SpareWhole, Waiting, Active
<1>4. CASE Verdict
    <2>1. asking # "no" /\ asking' = "no" /\ UNCHANGED <<upload, update, mounted, otaEnv>>
        BY <1>4 DEF Verdict
    <2>2. CASE UNCHANGED pull
        BY <2>1, <2>2 DEF pull, update, OtaTypes, OneInstall, UploadAlone, SessionOwned,
                          UploadSession, SpareWhole, Waiting, Active
    <2>3. CASE asking = "install" /\ SpawnInstall
        BY <2>1, <2>3, SpawnInv DEF OneInstall, UploadAlone
    <2> QED
        BY <1>4, <2>2, <2>3 DEF Verdict
<1> QED
    BY <1>1, <1>2, <1>3, <1>4

\* While an upload runs, the spare slot is not chosen.
LEMMA UploadFresh ==
  ASSUME OtaParts, upload # "restart", \A t \in Task : pc[t] = "none" PROVE boots = "old"
BY DEF OtaParts, OtaTypes, SpareWhole, Waiting

\* The chunks of an upload keep the invariant.
LEMMA UploadInv ==
  ASSUME OtaParts, Calm,
         \/ \E k \in Targets : UploadBegins(k)
         \/ UploadWrites \/ UploadEnds \/ UploadBreaksOff
  PROVE  OtaParts'
<1> USE DEF OtaParts
<1>1. ASSUME NEW k \in Targets, UploadBegins(k) PROVE OtaParts'
    <2>1. /\ asking = "no" /\ upload = "no" /\ upload' = k
          /\ UNCHANGED <<state, asking, pull, image, boots, otaEnv>>
        BY <1>1 DEF UploadBegins, WebIdle
    <2>2. \A t \in Task : pc[t] = "none"
        BY <1>1 DEF UploadBegins, Calm, Busy
    <2>3. kind = "none"
        BY <2>1, <2>2 DEF SessionOwned, OtaTypes, Targets
    <2>4. kind' = k /\ owner' = Web /\ clean' = TRUE
        BY <1>1, <2>3 DEF UploadBegins, CanBegin, Begin
    <2>5. boots = "old"
        BY <2>1, <2>2, UploadFresh
    <2> QED
        BY <2>1, <2>2, <2>4, <2>5
           DEF pull, OtaTypes, OneInstall, UploadAlone, SessionOwned, UploadSession, SpareWhole,
               Waiting, Active, Targets
<1>2. ASSUME upload \in Targets
      PROVE  boots = "old" /\ \A t \in Task : pc[t] = "none"
    BY <1>2, UploadFresh DEF UploadAlone, Targets
<1>3. CASE UploadWrites
    <2>1. /\ upload \in Targets /\ kind # "none"
          /\ clean' = (clean /\ owner = Web)
          /\ image' = [image EXCEPT ![kind] = "mixed"]
          /\ UNCHANGED <<state, asking, pull, upload, kind, owner, boots, otaEnv>>
        BY <1>3 DEF UploadWrites, Write
    <2> QED
        BY <1>2, <2>1
           DEF pull, OtaTypes, OneInstall, UploadAlone, SessionOwned, UploadSession, SpareWhole,
               Waiting, Active, Targets
<1>4. CASE UploadEnds
    <2>1. upload \in Targets /\ UNCHANGED <<state, asking, pull, otaEnv>>
        BY <1>4 DEF UploadEnds
    <2>2. CASE kind # "none" /\ Commit(Web, "all") /\ upload' = "restart"
        <3>1. clean /\ owner = Web
            BY <2>1, <2>2 DEF SessionOwned, UploadSession
        <3>2. /\ kind' = "none" /\ image' = [image EXCEPT ![kind] = "new"]
              /\ boots' = IF kind = "fw" THEN "spare" ELSE boots
            BY <2>2, <3>1 DEF Commit, Close, Written
        <3> QED
            BY <1>2, <2>1, <2>2, <3>2
               DEF pull, OtaTypes, OneInstall, UploadAlone, SessionOwned, UploadSession,
                   SpareWhole, Waiting, Active, Targets
    <2>3. CASE \/ kind # "none" /\ Abort /\ upload' = "no"
               \/ kind = "none" /\ UNCHANGED update /\ upload' = "restart"
        <3>1. kind' = "none" /\ UNCHANGED <<image, boots>> /\ upload' \in {"no", "restart"}
            BY <2>3 DEF Abort, Close, update
        <3> QED
            BY <1>2, <2>1, <3>1
               DEF pull, OtaTypes, OneInstall, UploadAlone, SessionOwned, UploadSession,
                   SpareWhole, Waiting, Active, Targets
    <2> QED
        BY <1>4, <2>2, <2>3 DEF UploadEnds
<1>5. CASE UploadBreaksOff
    BY <1>5 DEF UploadBreaksOff, Calm
<1> QED
    BY <1>1, <1>3, <1>4, <1>5

-----------------------------------------------------------------------------
(* An install task.                                                         *)

\* A task that is active has the session, if there is one.
LEMMA ActiveSession ==
  ASSUME OtaParts, NEW t \in Task, Active(t)
  PROVE  /\ upload = "no" /\ state = "INSTALLING" /\ asking = "no"
         /\ \A s \in Task : Active(s) => s = t
         /\ kind # "none" => clean /\ owner = t /\ kind = phase[t] /\ pc[t] = "copy"
<1>1. upload = "no"
    BY DEF OtaParts, UploadAlone, Active
<1>2. \A s \in Task : Active(s) => s = t
    BY DEF OtaParts, OneInstall
<1>3. kind # "none" => clean /\ owner = t /\ kind = phase[t] /\ pc[t] = "copy"
    BY <1>1, <1>2 DEF OtaParts, SessionOwned, Active, OtaTypes, Targets
<1> QED
    BY <1>1, <1>2, <1>3 DEF OtaParts, OneInstall

\* It gives up.
LEMMA GoneInv ==
  ASSUME OtaParts, NEW t \in Task, Active(t), pc' = [pc EXCEPT ![t] = "none"],
         state' = "ERROR", kind' = "none",
         UNCHANGED <<phase, got, asking, upload, image, boots, otaEnv>>
  PROVE  OtaParts'
<1>1. \A s \in Task : pc'[s] = IF s = t THEN "none" ELSE pc[s]
    BY DEF OtaParts, OtaTypes
<1>2. \A s \in Task : ~Active(s)'
    BY <1>1, ActiveSession DEF Active
<1>3. Waiting' <=> Waiting
    BY <1>1 DEF Waiting, Active
<1>4. OtaTypes' /\ OneInstall'
    BY <1>2, ActiveSession DEF OtaParts, OtaTypes, OneInstall
<1>5. UploadAlone' /\ SessionOwned' /\ UploadSession'
    BY ActiveSession DEF UploadAlone, SessionOwned, UploadSession
<1>6. SpareWhole'
    BY <1>2, <1>3 DEF OtaParts, SpareWhole
<1> QED
    BY <1>4, <1>5, <1>6 DEF OtaParts

\* The steps of the pull task keep the invariant.
LEMMA TaskInv ==
  ASSUME OtaParts, NEW t \in Task, TaskStep(t) \/ TaskWrites(t) \/ WriteFails(t)
  PROVE  OtaParts'
<1> USE DEF OtaParts
<1>1. CASE GetFails(t)
    <2>1. Active(t) /\ kind = "none"
        BY <1>1, ActiveSession DEF GetFails, Active
    <2> QED
        BY <1>1, <2>1, GoneInv DEF GetFails, Fails, Gone, update
<1>2. CASE BeginRefused(t)
    <2>1. Active(t) /\ kind # "none"
        BY <1>2 DEF BeginRefused, CanBegin, Active
    <2> QED
        BY <1>2, <2>1, ActiveSession DEF BeginRefused
<1>3. CASE Backstop(t) \/ CopyTruncated(t) \/ WriteFails(t)
    <2>1. Active(t) /\ Fails(t) /\ Abort
        BY <1>3 DEF Backstop, CopyTruncated, WriteFails, Active
    <2> QED
        BY <2>1, GoneInv DEF Fails, Gone, Abort, Close
<1>4. CASE TaskBegins(t)
    <2>1. /\ pc[t] = "get" /\ kind = "none" /\ pc' = [pc EXCEPT ![t] = "copy"]
          /\ kind' = phase[t] /\ owner' = t /\ clean' = TRUE
          /\ got' = [got EXCEPT ![t] = "few"]
          /\ UNCHANGED <<state, asking, phase, upload, image, boots, otaEnv>>
        BY <1>4 DEF TaskBegins, Begin, CanBegin
    <2>2. Active(t)
        BY <2>1 DEF Active
    <2>3. \A s \in Task : pc'[s] = IF s = t THEN "copy" ELSE pc[s]
        BY <2>1 DEF OtaTypes
    <2>4. (\A s \in Task : Active(s)' <=> Active(s)) /\ (Waiting' <=> Waiting)
        BY <2>1, <2>3 DEF Active, Waiting
    <2>5. OtaTypes'
        BY <2>1 DEF OtaTypes
    <2>6. OneInstall' /\ SpareWhole'
        BY <2>1, <2>4 DEF OneInstall, SpareWhole
    <2>7. UploadAlone' /\ SessionOwned' /\ UploadSession'
        BY <2>1, <2>2, <2>3, ActiveSession DEF UploadAlone, SessionOwned, UploadSession, Targets
    <2> QED
        BY <2>5, <2>6, <2>7
<1>5. CASE TaskWrites(t)
    <2>1. /\ pc[t] = "copy" /\ kind # "none"
          /\ clean' = (clean /\ owner = t) /\ image' = [image EXCEPT ![kind] = "mixed"]
          /\ \E amount \in Amounts : got' = [got EXCEPT ![t] = amount]
          /\ UNCHANGED <<kind, owner, boots, state, asking, pc, phase, upload, otaEnv>>
        BY <1>5 DEF TaskWrites, Write
    <2>2. Active(t)
        BY <2>1 DEF Active
    <2>3. clean /\ owner = t /\ kind = phase[t]
        BY <2>1, <2>2, ActiveSession
    <2>4. boots = "spare" => kind = "fs"
        BY <2>2, <2>3 DEF SpareWhole
    <2>5. OtaTypes'
        BY <2>1 DEF OtaTypes
    <2>6. OneInstall' /\ UploadAlone' /\ SessionOwned' /\ UploadSession'
        BY <2>1, <2>3 DEF OneInstall, UploadAlone, SessionOwned, UploadSession, Active
    <2>7. SpareWhole'
        BY <2>1, <2>4 DEF SpareWhole, Waiting, Active, OtaTypes, Targets
    <2> QED
        BY <2>5, <2>6, <2>7
<1>6. CASE CopyEnds(t)
    <2>1. /\ pc[t] = "copy" /\ kind # "none" /\ ~Waiting /\ Commit(t, got[t])
          /\ got[t] # "few"
          /\ UNCHANGED <<got, asking, upload, otaEnv>>
        BY <1>6 DEF CopyEnds
    <2>2. Active(t)
        BY <2>1 DEF Active
    <2>3. /\ upload = "no" /\ clean /\ owner = t /\ kind = phase[t]
          /\ \A s \in Task : Active(s) => s = t
        BY <2>1, <2>2, ActiveSession
    <2>4. /\ kind' = "none" /\ image' = [image EXCEPT ![kind] = Written(t, got[t])]
          /\ boots' = IF kind = "fw" THEN "spare" ELSE boots
          /\ Written(t, got[t]) \in {"short", "new"}
        BY <2>1, <2>3, WrittenAlone DEF Commit, Close, OtaTypes
    <2>5. boots = "old" /\ \A s \in Task : pc[s] # "done"
        BY <2>1 DEF SpareWhole, OtaTypes, Waiting
    <2>6. CASE phase[t] = "fs"
        <3>1. /\ pc' = [pc EXCEPT ![t] = "get"] /\ phase' = [phase EXCEPT ![t] = "fw"]
              /\ UNCHANGED state /\ boots' = "old"
            BY <1>6, <2>3, <2>4, <2>5, <2>6 DEF CopyEnds
        <3>2. \A s \in Task : pc'[s] = IF s = t THEN "get" ELSE pc[s]
            BY <3>1 DEF OtaTypes
        <3>3. OtaTypes'
            BY <2>1, <2>4, <3>1 DEF OtaTypes, Targets
        <3>4. (\A s \in Task : Active(s)' <=> Active(s)) /\ ~Waiting'
            BY <2>1, <2>3, <2>5, <3>2 DEF Active, Waiting
        <3>5. OneInstall' /\ SpareWhole'
            BY <2>1, <3>1, <3>4 DEF OneInstall, SpareWhole
        <3>6. UploadAlone' /\ SessionOwned' /\ UploadSession'
            BY <2>1, <2>3, <2>4 DEF UploadAlone, SessionOwned, UploadSession, Targets
        <3> QED
            BY <3>3, <3>5, <3>6
    <2>7. CASE phase[t] = "fw"
        <3>1. /\ pc' = [pc EXCEPT ![t] = "done"] /\ UNCHANGED phase
              /\ boots' = "spare" /\ image'["fw"] \in {"short", "new"}
            BY <1>6, <2>3, <2>4, <2>7 DEF CopyEnds, OtaTypes, Targets
        <3>2. \A s \in Task : pc'[s] = IF s = t THEN "done" ELSE pc[s]
            BY <3>1 DEF OtaTypes
        <3>3. OtaTypes'
            BY <2>1, <2>4, <3>1 DEF OtaTypes, Targets
        <3>4. (\A s \in Task : ~Active(s)') /\ Waiting'
            BY <2>3, <3>2 DEF Active, Waiting
        <3>5. OneInstall' /\ SpareWhole'
            <4>1. asking' # "install"
                BY <2>1, <2>2, ActiveSession
            <4> QED
                BY <3>1, <3>4, <4>1 DEF OneInstall, SpareWhole
        <3>6. UploadAlone' /\ SessionOwned' /\ UploadSession'
            BY <2>1, <2>3, <2>4 DEF UploadAlone, SessionOwned, UploadSession, Targets
        <3> QED
            BY <3>3, <3>5, <3>6
    <2> QED
        BY <2>6, <2>7 DEF OtaTypes, Targets
<1>7. CASE TaskRestarts(t)
    BY <1>7, ResetInv DEF TaskRestarts
<1> QED
    BY <1>1, <1>2, <1>3, <1>4, <1>5, <1>6, <1>7 DEF TaskStep

\* Every step keeps the invariant.
LEMMA OtaStep == OtaInv /\ [OtaNext]_ota => OtaInv'
<1> SUFFICES ASSUME OtaInv, [OtaNext]_ota, Calm' PROVE OtaParts'
    BY DEF OtaInv
<1>1. CASE UNCHANGED ota
    BY <1>1 DEF ota, pull, update, OtaInv, Calm, OtaParts, OtaTypes, OneInstall, UploadAlone,
                SessionOwned, UploadSession, SpareWhole, Waiting, Active
<1>2. ASSUME OtaNext PROVE UNCHANGED otaEnv
    BY <1>2 DEF OtaNext, Check, Install, InstallChecks, Verdict, UploadBegins, UploadWrites,
       UploadEnds, UploadRestarts, UploadBreaksOff, TaskStep, TaskWrites, WriteFails, GetFails,
       BeginRefused, TaskBegins, Backstop, CopyTruncated, CopyEnds, TaskRestarts, OtaPowerLoss,
       OtaReset, Fails
<1>3. CASE OtaNext
    <2>1. Calm /\ OtaParts
        BY <1>2, <1>3 DEF OtaInv, Calm
    <2> QED
        BY <1>3, <2>1, HandlerInv, UploadInv, TaskInv, ResetInv
           DEF OtaNext, UploadRestarts, OtaPowerLoss, OtaParts
<1> QED
    BY <1>1, <1>3

\* For any number of tasks, with writes that fail, links that stall, power lost at any point and
\* a user who installs again before the restart: a chosen spare slot holds the image of one
\* writer, nine tenths of it at least (ota_pull.cpp:163-171 and 392-406).
THEOREM CommittedTheorem == OtaSpec => []CommittedClean
<1>1. OtaInit => OtaInv
    BY DEF OtaInit, OtaInv, OtaParts, OtaTypes, OneInstall, UploadAlone, SessionOwned,
           UploadSession, SpareWhole, Waiting, Active, Targets
<1>2. OtaInv => CommittedClean
    BY DEF OtaInv, OtaParts, SpareWhole, CommittedClean, Alone, Calm
<1> QED
    BY <1>1, <1>2, OtaStep, PTL DEF OtaSpec

\* What is committed at all.
LEMMA WrittenImage ==
  ASSUME clean \in BOOLEAN, NEW w \in Task \cup {Web}, NEW amount \in Amounts
  PROVE  Written(w, amount) \in Images
BY DEF Written

\* What the calls of the Update library leave behind.
LEMMA UpdateTypes ==
  ASSUME OtaTypeOK, NEW w \in Task \cup {Web}, NEW k \in Targets
  PROVE  /\ Begin(w, k) => kind' \in Targets /\ owner' \in Task \cup {Web} /\ clean' \in BOOLEAN
         /\ kind # "none" /\ Write(w) => image' \in [Targets -> Images]
                                         /\ clean' \in BOOLEAN
         /\ Close => kind' = "none" /\ owner' = "nobody" /\ clean' \in BOOLEAN
         /\ \A amount \in Amounts : kind # "none" /\ Commit(w, amount) =>
              /\ image' \in [Targets -> Images] /\ boots' \in {"old", "spare"}
              /\ kind' = "none" /\ owner' = "nobody" /\ clean' \in BOOLEAN
<1> USE DEF OtaTypeOK
<1>1. clean \in BOOLEAN
    OBVIOUS
<1>2. (clean /\ owner = w) \in BOOLEAN
    OBVIOUS
<1>3. Begin(w, k) => kind' \in Targets /\ owner' \in Task \cup {Web} /\ clean' \in BOOLEAN
    BY DEF Begin
<1>4. kind # "none" /\ Write(w) => image' \in [Targets -> Images]
                                   /\ clean' \in BOOLEAN
    BY <1>2 DEF Write
<1>5. Close => kind' = "none" /\ owner' = "nobody" /\ clean' \in BOOLEAN
    BY DEF Close
<1>6. ASSUME NEW amount \in Amounts, kind # "none", Commit(w, amount)
      PROVE  /\ image' \in [Targets -> Images] /\ boots' \in {"old", "spare"}
             /\ kind' = "none" /\ owner' = "nobody" /\ clean' \in BOOLEAN
    BY <1>5, <1>6, WrittenImage DEF Commit
<1> QED
    BY <1>3, <1>4, <1>5, <1>6

\* A restart.
LEMMA OtaTypesReset == ASSUME OtaTypeOK, OtaReset PROVE OtaTypeOK'
<1>1. image' \in [Targets -> Images]
    BY DEF OtaReset, OtaTypeOK
<1>2. /\ pc' \in [Task -> {"none", "get", "copy", "done"}] /\ phase' \in [Task -> Targets]
      /\ got' \in [Task -> Amounts] /\ drips' \in [Task -> BOOLEAN]
    BY DEF OtaReset, Targets
<1> QED
    BY <1>1, <1>2 DEF OtaReset, OtaTypeOK

\* A task that is spawned, or is not.
LEMMA OtaTypesSpawn ==
  ASSUME OtaTypeOK, SpawnInstall
  PROVE  /\ state' \in {"INSTALLING", "ERROR"}
         /\ pc' \in [Task -> {"none", "get", "copy", "done"}] /\ phase' \in [Task -> Targets]
         /\ got' \in [Task -> Amounts] /\ drips' \in [Task -> BOOLEAN]
<1> USE DEF OtaTypeOK
<1>1. CASE state' = "ERROR" /\ UNCHANGED pull
    BY <1>1 DEF pull
<1>2. ASSUME NEW t \in Task, state' = "INSTALLING",
             pc' = [pc EXCEPT ![t] = "get"], phase' = [phase EXCEPT ![t] = "fs"],
             \E b \in BOOLEAN : drips' = [drips EXCEPT ![t] = b], UNCHANGED got
      PROVE  /\ state' \in {"INSTALLING", "ERROR"}
             /\ pc' \in [Task -> {"none", "get", "copy", "done"}] /\ phase' \in [Task -> Targets]
             /\ got' \in [Task -> Amounts] /\ drips' \in [Task -> BOOLEAN]
    BY <1>2 DEF Targets
<1> QED
    BY <1>1, <1>2 DEF SpawnInstall

\* The handlers of the web page, in every environment.
LEMMA OtaTypesHandlers ==
  ASSUME OtaTypeOK, Check \/ Install \/ InstallChecks \/ Verdict PROVE OtaTypeOK'
<1> USE DEF OtaTypeOK
<1>1. CASE Check
    BY <1>1 DEF Check, pull, update
<1>2. CASE Install
    BY <1>2, OtaTypesSpawn DEF Install, update
<1>3. CASE InstallChecks
    BY <1>3 DEF InstallChecks, pull, update
<1>4. CASE Verdict
  <2>1. /\ state' \in {"IDLE", "CHECKING", "AVAILABLE", "INSTALLING", "DONE", "ERROR"}
        /\ pc' \in [Task -> {"none", "get", "copy", "done"}] /\ phase' \in [Task -> Targets]
        /\ got' \in [Task -> Amounts] /\ drips' \in [Task -> BOOLEAN]
      BY <1>4, OtaTypesSpawn DEF Verdict, pull
  <2> QED
      BY <1>4, <2>1 DEF Verdict, update
<1> QED
    BY <1>1, <1>2, <1>3, <1>4

\* An upload, alone or not.
LEMMA OtaTypesUpload ==
  ASSUME OtaTypeOK,
         (\E k \in Targets : UploadBegins(k)) \/ UploadWrites \/ UploadEnds \/ UploadRestarts
           \/ UploadBreaksOff
  PROVE  OtaTypeOK'
<1> USE DEF OtaTypeOK
<1>1. ASSUME NEW k \in Targets, UploadBegins(k) PROVE OtaTypeOK'
  <2>1. kind' \in Targets \cup {"none"} /\ owner' \in Task \cup {Web, "nobody"} /\ clean' \in BOOLEAN
      BY <1>1 DEF UploadBegins, Begin
  <2>2. mounted' \in BOOLEAN
      BY <1>1 DEF UploadBegins
  <2> QED
      BY <1>1, <2>1, <2>2 DEF UploadBegins, pull
<1>2. CASE UploadWrites
  <2>1. image' \in [Targets -> Images] /\ clean' \in BOOLEAN
      BY <1>2, UpdateTypes DEF UploadWrites, Targets
  <2> QED
      BY <1>2, <2>1 DEF UploadWrites, Write, pull
<1>3. CASE UploadEnds
  <2>1. /\ image' \in [Targets -> Images] /\ boots' \in {"old", "spare"}
        /\ kind' \in Targets \cup {"none"} /\ owner' \in Task \cup {Web, "nobody"}
        /\ clean' \in BOOLEAN
    <3>1. CASE kind # "none" /\ Commit(Web, "all")
        BY <3>1, UpdateTypes DEF Targets
    <3>2. CASE kind # "none" /\ Abort
        BY <3>2 DEF Abort, Close
    <3>3. CASE UNCHANGED update
        BY <3>3 DEF update
    <3> QED
        BY <1>3, <3>1, <3>2, <3>3 DEF UploadEnds
  <2> QED
      BY <1>3, <2>1 DEF UploadEnds, pull
<1>4. CASE UploadRestarts
    BY <1>4, OtaTypesReset DEF UploadRestarts
<1>5. CASE UploadBreaksOff
    BY <1>5 DEF UploadBreaksOff, pull
<1> QED
    BY <1>1, <1>2, <1>3, <1>4, <1>5

\* The install tasks, one or several.
LEMMA OtaTypesTask ==
  ASSUME OtaTypeOK, NEW t \in Task, TaskStep(t) \/ TaskWrites(t) \/ WriteFails(t)
  PROVE  OtaTypeOK'
<1> USE DEF OtaTypeOK
<1>1. CASE GetFails(t)
    BY <1>1 DEF GetFails, Fails, Gone, update
<1>2. CASE BeginRefused(t)
  <2>1. mounted' \in BOOLEAN
      BY <1>2 DEF BeginRefused, Unmounts
  <2> QED
      BY <1>2, <2>1 DEF BeginRefused, Gone, update
<1>3. CASE TaskBegins(t)
  <2>1. mounted' \in BOOLEAN
      BY <1>3 DEF TaskBegins, Unmounts
  <2>2. kind' \in Targets /\ owner' \in Task \cup {Web} /\ clean' \in BOOLEAN
      BY <1>3 DEF TaskBegins, Begin
  <2>3. /\ pc' \in [Task -> {"none", "get", "copy", "done"}] /\ got' \in [Task -> Amounts]
      BY <1>3 DEF TaskBegins
  <2> QED
      BY <1>3, <2>1, <2>2, <2>3 DEF TaskBegins
<1>4. CASE Backstop(t) \/ CopyTruncated(t) \/ WriteFails(t)
  <2>1. Fails(t) /\ Abort
      BY <1>4 DEF Backstop, CopyTruncated, WriteFails
  <2> QED
      BY <2>1 DEF Fails, Gone, Abort, Close
<1>5. CASE CopyEnds(t)
  <2>1. /\ image' \in [Targets -> Images] /\ boots' \in {"old", "spare"}
        /\ kind' = "none" /\ owner' = "nobody" /\ clean' \in BOOLEAN
      BY <1>5, UpdateTypes DEF CopyEnds, Targets
  <2>2. /\ pc' \in [Task -> {"none", "get", "copy", "done"}] /\ phase' \in [Task -> Targets]
        /\ state' \in {"IDLE", "CHECKING", "AVAILABLE", "INSTALLING", "DONE", "ERROR"}
    <3>1. CASE phase[t] = "fs"
        BY <1>5, <3>1 DEF CopyEnds, Targets
    <3>2. CASE phase[t] # "fs"
        BY <1>5, <3>2 DEF CopyEnds
    <3> QED
        BY <3>1, <3>2
  <2> QED
      BY <1>5, <2>1, <2>2 DEF CopyEnds
<1>6. CASE TaskRestarts(t)
    BY <1>6, OtaTypesReset DEF TaskRestarts
<1>7. CASE TaskWrites(t)
  <2>1. image' \in [Targets -> Images] /\ clean' \in BOOLEAN
      BY <1>7, UpdateTypes DEF TaskWrites, Targets
  <2>2. got' \in [Task -> Amounts]
      BY <1>7 DEF TaskWrites
  <2> QED
      BY <1>7, <2>1, <2>2 DEF TaskWrites, Write
<1> QED
    BY <1>1, <1>2, <1>3, <1>4, <1>5, <1>6, <1>7 DEF TaskStep

\* Every step.
LEMMA OtaTypesStep == OtaTypeOK /\ [OtaNext]_ota => OtaTypeOK'
<1>1. OtaTypeOK /\ UNCHANGED ota => OtaTypeOK'
    BY DEF OtaTypeOK, ota, pull, update
<1> QED
    BY <1>1, OtaTypesHandlers, OtaTypesUpload, OtaTypesTask, OtaTypesReset
       DEF OtaNext, OtaPowerLoss

\* The update's status, tasks, session and slots stay in their ranges in every environment, those
\* included in which two pulls and an upload share the session (ota_pull.cpp).
THEOREM OtaTypesTheorem == OtaSpec => []OtaTypeOK
<1>1. OtaInit => OtaTypeOK
    BY DEF OtaInit, OtaTypeOK, Targets
<1> QED
    BY <1>1, OtaTypesStep, PTL DEF OtaSpec

-----------------------------------------------------------------------------
(* The watchdog and its clock.                                              *)

HealthSpec == HealthInit /\ [][HealthNext]_health

\* The sign of a difference decides a remainder.
LEMMA Remainder ==
  ASSUME NEW W \in Nat, W > 0, NEW q \in Int, NEW r \in 0..W-1, NEW x \in Int, x = W * q + r
  PROVE  x % W = r
<1> DEFINE p == x \div W
           s == x % W
<1>1. p \in Int /\ s \in 0..W-1 /\ x = W * p + s
    OBVIOUS
<1> HIDE DEF p, s
<1>2. W * (q - p) = s - r
    BY <1>1
<1>3. ASSUME q > p PROVE FALSE
  <2>1. W * (q - p) >= W * 1
      BY <1>1, <1>3
  <2> QED
      BY <2>1, <1>1, <1>2
<1>4. ASSUME q < p PROVE FALSE
  <2>1. W * (p - q) >= W * 1
      BY <1>1, <1>4
  <2> QED
      BY <2>1, <1>1, <1>2
<1> QED
    BY <1>1, <1>2, <1>3, <1>4 DEF s

\* Remainders of numbers less than a word away.
LEMMA Words ==
  ASSUME NEW x \in Int
  PROVE  /\ x \in 0..Word-1 => x % Word = x
         /\ x \in Word..2*Word-1 => x % Word = x - Word
         /\ x \in (-Word)..(-1) => x % Word = x + Word
<1>1. Word \in Nat /\ Word > 0
    BY HealthAssumption
<1>2. x \in 0..Word-1 => x % Word = x
    BY <1>1
<1>3. ASSUME x \in Word..2*Word-1 PROVE x % Word = x - Word
  <2>1. x - Word \in 0..Word-1 /\ x = Word * 1 + (x - Word)
      BY <1>1, <1>3
  <2> QED
      BY <2>1, <1>1, Remainder
<1>4. ASSUME x \in (-Word)..(-1) PROVE x % Word = x + Word
  <2>1. x + Word \in 0..Word-1 /\ x = Word * (-1) + (x + Word)
      BY <1>1, <1>4
  <2> QED
      BY <2>1, <1>1, Remainder
<1> QED
    BY <1>2, <1>3, <1>4

\* What a sum of two words leaves.
LEMMA WithinTwo ==
  ASSUME NEW x \in 0..2*Word-1
  PROVE  x % Word \in 0..Word-1 /\ (x % Word = x \/ x % Word = x - Word)
<1>1. Word \in Nat /\ Word > 0
    BY HealthAssumption
<1>2. x \in Int
    BY <1>1
<1>3. CASE x \in 0..Word-1
  <2>1. x % Word = x
      BY <1>2, <1>3, Words
  <2> QED
      BY <1>3, <2>1
<1>4. CASE x \in Word..2*Word-1
  <2>1. x % Word = x - Word
      BY <1>2, <1>4, Words
  <2>2. x - Word \in 0..Word-1
      BY <1>1, <1>4
  <2> QED
      BY <2>1, <2>2
<1> QED
    BY <1>1, <1>3, <1>4

\* The clock takes a step of the counter for what it is, and a jump for none.
LEMMA StepSeen ==
  ASSUME NEW d \in 1..MaxTick, NEW j \in Jumps
  PROVE  Plausible((d + j) % Word) = IF j = 0 THEN d ELSE 0
<1> USE HealthAssumption
<1>1. d \in Int /\ j \in Int /\ d \in 0..Word-1 /\ d < Word - d
    OBVIOUS
<1>2. 2 * (Word \div 2) <= Word /\ Word <= 2 * (Word \div 2) + 1 /\ Word \div 2 \in Nat
    OBVIOUS
<1>3. CASE j = 0
  <2>1. (d + j) % Word = d
      BY <1>1, <1>3, Words
  <2>2. d < Word \div 2
      BY <1>2
  <2> QED
      BY <1>3, <2>1, <2>2 DEF Plausible, Signed
<1>4. CASE j # 0
  <2> DEFINE x == (d + j) % Word
  <2>1. d + j = j + d
      BY <1>1
  <2>2. x \in MaxStep + 1 .. Word - 1
      BY <1>4, <2>1
  <2> HIDE DEF x
  <2>3. Signed(x) \notin 0..MaxStep
      BY <1>2, <2>2 DEF Signed
  <2> QED
      BY <1>4, <2>3 DEF Plausible, x
<1> QED
    BY <1>3, <1>4

(***************************************************************************)
(* A trouble is noted at clock time s and has really lasted a: at least    *)
(* what the clock says, and without a jump at most a tick more, because a  *)
(* trouble first seen at time 0 counts from the next tick.                 *)
(***************************************************************************)
Watch(s, a, now, jd) ==
  /\ s \in 0..Word-1 /\ a \in -1..Limit + 2 * MaxTick
  /\ s # 0 => /\ Since(s, now) \in 0..Limit /\ Since(s, now) <= a
              /\ ~jd => a <= Since(s, now) + MaxTick
  /\ s = 0 /\ a # -1 => now = 0 /\ (~jd => a = 0)

HealthInv ==
  /\ mono \in 0..Word-1 /\ everUp \in BOOLEAN /\ jumped \in BOOLEAN
  /\ disc \in 0..MaxCount /\ restarts \in 0..MaxCount /\ lasted \in -1..Limit + 2 * MaxTick
  /\ Watch(downSince, down, mono, jumped) /\ Watch(lowSince, low, mono, jumped)
  /\ RestartJustified

\* A watch through a tick that finds the trouble still there.
LEMMA WatchTick ==
  ASSUME NEW m \in 0..Word-1, NEW s, NEW a, NEW jd \in BOOLEAN, Watch(s, a, m, jd),
         NEW d \in 1..MaxTick, NEW jump \in BOOLEAN,
         NEW now, now = (m + (IF jump THEN 0 ELSE d)) % Word
  PROVE  /\ now \in 0..Word-1
         /\ Since(Armed(s, now), now) > Limit =>
              Ages(a, d) > Limit /\ Ages(a, d) \in -1..Limit + 2 * MaxTick
         /\ ~(Since(Armed(s, now), now) > Limit) =>
              Watch(Armed(s, now), Ages(a, d), now, jd \/ jump)
<1> USE HealthAssumption
<1> DEFINE step == IF jump THEN 0 ELSE d
<1>0. step \in 0..MaxStep /\ Word > 0 /\ MaxStep < Word
    OBVIOUS
<1>1. now \in 0..Word-1 /\ (now = m + step \/ now = m + step - Word)
  <2>1. m + step \in 0..2*Word-1
      BY <1>0
  <2>2. now = (m + step) % Word
      OBVIOUS
  <2> DEFINE x == m + step
  <2>3. x \in 0..2*Word-1 /\ now = x % Word
      BY <2>1, <2>2
  <2> HIDE DEF x
  <2>4. now \in 0..Word-1 /\ (now = x \/ now = x - Word)
      BY <2>3, WithinTwo
  <2> QED
      BY <2>4 DEF x
<1>2. /\ a \in -1..Limit + 2 * MaxTick
      /\ Ages(a, d) \in 0..Limit + 2 * MaxTick
      /\ a # -1 => Ages(a, d) >= a
    BY DEF Watch, Ages
<1>3. Since(now, now) = 0
  <2>1. now - now = 0
      BY <1>1
  <2> QED
      BY <2>1, <1>0, Words DEF Since
<1>4. CASE s = 0
  <2>1. Armed(s, now) = now
      BY <1>4 DEF Armed
  <2>2. ~(Since(Armed(s, now), now) > Limit)
      BY <2>1, <1>3
  <2>3. CASE a = -1
    <3>1. Ages(a, d) = 0
        BY <2>3 DEF Ages
    <3> QED
        BY <1>1, <1>3, <2>1, <2>2, <3>1 DEF Watch
  <2>4. CASE a # -1
    <3>1. m = 0 /\ (~jd => a = 0)
        BY <1>4, <2>4 DEF Watch
    <3>2. now = step
        BY <3>1, <1>0, <1>1
    <3>3. now = 0 => jump
        BY <3>2
    <3>4. ~(jd \/ jump) => Ages(a, d) = d
        BY <3>1 DEF Ages
    <3> QED
        BY <1>1, <1>2, <1>3, <2>1, <2>2, <3>3, <3>4 DEF Watch
  <2> QED
      BY <2>3, <2>4
<1>5. CASE s # 0
  <2>1. /\ s \in 0..Word-1 /\ Armed(s, now) = s
        /\ Since(s, m) \in 0..Limit /\ Since(s, m) <= a /\ a # -1
        /\ ~jd => a <= Since(s, m) + MaxTick
      BY <1>5 DEF Watch, Armed
  <2>2. m - s = Since(s, m) \/ m - s = Since(s, m) - Word
    <3>1. m - s \in Int /\ (m - s \in 0..Word-1 \/ m - s \in (-Word)..(-1))
        BY <2>1
    <3> QED
        BY <3>1, <2>1, Words DEF Since
  <2>3. Since(s, now) = Since(s, m) + step
    <3> DEFINE t == Since(s, m) + step
    <3>1. t \in 0..Word-1
        BY <1>0, <2>1
    <3>2. /\ now - s \in Int
          /\ now - s = t \/ now - s = t - Word \/ now - s = t - 2 * Word
        BY <1>0, <1>1, <2>1, <2>2
    <3>3. now - s > -Word /\ now - s < Word
        BY <1>1, <2>1
    <3> HIDE DEF t
    <3>4. \/ now - s \in 0..Word-1 /\ now - s = t
          \/ now - s \in (-Word)..(-1) /\ now - s = t - Word
        BY <3>1, <3>2, <3>3
    <3>5. (now - s) % Word = t
        BY <3>1, <3>2, <3>4, Words
    <3> QED
        BY <3>5 DEF t, Since
  <2>4. Ages(a, d) > Limit \/ Ages(a, d) = a + d
      BY <1>2, <2>1 DEF Ages
  <2>5. ~(jd \/ jump) => step = d /\ Ages(a, d) = a + d
    <3>1. ~jd => ~(a < 0) /\ ~(a > Limit + MaxTick)
        BY <1>2, <2>1
    <3> QED
        BY <3>1 DEF Ages
  <2>6. step <= d /\ step \in Nat
      OBVIOUS
  <2> HIDE DEF step
  <2>7. Since(s, now) > Limit => Ages(a, d) > Limit
      BY <1>2, <2>1, <2>3, <2>4, <2>6
  <2>8. ASSUME ~(Since(s, now) > Limit)
        PROVE  /\ Since(s, now) \in 0..Limit /\ Since(s, now) <= Ages(a, d)
               /\ ~(jd \/ jump) => Ages(a, d) <= Since(s, now) + MaxTick
      BY <1>2, <2>1, <2>3, <2>4, <2>5, <2>6, <2>8
  <2> QED
      BY <1>1, <1>2, <1>5, <2>1, <2>7, <2>8 DEF Watch
<1> QED
    BY <1>4, <1>5

\* Power on.
LEMMA HealthStart == HealthInit => HealthInv
<1> SUFFICES ASSUME HealthInit PROVE HealthInv
    OBVIOUS
<1>1. {Word, MaxStep, MaxTick, Limit, MaxCount} \subseteq Nat /\ MaxStep < Word /\ 0 < Word
    BY HealthAssumption
<1>2. mono \in 0..Word-1
    BY <1>1 DEF HealthInit
<1>3. Watch(0, -1, mono, FALSE)
    BY <1>1 DEF Watch
<1>4. /\ 0 \in 0..MaxCount /\ -1 \in -1..Limit + 2 * MaxTick
      /\ disc = 0 /\ restarts = 0 /\ lasted = -1 /\ everUp = FALSE /\ jumped = FALSE
    BY <1>1 DEF HealthInit
<1>5. Watch(downSince, down, mono, jumped) /\ Watch(lowSince, low, mono, jumped)
    BY <1>3 DEF HealthInit
<1> QED
    BY <1>2, <1>4, <1>5 DEF HealthInv, RestartJustified

\* Every tick.
LEMMA HealthStep == HealthInv /\ [HealthNext]_health => HealthInv'
<1> SUFFICES ASSUME HealthInv, [HealthNext]_health PROVE HealthInv'
    OBVIOUS
<1> USE HealthAssumption
<1>1. ASSUME disc < MaxCount, restarts < MaxCount,
             NEW d \in 1..MaxTick, NEW j \in Jumps, NEW wifi \in BOOLEAN, NEW heap \in BOOLEAN,
             Tick(d, j, wifi, heap)
      PROVE  HealthInv'
    <2> DEFINE now == (mono + Plausible((d + j) % Word)) % Word
               ds == Armed(downSince, now)
               ls == Armed(lowSince, now)
               wifiOver == ~wifi /\ Since(ds, now) > Limit
               heapOver == ~heap /\ Since(ls, now) > Limit
    <2>0. PICK jump \in BOOLEAN : jump <=> j # 0
        OBVIOUS
    <2>1. now = (mono + (IF jump THEN 0 ELSE d)) % Word
        BY <2>0, StepSeen
    <2>2. /\ mono \in 0..Word-1 /\ jumped \in BOOLEAN
          /\ Watch(downSince, down, mono, jumped) /\ Watch(lowSince, low, mono, jumped)
          /\ everUp \in BOOLEAN /\ lasted \in -1..Limit + 2 * MaxTick
          /\ disc \in 0..MaxCount /\ restarts \in 0..MaxCount /\ RestartJustified
        BY DEF HealthInv
    <2> HIDE DEF now
    <2>3. /\ now \in 0..Word-1
          /\ wifiOver => Ages(down, d) > Limit /\ Ages(down, d) \in -1..Limit + 2 * MaxTick
          /\ ~wifi /\ ~wifiOver => Watch(ds, Ages(down, d), now, jumped \/ jump)
        BY <2>1, <2>2, WatchTick
    <2>4. /\ heapOver => Ages(low, d) > Limit /\ Ages(low, d) \in -1..Limit + 2 * MaxTick
          /\ ~heap /\ ~heapOver => Watch(ls, Ages(low, d), now, jumped \/ jump)
        BY <2>1, <2>2, WatchTick
    <2>5. disc' \in 0..MaxCount
        BY <1>1, <2>2 DEF Tick
    <2>6. \A n \in 0..Word-1, jd \in BOOLEAN : Watch(0, -1, n, jd)
        BY DEF Watch
    <2>7. CASE wifiOver \/ heapOver
      <3>1. /\ restarts' = restarts + 1
            /\ lasted' = IF wifiOver THEN Ages(down, d) ELSE Ages(low, d)
            /\ mono' \in 1..MaxStep /\ downSince' = 0 /\ lowSince' = 0 /\ everUp' = FALSE
            /\ down' = -1 /\ low' = -1 /\ jumped' = FALSE
          BY <1>1, <2>7 DEF Tick, now
      <3>2. mono' \in 0..Word-1
          BY <3>1
      <3>3. lasted' \in -1..Limit + 2 * MaxTick /\ lasted' > Limit
          BY <2>3, <2>4, <2>7, <3>1
      <3>4. restarts' \in 0..MaxCount
          BY <1>1, <2>2, <3>1
      <3>5. Watch(downSince', down', mono', jumped') /\ Watch(lowSince', low', mono', jumped')
          BY <2>6, <3>1, <3>2
      <3> QED
          BY <2>5, <3>1, <3>2, <3>3, <3>4, <3>5 DEF HealthInv, RestartJustified
    <2>8. CASE ~(wifiOver \/ heapOver)
      <3>1. /\ mono' = now /\ everUp' = (everUp \/ wifi)
            /\ downSince' = (IF wifi THEN 0 ELSE ds) /\ lowSince' = (IF heap THEN 0 ELSE ls)
            /\ down' = (IF wifi THEN -1 ELSE Ages(down, d))
            /\ low' = (IF heap THEN -1 ELSE Ages(low, d))
            /\ jumped' = ((~wifi \/ ~heap) /\ (jumped \/ jump))
            /\ UNCHANGED <<restarts, lasted>>
          BY <1>1, <2>0, <2>8 DEF Tick, now
      <3>2. everUp' \in BOOLEAN /\ jumped' \in BOOLEAN
          BY <2>2, <3>1
      <3> HIDE DEF ds, ls, wifiOver, heapOver
      <3>3. Watch(downSince', down', mono', jumped')
        <4>1. CASE wifi
            BY <2>3, <2>6, <3>1, <3>2, <4>1
        <4>2. CASE ~wifi
            BY <2>3, <2>8, <3>1, <4>2, Zenon
        <4> QED
            BY <4>1, <4>2
      <3>4. Watch(lowSince', low', mono', jumped')
        <4>1. CASE heap
            BY <2>3, <2>6, <3>1, <3>2, <4>1
        <4>2. CASE ~heap
            BY <2>4, <2>8, <3>1, <4>2, Zenon
        <4> QED
            BY <4>1, <4>2
      <3> QED
          BY <2>2, <2>3, <2>5, <3>1, <3>2, <3>3, <3>4 DEF HealthInv, RestartJustified
    <2> QED
        BY <2>7, <2>8
<1>2. CASE UNCHANGED health
    BY <1>2 DEF health, HealthInv, Watch, RestartJustified, Since
<1> QED
    BY <1>1, <1>2 DEF HealthNext

\* For any limits and any width of a word, and for every jump of the clock that is not
\* taken for a step: the watchdog never restarts the stick before the trouble has really
\* lasted (mono_clock.h:21-24).
THEOREM JustifiedTheorem == HealthSpec => []RestartJustified
<1>1. HealthInv => RestartJustified
    BY DEF HealthInv
<1> QED
    BY <1>1, HealthStart, HealthStep, PTL DEF HealthSpec

\* And it restarts in time if the clock did not jump (system_health.cpp, healthTick).
THEOREM TimelyTheorem == HealthSpec => []RestartTimely
<1>1. HealthInv => RestartTimely
    BY HealthAssumption DEF HealthInv, Watch, RestartTimely
<1> QED
    BY <1>1, HealthStart, HealthStep, PTL DEF HealthSpec

\* Every variable of the watchdog keeps its type (HealthTypeOK).
THEOREM HealthTypesTheorem == HealthSpec => []HealthTypeOK
<1>1. HealthInv => HealthTypeOK
    BY DEF HealthInv, Watch, HealthTypeOK
<1> QED
    BY <1>1, HealthStart, HealthStep, PTL DEF HealthSpec

-----------------------------------------------------------------------------
(* The way into a network.                                                  *)

\* A component of MCStick rests in the second of these.
ProvStart == ProvInit \/ (stage = "up" /\ creds = NoNet /\ ProvFresh)
ProvSpec == ProvStart /\ [][ProvNext]_prov

Attempts == [state : {"Connecting", "Success", "Failed"}, net : Net]

\* Types, with the network of an attempt in progress.
ProvTypes ==
  /\ stage \in {"off", "nvs", "exclusive", "portal", "settling", "settled", "up"}
  /\ creds \in Net \cup {NoNet} /\ link \in Net \cup {NoNet}
  /\ dialling \in Net \cup {NoNet} /\ session \in Net \cup {NoNet}
  /\ chatter \subseteq Port /\ claim \in Port \cup {NoPort}
  /\ improv \in BOOLEAN /\ portal \in BOOLEAN /\ begun \in BOOLEAN
  /\ visitor \in BOOLEAN /\ capped \in BOOLEAN /\ grace \in BOOLEAN
  /\ save = Idle \/ save \in Attempts
  /\ ~begun => save \in Attempts

(***************************************************************************)
(* AttemptNotCutOff speaks of the step that closes the portal.  That the   *)
(* grace closes it under no attempt is because a link was dialled for, and *)
(* nobody starts an attempt while a network is dialled.                    *)
(***************************************************************************)
GraceSettled ==
  /\ link # NoNet => dialling # NoNet
  /\ stage = "off" => dialling = NoNet /\ ~portal /\ begun
  /\ grace => /\ dialling # NoNet /\ session = NoNet /\ ~Connecting
              /\ stage \in {"portal", "settling", "settled", "up"}

ProvInv == ProvTypes /\ (ProvEnv = {} => GraceSettled)

\* Every reset and every first boot.
LEMMA ProvStarts == ProvStart => ProvInv
BY DEF ProvStart, ProvInit, ProvFresh, ProvInv, ProvTypes, GraceSettled, Idle, Connecting

\* How an attempt goes on.
LEMMA SaveTypes ==
  ASSUME save = Idle \/ save \in Attempts
  PROVE  /\ Connecting => save \in Attempts /\ save.net \in Net
         /\ Connecting => [save EXCEPT !.state = "Success"] \in Attempts
         /\ Connecting => [save EXCEPT !.state = "Failed"] \in Attempts
         /\ \A n \in Net : [state |-> "Connecting", net |-> n] \in Attempts
         /\ save \in Attempts => save.net \in Net
         /\ [save EXCEPT !.state = "Success"].state # "Connecting"
         /\ [save EXCEPT !.state = "Failed"].state # "Connecting"
BY DEF Idle, Attempts, Connecting

\* The types alone.
LEMMA ProvTypesStep == ProvTypes /\ [ProvNext]_prov => ProvTypes'
<1> SUFFICES ASSUME ProvTypes, [ProvNext]_prov PROVE ProvTypes'
    OBVIOUS
<1> USE DEF ProvTypes, ProvReset, Dial, HangUp, CloseImprov, GoUp, ClosePortal, CloseIfCapped,
            PortalTick, radio, serial, http
<1>0. /\ Connecting => save \in Attempts
      /\ Connecting => [save EXCEPT !.state = "Success"] \in Attempts /\ save.net \in Net
      /\ Connecting => [save EXCEPT !.state = "Failed"] \in Attempts
      /\ \A n \in Net : [state |-> "Connecting", net |-> n] \in Attempts
      /\ ~begun => save.net \in Net
    BY SaveTypes
<1>1. CASE PowerOn \/ NvsConnects \/ NvsTimesOut \/ ExclusiveConnects \/ OpenPortal
    BY <1>1 DEF PowerOn, NvsConnects, NvsTimesOut, ExclusiveConnects, OpenPortal
<1>2. CASE ImprovConnected \/ ImprovFails
    BY <1>2 DEF ImprovConnected, ImprovFails
<1>3. CASE SaveConnects
  <2>1. Connecting /\ save' \in Attempts /\ creds' \in Net
      BY <1>3, <1>0 DEF SaveConnects
  <2> QED
      BY <1>3, <2>1 DEF SaveConnects
<1>4. CASE SaveTimesOut
  <2>1. Connecting /\ save' \in Attempts
      BY <1>4, <1>0 DEF SaveTimesOut
  <2> QED
      BY <1>4, <2>1 DEF SaveTimesOut
<1>5. CASE GraceStarts \/ PortalEnds \/ RestartConnected \/ NotConnected \/ RestartUnprovisioned
           \/ LinkCameBack
    BY <1>5 DEF GraceStarts, PortalEnds, RestartConnected, NotConnected, RestartUnprovisioned,
                LinkCameBack
<1>6. CASE ImprovIdle \/ ImprovWall \/ PortalIdle \/ PortalCapped \/ HardCap
    BY <1>6 DEF ImprovIdle, ImprovWall, PortalIdle, PortalCapped, HardCap
<1>7. CASE Associate \/ LoseLink \/ Visitor
  <2>1. CASE Associate
    <3>1. dialling \in Net
        BY <2>1, ProvisioningAssumption DEF Associate
    <3> QED
        BY <2>1, <3>1 DEF Associate
  <2>2. CASE LoseLink
      BY <2>2 DEF LoseLink
  <2>3. CASE Visitor
      BY <2>3 DEF Visitor
  <2> QED
      BY <1>7, <2>1, <2>2, <2>3
<1>8. CASE SubmitDials
    BY <1>8, <1>0 DEF SubmitDials
<1>9. ASSUME NEW p \in Port, Chatter(p) \/ Claim(p) PROVE ProvTypes'
    BY <1>9 DEF Chatter, Claim
<1>10. ASSUME NEW n \in Net, ImprovDial(n) PROVE ProvTypes'
    BY <1>10 DEF ImprovDial
<1>11. ASSUME NEW n \in Net, Submit(n) PROVE ProvTypes'
  <2>1. save' \in Attempts
      BY <1>11, <1>0 DEF Submit
  <2> QED
      BY <1>11, <2>1 DEF Submit
<1>12. CASE PowerLoss \/ FactoryReset
    BY <1>12 DEF PowerLoss, FactoryReset
<1>13. CASE UNCHANGED prov
    BY <1>13 DEF prov
<1> QED
    BY <1>1, <1>2, <1>3, <1>4, <1>5, <1>6, <1>7, <1>8, <1>9, <1>10, <1>11, <1>12, <1>13
    DEF ProvNext, ProvTask

\* What is said of the grace.
LEMMA GraceStep == ASSUME ProvTypes, ProvEnv = {}, GraceSettled, [ProvNext]_prov PROVE GraceSettled'
<1> USE ProvisioningAssumption
        DEF ProvTypes, GraceSettled, ProvReset, Dial, HangUp, CloseImprov, GoUp, ClosePortal,
            CloseIfCapped, PortalTick, radio, serial, http, Connecting, Connected, Idle
<1>1. CASE PowerOn \/ NvsConnects \/ ExclusiveConnects \/ OpenPortal
    BY <1>1 DEF PowerOn, NvsConnects, ExclusiveConnects, OpenPortal
<1>2. CASE NvsTimesOut
    BY <1>2 DEF NvsTimesOut
<1>3. CASE ImprovConnected \/ ImprovFails
    BY <1>3 DEF ImprovConnected, ImprovFails, Running
<1>4. CASE SaveConnects \/ SaveTimesOut
    BY <1>4 DEF SaveConnects, SaveTimesOut, Running
<1>5. CASE GraceStarts \/ PortalEnds \/ RestartConnected \/ NotConnected \/ RestartUnprovisioned
           \/ LinkCameBack
    BY <1>5 DEF GraceStarts, PortalEnds, RestartConnected, NotConnected, RestartUnprovisioned,
                LinkCameBack, Running
<1>6. CASE ImprovIdle \/ ImprovWall \/ PortalIdle \/ PortalCapped \/ HardCap \/ Associate \/ LoseLink
           \/ Visitor
    BY <1>6 DEF ImprovIdle, ImprovWall, PortalIdle, PortalCapped, HardCap, Associate, LoseLink, Visitor
<1>7. CASE SubmitDials
  <2>1. save.net \in Net
      BY <1>7, SaveTypes DEF SubmitDials
  <2> QED
      BY <1>7, <2>1 DEF SubmitDials
<1>8. CASE \E p \in Port : Chatter(p) \/ Claim(p)
    BY <1>8 DEF Chatter, Claim
<1>9. CASE \E n \in Net : ImprovDial(n) \/ Submit(n)
    BY <1>9 DEF ImprovDial, Submit, MayTry, Free, Pumped
<1>10. CASE PowerLoss \/ FactoryReset
    BY <1>10 DEF PowerLoss, FactoryReset
<1>11. CASE UNCHANGED prov
    BY <1>11 DEF prov
<1> QED
    BY <1>1, <1>2, <1>3, <1>4, <1>5, <1>6, <1>7, <1>8, <1>9, <1>10, <1>11 DEF ProvNext, ProvTask

\* Both.
LEMMA ProvStep == ProvInv /\ [ProvNext]_prov => ProvInv'
BY ProvTypesStep, GraceStep DEF ProvInv

\* The step that closes the portal and is no reset.
LEMMA NotCutOff ==
  ASSUME ProvInv, ProvEnv = {}, [ProvNext]_prov, portal, ~portal', stage' # "off"
  PROVE  save'.state # "Connecting"
<1> USE DEF CloseImprov, GoUp, CloseIfCapped, PortalTick, radio, serial, http
<1>0. /\ [save EXCEPT !.state = "Success"].state # "Connecting"
      /\ [save EXCEPT !.state = "Failed"].state # "Connecting"
    BY SaveTypes DEF ProvInv, ProvTypes
<1>1. CASE SaveConnects \/ SaveTimesOut
    BY <1>0, <1>1 DEF SaveConnects, SaveTimesOut
<1>2. CASE PortalEnds
    BY <1>2 DEF PortalEnds, ProvInv, GraceSettled, Connecting
<1>3. CASE PortalIdle \/ PortalCapped
    BY <1>3 DEF PortalIdle, PortalCapped, Expiring, Connecting
<1>4. ~(RestartConnected \/ RestartUnprovisioned \/ PowerLoss \/ FactoryReset)
    BY DEF RestartConnected, RestartUnprovisioned, PowerLoss, FactoryReset, ProvReset
<1>5. ~(PowerOn \/ NvsConnects \/ NvsTimesOut \/ ExclusiveConnects \/ OpenPortal)
    BY DEF PowerOn, NvsConnects, NvsTimesOut, ExclusiveConnects, OpenPortal
<1>6. ~(ImprovConnected \/ ImprovFails \/ GraceStarts \/ NotConnected \/ LinkCameBack)
    BY DEF ImprovConnected, ImprovFails, GraceStarts, NotConnected, LinkCameBack
<1>7. ~(ImprovIdle \/ ImprovWall \/ HardCap \/ SubmitDials \/ Associate \/ LoseLink \/ Visitor)
    BY DEF ImprovIdle, ImprovWall, HardCap, SubmitDials, Associate, LoseLink, Visitor
<1>8. ~(\E p \in Port : Chatter(p) \/ Claim(p))
    BY DEF Chatter, Claim
<1>9. ~(\E n \in Net : ImprovDial(n) \/ Submit(n))
    BY DEF ImprovDial, Submit
<1>10. ~(UNCHANGED prov)
    BY DEF prov
<1> QED
    BY <1>1, <1>2, <1>3, <1>4, <1>5, <1>6, <1>7, <1>8, <1>9, <1>10 DEF ProvNext, ProvTask

\* The portal of a stick that is tried with one network at a time is never
\* closed under an attempt that still waits: AttemptNotCutOff
\* (wifi_provisioning.cpp and captive_portal.cpp, the windows).
THEOREM AttemptTheorem == ProvEnv = {} /\ ProvSpec => AttemptNotCutOff
<1>1. ProvInv /\ ProvEnv = {} /\ [ProvNext]_prov
      => [portal /\ ~portal' /\ stage' # "off" => save'.state # "Connecting"]_prov
    BY NotCutOff
<1>2. ProvSpec => []ProvInv
    BY ProvStarts, ProvStep, PTL DEF ProvSpec
<1>3. ProvEnv = {} => [](ProvEnv = {})
    OBVIOUS
<1> QED
    BY <1>1, <1>2, <1>3, PTL DEF ProvSpec, AttemptNotCutOff

\* Every variable of the way in keeps its type (ProvTypeOK).
THEOREM ProvTypesTheorem == ProvSpec => []ProvTypeOK
<1>1. ProvInv => ProvTypeOK
    BY DEF ProvInv, ProvTypes, ProvTypeOK, Saves, Attempts
<1> QED
    BY <1>1, ProvStarts, ProvStep, PTL DEF ProvSpec
=============================================================================
