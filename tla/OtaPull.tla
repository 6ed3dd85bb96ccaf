------------------------------ MODULE OtaPull ------------------------------
(***************************************************************************)
(* The update of firmware and file system (ota_pull.cpp, the upload        *)
(* handlers of api_endpoints.cpp).  Checks, installs and uploads arrive in *)
(* the one task of the web server; every install spawns a task that pulls  *)
(* the file system, then the firmware, and restarts.  All of them share    *)
(* the one session of the Update library, which is modelled from its use.  *)
(***************************************************************************)
EXTENDS Naturals

CONSTANTS
  Task,     \* the install tasks that may be spawned between two resets
  Web,      \* the writer of an upload
  OtaEnvs   \* the sets of things the user may do, one for every behaviour

\* "recheck":  the user checks for updates while an install runs
\* "late":     the user installs again in the two seconds before the restart
\* "upload":   an upload and an install overlap
\* "breakOff": an upload breaks off
PossibleOtaEnv == { "recheck", "late", "upload", "breakOff" }

ASSUME OtaAssumption == Web \notin Task /\ OtaEnvs \subseteq SUBSET PossibleOtaEnv

VARIABLES
  state,    \* g_status.state
  asking,   \* the handler inside doCheck_(): "no", "check" or "install"
  pc,       \* of every task
  phase,    \* of every task: "fs" or "fw"
  got,      \* of every task: "few" of the announced bytes are written, nine tenths ("most"), or "all"
  drips,    \* of every task: its link is alive for ever and never done
  upload,   \* the image the web server is receiving, "no", or "restart"
  kind,     \* the running Update session: its target, or "none"
  owner,    \* who has begun it, "nobody" if that one is gone
  clean,    \* only its owner has written into it
  image,    \* what "fs" and "fw" (the spare slot) hold: see Images
  boots,    \* "old" or "spare": the slot of the next boot
  mounted,  \* LittleFS
  otaEnv    \* what the user does in this behaviour

pull == <<pc, phase, got, drips>>
update == <<kind, owner, clean, image, boots>>
ota == <<state, asking, pull, upload, update, mounted, otaEnv>>

Targets == {"fs", "fw"}
Amounts == {"few", "most", "all"}
\* The last two are of one writer, and end too early or are whole.
Images == {"old", "mixed", "short", "new"}
Busy == \E t \in Task : pc[t] # "none"

OtaInit ==
  /\ state = "IDLE" /\ asking = "no"
  /\ pc = [t \in Task |-> "none"] /\ phase = [t \in Task |-> "fs"]
  /\ got = [t \in Task |-> "few"] /\ drips = [t \in Task |-> FALSE]
  /\ upload = "no" /\ kind = "none" /\ owner = "nobody" /\ clean = TRUE
  /\ image = [x \in Targets |-> "old"] /\ boots = "old" /\ mounted = TRUE
  /\ otaEnv \in OtaEnvs

\* A restart.  A booted spare slot becomes the running one.
OtaReset ==
  /\ state' = "IDLE" /\ asking' = "no"
  /\ pc' = [t \in Task |-> "none"] /\ phase' = [t \in Task |-> "fs"]
  /\ got' = [t \in Task |-> "few"] /\ drips' = [t \in Task |-> FALSE]
  /\ upload' = "no" /\ kind' = "none" /\ owner' = "nobody" /\ clean' = TRUE
  /\ image' = IF boots = "spare" THEN [image EXCEPT !["fw"] = "old"] ELSE image
  /\ boots' = "old" /\ mounted' = TRUE
  /\ UNCHANGED otaEnv

OtaPowerLoss == Busy /\ OtaReset

-----------------------------------------------------------------------------
(* The Update library (external).                                           *)

\* begin() refuses while a session runs.
CanBegin == kind = "none"
Begin(w, k) == kind' = k /\ owner' = w /\ clean' = TRUE

\* write() by w: sectors are erased and written as the data arrive.
Write(w) ==
  /\ clean' = (clean /\ owner = w)
  /\ image' = [image EXCEPT ![kind] = "mixed"]
  /\ UNCHANGED <<kind, owner, boots>>

\* abort() closes the session whoever opened it.
Close == kind' = "none" /\ owner' = "nobody" /\ clean' = TRUE
Abort == Close /\ UNCHANGED <<image, boots>>

\* end(true) by w takes what has been written for the image.
Written(w, amount) ==
  CASE ~clean \/ owner # w \/ amount = "few" -> "mixed"
    [] clean /\ owner = w /\ amount = "most" -> "short"
    [] clean /\ owner = w /\ amount = "all" -> "new"
Commit(w, amount) ==
  /\ Close
  /\ image' = [image EXCEPT ![kind] = Written(w, amount)]
  /\ boots' = IF kind = "fw" THEN "spare" ELSE boots

-----------------------------------------------------------------------------
(* The handlers.  The web server has one task: none of them overlap.        *)

WebIdle == asking = "no" /\ upload # "restart"

\* spawnInstallTask_
SpawnInstall ==
  \/ \E t \in Task :
       /\ pc[t] = "none"
       /\ state' = "INSTALLING"
       /\ pc' = [pc EXCEPT ![t] = "get"] /\ phase' = [phase EXCEPT ![t] = "fs"]
       /\ \E b \in BOOLEAN : drips' = [drips EXCEPT ![t] = b]
       /\ UNCHANGED got
  \/ state' = "ERROR" /\ UNCHANGED pull                  \* xTaskCreate fails

Asked ==
  /\ WebIdle
  /\ state = "DONE" => "late" \in otaEnv
  /\ upload # "no" => "upload" \in otaEnv

\* checkOnline, whatever runs.
Check ==
  /\ WebIdle /\ (Busy => "recheck" \in otaEnv)
  /\ state' = "CHECKING" /\ asking' = "check"
  /\ UNCHANGED <<pull, upload, update, mounted, otaEnv>>

\* installOnlineForceAsync, and installOnlineAsync with a fresh verdict.
Install ==
  /\ Asked /\ state # "INSTALLING"
  /\ SpawnInstall
  /\ UNCHANGED <<asking, upload, update, mounted, otaEnv>>

\* installOnlineAsync without one checks first.
InstallChecks ==
  /\ Asked /\ state \notin {"INSTALLING", "AVAILABLE"}
  /\ asking' = "install"
  /\ UNCHANGED <<state, pull, upload, update, mounted, otaEnv>>

\* doCheck_, and what its caller does with the verdict.
Verdict ==
  /\ asking # "no" /\ asking' = "no"
  /\ \/ state' \in {"IDLE", "ERROR"} /\ UNCHANGED pull
     \/ asking = "check" /\ state' = "AVAILABLE" /\ UNCHANGED pull
     \/ asking = "install" /\ SpawnInstall
  /\ UNCHANGED <<upload, update, mounted, otaEnv>>

\* handleOtaUpload and handleOtaFsUpload; a begin() or write() that fails is
\* only logged.
UploadBegins(k) ==
  /\ WebIdle /\ upload = "no" /\ (Busy => "upload" \in otaEnv)
  /\ upload' = k /\ mounted' = (mounted /\ k # "fs")
  /\ IF CanBegin THEN Begin(Web, k) ELSE UNCHANGED <<kind, owner, clean>>
  /\ UNCHANGED <<state, asking, pull, image, boots, otaEnv>>

UploadWrites ==
  /\ WebIdle /\ upload \in Targets /\ kind # "none"
  /\ Write(Web)
  /\ UNCHANGED <<state, asking, pull, upload, mounted, otaEnv>>

\* The last part is written, then handleOtaFinalize restarts unless the
\* library has an error; to end no session is none.
UploadEnds ==
  /\ WebIdle /\ upload \in Targets
  /\ \/ kind # "none" /\ Commit(Web, "all") /\ upload' = "restart"
     \/ kind # "none" /\ Abort /\ upload' = "no"
     \/ kind = "none" /\ UNCHANGED update /\ upload' = "restart"
  /\ UNCHANGED <<state, asking, pull, mounted, otaEnv>>

UploadRestarts == upload = "restart" /\ OtaReset

\* The client goes away: nobody closes the session.
UploadBreaksOff ==
  /\ WebIdle /\ upload \in Targets /\ "breakOff" \in otaEnv
  /\ upload' = "no" /\ owner' = IF owner = Web THEN "nobody" ELSE owner
  /\ UNCHANGED <<state, asking, pull, kind, clean, image, boots, mounted, otaEnv>>

-----------------------------------------------------------------------------
(* installTask_ with pullAndFlashOne_.                                      *)

Gone(t) == pc' = [pc EXCEPT ![t] = "none"] /\ UNCHANGED <<phase, drips>>
Fails(t) ==
  /\ Gone(t) /\ state' = "ERROR" /\ UNCHANGED <<got, asking, upload, mounted, otaEnv>>

\* No answer, no length, or an image too large for its partition.
GetFails(t) == pc[t] = "get" /\ Fails(t) /\ UNCHANGED update

\* LittleFS is unmounted before begin(), also if begin() then fails.
Unmounts(t) == mounted' = (mounted /\ phase[t] # "fs")

BeginRefused(t) ==
  /\ pc[t] = "get" /\ ~CanBegin
  /\ Gone(t) /\ state' = "ERROR" /\ Unmounts(t)
  /\ UNCHANGED <<got, asking, upload, update, otaEnv>>

TaskBegins(t) ==
  /\ pc[t] = "get" /\ CanBegin
  /\ Begin(t, phase[t])
  /\ pc' = [pc EXCEPT ![t] = "copy"] /\ got' = [got EXCEPT ![t] = "few"]
  /\ Unmounts(t)
  /\ UNCHANGED <<state, asking, phase, drips, upload, image, boots, otaEnv>>

TaskWrites(t) ==
  /\ pc[t] = "copy" /\ kind # "none"
  /\ Write(t)
  /\ got[t] # "all"
  /\ \E amount \in Amounts \ (IF got[t] = "most" THEN {"few"} ELSE {}) :
       got' = [got EXCEPT ![t] = amount]
  /\ UNCHANGED <<state, asking, pc, phase, drips, upload, mounted, otaEnv>>

\* write() fails: the flash does, or somebody has closed the session.
WriteFails(t) == pc[t] = "copy" /\ Fails(t) /\ Abort

\* Mutation of Backstop: only a link that is idle ends the copy.
BackstopIdleOnly(t) == pc[t] = "copy" /\ ~drips[t] /\ Fails(t) /\ Abort
\* The time allowed for the phase is over.
Backstop(t) == pc[t] = "copy" /\ Fails(t) /\ Abort

\* The connection is closed or idle for 30 s with less than nine tenths.
CopyTruncated(t) == pc[t] = "copy" /\ ~drips[t] /\ got[t] = "few" /\ Fails(t) /\ Abort

\* A phase takes longer than the two seconds to a restart.
Waiting == upload = "restart" \/ \E t \in Task : pc[t] = "done"

\* Mutation of CopyEnds: what has arrived is committed.
CopyEndsAnyhow(t) ==
  /\ pc[t] = "copy" /\ ~drips[t] /\ ~Waiting
  /\ IF kind = "none" THEN UNCHANGED update ELSE Commit(t, got[t])
  /\ IF phase[t] = "fs"
     THEN /\ pc' = [pc EXCEPT ![t] = "get"] /\ phase' = [phase EXCEPT ![t] = "fw"]
          /\ UNCHANGED state
     ELSE pc' = [pc EXCEPT ![t] = "done"] /\ state' = "DONE" /\ UNCHANGED phase
  /\ UNCHANGED <<got, drips, asking, upload, mounted, otaEnv>>

\* With more, be it all or not: end(true), and the next phase.
CopyEnds(t) ==
  /\ pc[t] = "copy" /\ ~drips[t] /\ got[t] # "few" /\ kind # "none" /\ ~Waiting
  /\ Commit(t, got[t])
  /\ IF phase[t] = "fs"
     THEN /\ pc' = [pc EXCEPT ![t] = "get"] /\ phase' = [phase EXCEPT ![t] = "fw"]
          /\ UNCHANGED state
     ELSE pc' = [pc EXCEPT ![t] = "done"] /\ state' = "DONE" /\ UNCHANGED phase
  /\ UNCHANGED <<got, drips, asking, upload, mounted, otaEnv>>

\* Two seconds after the last phase.
TaskRestarts(t) == pc[t] = "done" /\ OtaReset

TaskStep(t) ==
  \/ GetFails(t) \/ BeginRefused(t) \/ TaskBegins(t) \/ Backstop(t)
  \/ CopyTruncated(t) \/ CopyEnds(t) \/ TaskRestarts(t)

OtaNext ==
  \/ Check \/ Install \/ InstallChecks \/ Verdict
  \/ \E k \in Targets : UploadBegins(k)
  \/ UploadWrites \/ UploadEnds \/ UploadRestarts \/ UploadBreaksOff
  \/ \E t \in Task : TaskStep(t) \/ TaskWrites(t) \/ WriteFails(t)
  \/ OtaPowerLoss

-----------------------------------------------------------------------------
(* Properties.                                                              *)

OtaTypeOK ==
  /\ state \in {"IDLE", "CHECKING", "AVAILABLE", "INSTALLING", "DONE", "ERROR"}
  /\ asking \in {"no", "check", "install"}
  /\ pc \in [Task -> {"none", "get", "copy", "done"}]
  /\ phase \in [Task -> Targets] /\ got \in [Task -> Amounts] /\ drips \in [Task -> BOOLEAN]
  /\ upload \in Targets \cup {"no", "restart"}
  /\ kind \in Targets \cup {"none"} /\ owner \in Task \cup {Web, "nobody"}
  /\ image \in [Targets -> Images] /\ boots \in {"old", "spare"}
  /\ {clean, mounted} \subseteq BOOLEAN /\ otaEnv \in OtaEnvs

\* Uploads keep out of the way, and the user does not check for updates during an
\* install, which lets a second pull start.
Alone == otaEnv \subseteq {"late"}

\* The slot of the next boot holds one whole image (ota_pull.cpp:392-396, "damit wir NICHT
\* auf eine truncated Image-Partition umschalten").
CommittedWhole == boots = "spare" /\ Alone => image["fw"] = "new"

\* It holds the image of one writer only, nine tenths of it at least, also while a task
\* waits to restart and the user installs again.  The last tenth is not asked for: a download
\* that breaks off there is committed (ota_pull.cpp:397-406) and CommittedWhole fails.
CommittedClean == boots = "spare" /\ Alone => image["fw"] \in {"short", "new"}

\* INSTALLING does not last for ever, however slowly the link drips.
InstallEnds == state = "INSTALLING" ~> state # "INSTALLING"

\* Every task runs; every wait on its link has a limit.
OtaFairness == \A t \in Task : WF_ota(TaskStep(t))
=============================================================================
