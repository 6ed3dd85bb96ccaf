------------------------------- MODULE NvsAB -------------------------------
(***************************************************************************)
(* One base key of the firmware's A/B-slot store (nvs_helper.cpp).  A      *)
(* document lives in one of two blobs, "<key>" (slot 0) and "<key>~"       *)
(* (slot 1); a generation number per slot says which one is current.  A    *)
(* save writes the other slot, reads it back, commits its generation and   *)
(* only then drops the old slot; a failed save is repeated twice after     *)
(* caches were purged.  Every flash operation is a step of its own, each   *)
(* may fail, and power may be lost between any two of them.                *)
(***************************************************************************)
EXTENDS Naturals

CONSTANTS
  Value,     \* documents (equal documents have equal bytes)
  NoVal,     \* the key does not exist
  Bad,       \* a blob that is present and cannot be read or parsed
  Idle,      \* no call is running
  Faults,    \* which of PossibleFaults the environment may show
  MaxGen     \* bound: no call starts once a generation has reached it

PossibleFaults ==
  { "unreadable",  \* an aborted or misreported write leaves a Bad blob
    "noremove",    \* removing an entry fails and is ignored
    "cutSave",     \* power is lost inside a save
    "cutErase",    \* power is lost inside an erase
    "erase" }      \* no fault: the key's owner may delete it

ASSUME NvsABAssumption ==
  /\ NoVal \notin Value /\ Bad \notin Value /\ Idle \notin Value
  /\ NoVal # Bad /\ Idle # NoVal /\ Idle # Bad
  /\ Faults \subseteq PossibleFaults
  /\ MaxGen \in Nat

VARIABLES
  blob,      \* slot -> what the blob entry holds
  gen,       \* slot -> generation entry, 0 when it does not exist
  legacy,    \* document in the old STRING entry under "<key>", or NoVal
  pc,        \* next flash operation of the running call, or "idle"
  op,        \* document being saved, NoVal while erasing, Idle between calls
  attempt,   \* which try of nvsSaveJsonWithCleanup runs
  tgt,       \* slot the running try writes
  newGen,    \* generation it will commit
  settled,   \* history: what the last finished call left for a reboot
  result     \* history: what that call reported

flash == <<blob, gen, legacy>>
vars == <<blob, gen, legacy, pc, op, attempt, tgt, newGen, settled, result>>

Slots == {0, 1}
Other(s) == 1 - s
Attempts == 1..3

\* A blob without a generation entry counts as generation 1.
EffGen(s) == IF gen[s] = 0 /\ blob[s] # NoVal THEN 1 ELSE gen[s]

\* Mutation of Active: of two equal generations the second slot wins.
ActiveTie == IF EffGen(0) > EffGen(1) THEN 0 ELSE 1

Active == IF EffGen(0) >= EffGen(1) THEN 0 ELSE 1
Spare == Other(Active)

\* Mutation of NextGen: no increment.
NextGenSame == IF EffGen(0) > EffGen(1) THEN EffGen(0) ELSE EffGen(1)

NextGen == (IF EffGen(0) > EffGen(1) THEN EffGen(0) ELSE EffGen(1)) + 1

(***************************************************************************)
(* What nvsLoadJson finds: the slot it prefers, else the other one, else   *)
(* Bad if a blob exists, else the STRING entry of old firmware.            *)
(***************************************************************************)
First == IF blob[1] # NoVal /\ EffGen(1) > EffGen(0) THEN 1 ELSE 0
Durable ==
  IF blob[First] \in Value THEN blob[First]
  ELSE IF blob[Other(First)] \in Value THEN blob[Other(First)]
  ELSE IF blob[0] = NoVal /\ blob[1] = NoVal THEN legacy
  ELSE Bad

Init ==
  /\ blob \in [Slots -> Value \cup {NoVal}] /\ blob[1] = NoVal
  /\ gen = [s \in Slots |-> 0]
  /\ legacy \in Value \cup {NoVal} /\ (blob[0] # NoVal => legacy = NoVal)
  /\ pc = "idle" /\ op = Idle /\ attempt = 1 /\ tgt = 0 /\ newGen = 0
  /\ settled = Durable
  /\ result = "none"

-----------------------------------------------------------------------------
(* One flash operation of a save, and how a call ends.                      *)

\* Removing slot s's blob entry; "<key>" is also the name of the STRING entry.
RemoveBlob(s) ==
  \/ /\ blob' = [blob EXCEPT ![s] = NoVal]
     /\ legacy' = IF s = 0 THEN NoVal ELSE legacy
  \/ "noremove" \in Faults /\ UNCHANGED <<blob, legacy>>

RemoveGen(s) ==
  \/ gen' = [gen EXCEPT ![s] = 0]
  \/ "noremove" \in Faults /\ UNCHANGED gen

Goto(next) == pc' = next /\ UNCHANGED <<op, attempt, settled, result>>

\* The call is over: record what a reboot would now find.
Finish(r) ==
  /\ pc' = "idle" /\ op' = Idle /\ attempt' = 1
  /\ result' = r
  /\ settled' = Durable'

\* A try failed: the caller purges caches and tries again, or gives up.
TryFails ==
  IF attempt < 3
    THEN pc' = "clear" /\ attempt' = attempt + 1 /\ UNCHANGED <<op, settled, result>>
    ELSE Finish("failed")

BeginSave(v) ==
  /\ pc = "idle" /\ EffGen(0) < MaxGen /\ EffGen(1) < MaxGen
  /\ pc' = "clear" /\ op' = v /\ result' = "none"
  /\ UNCHANGED <<flash, attempt, tgt, newGen, settled>>

\* The active slot already holds exactly this document.
SkipUnchanged ==
  /\ pc = "clear" /\ blob[Active] = op
  /\ UNCHANGED <<flash, tgt, newGen>>
  /\ Finish("ok")

\* Also taken when the comparison had no memory for the active blob.
ClearSpare ==
  /\ pc = "clear"
  /\ tgt' = Spare /\ newGen' = NextGen
  /\ RemoveBlob(Spare)
  /\ Goto("write")
  /\ UNCHANGED gen

WriteSpare ==
  /\ pc = "write"
  /\ blob' = [blob EXCEPT ![tgt] = op]
  /\ Goto("verify")
  /\ UNCHANGED <<gen, legacy, tgt, newGen>>

\* putBytes reports success, but the blob cannot be read.
WriteSpareMisreported ==
  /\ pc = "write" /\ "unreadable" \in Faults
  /\ blob' = [blob EXCEPT ![tgt] = Bad]
  /\ Goto("verify")
  /\ UNCHANGED <<gen, legacy, tgt, newGen>>

\* Refused by the space gate, or aborted half-way.
WriteSpareFails ==
  /\ pc = "write"
  /\ \/ UNCHANGED blob
     \/ blob' = [blob EXCEPT ![tgt] = NoVal]
     \/ "unreadable" \in Faults /\ blob' = [blob EXCEPT ![tgt] = Bad]
  /\ UNCHANGED <<gen, legacy, tgt, newGen>>
  /\ TryFails

\* Mutation of VerifySpare: the blob read back is not compared.
VerifySpareBlindly ==
  /\ pc = "verify"
  /\ Goto("commit")
  /\ UNCHANGED <<flash, tgt, newGen>>

VerifySpare ==
  /\ pc = "verify" /\ blob[tgt] = op
  /\ Goto("commit")
  /\ UNCHANGED <<flash, tgt, newGen>>

\* The read-back differs, or had no memory: the spare is dropped.
VerifySpareFails ==
  /\ pc = "verify"
  /\ RemoveBlob(tgt)
  /\ UNCHANGED <<gen, tgt, newGen>>
  /\ TryFails

CommitGen ==
  /\ pc = "commit"
  /\ gen' = [gen EXCEPT ![tgt] = newGen]
  /\ Goto("dropBlob")
  /\ UNCHANGED <<blob, legacy, tgt, newGen>>

CommitGenFails ==
  /\ pc = "commit"
  /\ RemoveBlob(tgt)
  /\ UNCHANGED <<gen, tgt, newGen>>
  /\ TryFails

\* Mutation of DropOldBlob: the slot just written is dropped.
DropNewBlob ==
  /\ pc = "dropBlob"
  /\ RemoveBlob(tgt)
  /\ Goto("dropGen")
  /\ UNCHANGED <<gen, tgt, newGen>>

DropOldBlob ==
  /\ pc = "dropBlob"
  /\ RemoveBlob(Other(tgt))
  /\ Goto("dropGen")
  /\ UNCHANGED <<gen, tgt, newGen>>

DropOldGen ==
  /\ pc = "dropGen"
  /\ RemoveGen(Other(tgt))
  /\ UNCHANGED <<blob, legacy, tgt, newGen>>
  /\ Finish("ok")

-----------------------------------------------------------------------------
(* Deleting the key: four entries, in this order.                           *)

BeginErase ==
  /\ pc = "idle" /\ "erase" \in Faults
  /\ pc' = "eraseBlob0" /\ op' = NoVal /\ result' = "none"
  /\ UNCHANGED <<flash, attempt, tgt, newGen, settled>>

EraseBlob(s) ==
  /\ pc = IF s = 0 THEN "eraseBlob0" ELSE "eraseBlob1"
  /\ RemoveBlob(s)
  /\ Goto(IF s = 0 THEN "eraseBlob1" ELSE "eraseGen0")
  /\ UNCHANGED <<gen, tgt, newGen>>

EraseGen0 ==
  /\ pc = "eraseGen0"
  /\ RemoveGen(0)
  /\ Goto("eraseGen1")
  /\ UNCHANGED <<blob, legacy, tgt, newGen>>

EraseGen1 ==
  /\ pc = "eraseGen1"
  /\ RemoveGen(1)
  /\ UNCHANGED <<blob, legacy, tgt, newGen>>
  /\ Finish("ok")

(***************************************************************************)
(* A boot: nvs_flash_init may drop blobs it finds inconsistent (the IDF's  *)
(* behaviour as the source describes it).                                  *)
(***************************************************************************)
FlashInit ==
  /\ \/ UNCHANGED blob
     \/ blob' = [s \in Slots |-> IF blob[s] = Bad THEN NoVal ELSE blob[s]]
  /\ UNCHANGED <<gen, legacy, tgt, newGen>>

\* Power is lost inside a call.
PowerLoss ==
  /\ pc # "idle"
  /\ IF op = NoVal THEN "cutErase" \in Faults ELSE "cutSave" \in Faults
  /\ FlashInit
  /\ Finish("cut")

\* A reboot between calls.
Reboot ==
  /\ pc = "idle"
  /\ FlashInit
  /\ Finish("none")

SaveStep ==
  \/ SkipUnchanged \/ ClearSpare
  \/ WriteSpare \/ WriteSpareMisreported \/ WriteSpareFails
  \/ VerifySpare \/ VerifySpareFails
  \/ CommitGen \/ CommitGenFails
  \/ DropOldBlob \/ DropOldGen

EraseStep == (\E s \in Slots : EraseBlob(s)) \/ EraseGen0 \/ EraseGen1

Next ==
  \/ \E v \in Value : BeginSave(v)
  \/ SaveStep
  \/ BeginErase
  \/ EraseStep
  \/ PowerLoss
  \/ Reboot

Spec == Init /\ [][Next]_vars

-----------------------------------------------------------------------------
(* Properties.                                                              *)

\* Every variable stays in its range, and no blob is Bad unless writes can leave one.
TypeOK ==
  /\ blob \in [Slots -> Value \cup {NoVal, Bad}]
  /\ "unreadable" \notin Faults => Bad \notin {blob[0], blob[1]}
  /\ gen \in [Slots -> Nat]
  /\ legacy \in Value \cup {NoVal}
  /\ pc \in { "idle", "clear", "write", "verify", "commit", "dropBlob", "dropGen",
              "eraseBlob0", "eraseBlob1", "eraseGen0", "eraseGen1" }
  /\ op \in Value \cup {NoVal, Idle}
  /\ attempt \in Attempts
  /\ tgt \in Slots
  /\ newGen \in Nat
  /\ settled \in Value \cup {NoVal, Bad}
  /\ result \in {"none", "ok", "failed", "cut"}

\* A save that ends, by success, failure or power loss, never leaves the key
\* without a readable document if there was one before (nvs_helper.h:43-44,
\* "vernichtet NIE den letzten guten Stand").
LastGoodKept == [][op # NoVal /\ settled \in Value => settled' \in Value]_vars

\* A save may clear its target slot at once: whenever a try starts, the document
\* a reboot would find does not live in the slot the try is about to clear
\* (nvs_helper.cpp:420-421, "der aktive Slot wird hier NIE angefasst").
SpareIsDisposable ==
  pc \in {"idle", "clear"} /\ Durable \in Value =>
    \/ blob[Active] = Durable
    \/ blob[0] = NoVal /\ blob[1] = NoVal /\ Spare = 1

\* A save reports success only if the next boot will load its document, even
\* when writes misreport or leave unreadable blobs (nvs_helper.cpp:427-429).
SaveOkMeansSaved == [][(op \in Value /\ result' = "ok") => settled' = op]_vars

\* The slots implement a cell that is replaced as a whole (module AtomicCell).
Cell == INSTANCE AtomicCell WITH durable <- Durable
ImplementsCell == Cell!Spec
=============================================================================
