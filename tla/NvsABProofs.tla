---------------------------- MODULE NvsABProofs ----------------------------
(***************************************************************************)
(* Proofs about NvsAB for any set of documents and any bound on the        *)
(* generations: under SafeFaults the two slots implement an atomic cell.   *)
(***************************************************************************)
EXTENDS NvsAB, TLAPS

(***************************************************************************)
(* Writes may be refused or abort (leaving nothing or the old entry), any  *)
(* read-back may fail, and either the owner never deletes the key, or no   *)
(* save is cut off and removals work.                                      *)
(***************************************************************************)
SafeFaults ==
  /\ "unreadable" \notin Faults
  /\ "erase" \in Faults => "noremove" \notin Faults /\ "cutSave" \notin Faults

Old == Other(tgt)
Empty == blob[0] = NoVal /\ blob[1] = NoVal
SaveOpen == {"clear", "write", "verify", "commit", "dropBlob", "dropGen"}
EraseOpen == {"eraseBlob0", "eraseBlob1", "eraseGen0", "eraseGen1"}

\* Clearing the spare slot cannot touch the current document.
Sound ==
  \/ blob[Active] \in Value
  \/ Empty /\ (legacy \in Value => Active = 0)

\* Without deletions, a store without blobs was never written.
EmptyIsFresh == "erase" \notin Faults /\ Empty => gen[0] = 0 /\ gen[1] = 0

\* Where keys are deleted, a document is stored once between two calls.
StoredOnce ==
  "erase" \in Faults =>
    /\ blob[0] = NoVal \/ blob[1] = NoVal
    /\ legacy = NoVal \/ Empty

\* The document left if the target slot were dropped, which the target's
\* generation entry then cannot hide.
Behind == IF blob[Old] \in Value THEN blob[Old] ELSE IF tgt = 1 THEN legacy ELSE NoVal
OldLeads == IF Old = 0 THEN EffGen(0) >= gen[1] ELSE EffGen(1) > gen[0]

\* A try is on its way and has not committed.
InTry ==
  pc \in {"write", "verify", "commit"} =>
    /\ Behind \in {settled, op}
    /\ OldLeads
    /\ newGen > EffGen(Old) /\ newGen > gen[tgt]
    /\ "erase" \notin Faults /\ blob[Old] = NoVal => gen[0] = 0 /\ gen[1] = 0
    /\ "erase" \in Faults =>
         /\ legacy = NoVal \/ blob[Old] = NoVal
         /\ tgt = 0 => legacy = NoVal

IInv ==
  /\ TypeOK
  /\ pc = "idle" => op = Idle /\ Durable = settled
  /\ pc # "idle" => result = "none"
  /\ pc \in SaveOpen => op \in Value /\ Durable \in {settled, op}
  /\ pc \in EraseOpen => op = NoVal /\ Durable \in {settled, op} /\ "erase" \in Faults
  /\ pc \in {"idle", "clear", "write"} \cup EraseOpen => Sound /\ EmptyIsFresh /\ StoredOnce
  /\ InTry
  /\ pc = "write" => Active = Old
  /\ pc \in {"verify", "commit"} => blob[tgt] = op
  /\ pc \in {"dropBlob", "dropGen"} =>
       /\ blob[tgt] = op /\ gen[tgt] > EffGen(Old)
       /\ "erase" \in Faults /\ tgt = 0 => legacy = NoVal
  /\ pc = "dropGen" => StoredOnce
  /\ pc = "eraseBlob1" => blob[0] = NoVal /\ legacy = NoVal
  /\ pc \in {"eraseGen0", "eraseGen1"} => Empty /\ legacy = NoVal

-----------------------------------------------------------------------------
USE NvsABAssumption
    DEF TypeOK, SafeFaults, Slots, Attempts, Other, EffGen, Active, First, Durable,
        Old, Empty, SaveOpen, EraseOpen, Sound, EmptyIsFresh, StoredOnce

\* The initial flash images satisfy the invariant.
LEMMA InitHolds == Init => IInv
  BY DEF IInv, InTry, Init

\* What a step inside a call does to the document a boot would load: it is the
\* settled one or the call's, and the call goes on or ends with it.
Keeps ==
  /\ Durable' \in {settled, op}
  /\ \/ UNCHANGED <<op, settled, result>>
     \/ /\ op' = Idle /\ settled' = Durable'
        /\ result' \in {"ok", "failed", "cut"}
        /\ result' = "ok" => Durable' = op

\* What a step outside any call does: nothing to that document.
Outside ==
  /\ Durable' = Durable /\ settled' = settled /\ result' = "none"
  /\ op' \in Value \cup {NoVal, Idle}

\* Skipping the write of an unchanged document keeps the invariant; the call ends.
LEMMA SkipUnchangedStep ==
  ASSUME SafeFaults, IInv, SkipUnchanged
  PROVE  IInv' /\ Keeps
  BY DEF IInv, InTry, Behind, OldLeads, flash, Keeps,
         SkipUnchanged, Finish

\* Clearing the target slot never removes the document a boot would load.
LEMMA ClearSpareStep ==
  ASSUME SafeFaults, IInv, ClearSpare
  PROVE  IInv' /\ Keeps
  BY DEF IInv, InTry, Behind, OldLeads, flash, Keeps,
         ClearSpare, Goto, Spare, NextGen, RemoveBlob

\* A completed write may already win the next boot, as a tie for slot 0.
LEMMA WriteSpareStep ==
  ASSUME SafeFaults, IInv, WriteSpare
  PROVE  IInv' /\ Keeps
  BY DEF IInv, InTry, Behind, OldLeads, flash, Keeps,
         WriteSpare, Goto

\* An aborted write leaves a store in which the next try picks the same target.
LEMMA WriteSpareFailsStep ==
  ASSUME SafeFaults, IInv, WriteSpareFails
  PROVE  IInv' /\ Keeps
  BY DEF IInv, InTry, Behind, OldLeads, flash, Keeps,
         WriteSpareFails, TryFails, Finish

\* A good read-back changes no flash.
LEMMA VerifySpareStep ==
  ASSUME SafeFaults, IInv, VerifySpare
  PROVE  IInv' /\ Keeps
  BY DEF IInv, InTry, Behind, OldLeads, flash, Keeps,
         VerifySpare, Goto

\* A failed read-back drops the spare, or leaves a complete one behind.
LEMMA VerifySpareFailsStep ==
  ASSUME SafeFaults, IInv, VerifySpareFails
  PROVE  IInv' /\ Keeps
  BY DEF IInv, InTry, Behind, OldLeads, flash, Keeps,
         VerifySpareFails, TryFails, Finish, RemoveBlob

\* The generation entry makes the new slot the one a boot prefers.
LEMMA CommitGenStep ==
  ASSUME SafeFaults, IInv, CommitGen
  PROVE  IInv' /\ Keeps
  BY DEF IInv, InTry, Behind, OldLeads, flash, Keeps,
         CommitGen, Goto

\* Without its generation entry the new slot is dropped again.
LEMMA CommitGenFailsStep ==
  ASSUME SafeFaults, IInv, CommitGenFails
  PROVE  IInv' /\ Keeps
  BY DEF IInv, InTry, Behind, OldLeads, flash, Keeps,
         CommitGenFails, TryFails, Finish, RemoveBlob

\* Dropping the old blob is harmless after the commit.
LEMMA DropOldBlobStep ==
  ASSUME SafeFaults, IInv, DropOldBlob
  PROVE  IInv' /\ Keeps
  BY DEF IInv, InTry, Behind, OldLeads, flash, Keeps,
         DropOldBlob, Goto, RemoveBlob

\* Dropping the old generation ends the save.
LEMMA DropOldGenStep ==
  ASSUME SafeFaults, IInv, DropOldGen
  PROVE  IInv' /\ Keeps
  BY DEF IInv, InTry, Behind, OldLeads, flash, Keeps,
         DropOldGen, Finish, RemoveGen

\* Deleting a blob removes the only copy at once.
LEMMA EraseBlobStep ==
  ASSUME SafeFaults, IInv, NEW x \in Slots, EraseBlob(x)
  PROVE  IInv' /\ Keeps
  BY DEF IInv, InTry, Behind, OldLeads, flash, Keeps,
         EraseBlob, Goto, RemoveBlob

\* Stale generation entries are harmless once no blob is left.
LEMMA EraseGen0Step ==
  ASSUME SafeFaults, IInv, EraseGen0
  PROVE  IInv' /\ Keeps
  BY DEF IInv, InTry, Behind, OldLeads, flash, Keeps,
         EraseGen0, Goto, RemoveGen

\* The last entry goes: nothing is stored.
LEMMA EraseGen1Step ==
  ASSUME SafeFaults, IInv, EraseGen1
  PROVE  IInv' /\ Keeps
  BY DEF IInv, InTry, Behind, OldLeads, flash, Keeps,
         EraseGen1, Finish, RemoveGen

\* A power loss settles on what the flash holds.
LEMMA PowerLossStep ==
  ASSUME SafeFaults, IInv, PowerLoss
  PROVE  IInv' /\ Keeps
  BY DEF IInv, InTry, Behind, OldLeads, flash, Keeps,
         PowerLoss, FlashInit, Finish

\* Between calls the document a boot would load does not change.
LEMMA BeginSaveStep ==
  ASSUME SafeFaults, IInv, NEW v \in Value, BeginSave(v)
  PROVE  IInv' /\ Outside
  BY DEF IInv, InTry, Behind, OldLeads, flash, Outside,
         BeginSave

\* Between calls the document a boot would load does not change.
LEMMA BeginEraseStep ==
  ASSUME SafeFaults, IInv, BeginErase
  PROVE  IInv' /\ Outside
  BY DEF IInv, InTry, Behind, OldLeads, flash, Outside,
         BeginErase

\* Between calls the document a boot would load does not change.
LEMMA RebootStep ==
  ASSUME SafeFaults, IInv, Reboot
  PROVE  IInv' /\ Outside
  BY DEF IInv, InTry, Behind, OldLeads, flash, Outside,
         Reboot, FlashInit, Finish

\* A step while no call runs: a call begins, or the device reboots.
OutsideCall == (\E v \in Value : BeginSave(v)) \/ BeginErase \/ Reboot
InsideCall == SaveStep \/ EraseStep \/ PowerLoss

\* Every step outside a call keeps the invariant and the document.
LEMMA OutsideStep ==
  ASSUME SafeFaults, IInv, OutsideCall
  PROVE  IInv' /\ Outside
  BY BeginSaveStep, BeginEraseStep, RebootStep DEF OutsideCall

\* Every step inside a call keeps the invariant and goes to a legal document.
LEMMA InsideStep ==
  ASSUME SafeFaults, IInv, InsideCall
  PROVE  IInv' /\ Keeps
<1>1. CASE SaveStep
  <2>1. ~ WriteSpareMisreported
    BY DEF WriteSpareMisreported
  <2>2. QED
    BY <1>1, <2>1, SkipUnchangedStep, ClearSpareStep, WriteSpareStep, WriteSpareFailsStep,
       VerifySpareStep, VerifySpareFailsStep, CommitGenStep, CommitGenFailsStep,
       DropOldBlobStep, DropOldGenStep
    DEF SaveStep
<1>2. CASE EraseStep
  BY <1>2, EraseBlobStep, EraseGen0Step, EraseGen1Step DEF EraseStep
<1>3. CASE PowerLoss
  BY <1>3, PowerLossStep
<1>4. QED
  BY <1>1, <1>2, <1>3 DEF InsideCall

\* Whether a step belongs to a call can be read off op.
LEMMA StepKinds ==
  ASSUME IInv, Next
  PROVE  (OutsideCall /\ op = Idle) \/ (InsideCall /\ op # Idle)
  BY DEF IInv, Next, OutsideCall, InsideCall, SaveStep, EraseStep, BeginSave, BeginErase,
     Reboot, PowerLoss, SkipUnchanged, ClearSpare, WriteSpare, WriteSpareMisreported,
     WriteSpareFails, VerifySpare, VerifySpareFails, CommitGen, CommitGenFails,
     DropOldBlob, DropOldGen, EraseBlob, EraseGen0, EraseGen1

\* Every step preserves the invariant.
LEMMA NextHolds == SafeFaults /\ IInv /\ [Next]_vars => IInv'
<1> SUFFICES ASSUME SafeFaults, IInv, [Next]_vars PROVE IInv'
  OBVIOUS
<1>1. CASE Next
  BY <1>1, StepKinds, OutsideStep, InsideStep
<1>2. CASE UNCHANGED vars
  BY <1>2 DEF vars, IInv, InTry, Behind, OldLeads
<1>3. QED
  BY <1>1, <1>2

\* The invariant holds in every reachable state, whatever the documents are.
THEOREM InvariantHolds == ASSUME SafeFaults PROVE Spec => []IInv
<1>1. IInv /\ [Next]_vars => IInv'
  BY NextHolds
<1>2. QED
  BY <1>1, InitHolds, PTL DEF Spec

-----------------------------------------------------------------------------
(* The properties.                                                          *)

\* The slot a try clears first never holds the document the next boot would
\* load (nvsSaveJsonAB_'s claim that the active slot is not touched).
THEOREM SpareTheorem == ASSUME SafeFaults PROVE Spec => []SpareIsDisposable
<1>1. IInv => SpareIsDisposable
  BY DEF IInv, SpareIsDisposable, Spare
<1>2. QED
  BY <1>1, InvariantHolds, PTL

\* A call that ends never leaves the key without a readable document if there
\* was one (the header's "never destroys the last good state").
THEOREM LastGoodTheorem == ASSUME SafeFaults PROVE Spec => LastGoodKept
<1>1. IInv /\ [Next]_vars => [op # NoVal /\ settled \in Value => settled' \in Value]_vars
  <2> SUFFICES ASSUME IInv, Next, op # NoVal, settled \in Value PROVE settled' \in Value
    BY DEF vars
  <2>1. CASE op = Idle
    BY <2>1, StepKinds, OutsideStep DEF Outside
  <2>2. CASE op # Idle
    BY <2>2, StepKinds, InsideStep DEF IInv, Keeps
  <2>3. QED
    BY <2>1, <2>2
<1>2. QED
  BY <1>1, InvariantHolds, PTL DEF Spec, LastGoodKept
\* The two slots with their generations implement a cell that is replaced as a
\* whole: every flash operation is a legal step of AtomicCell or changes nothing.
THEOREM ImplementationTheorem == ASSUME SafeFaults PROVE Spec => ImplementsCell
<1> USE DEF Cell!Next, Cell!cellVars, Cell!Begin, Cell!Move, Cell!Return, Cell!Reboot
<1>1. Init => Cell!Init
  BY DEF Init, Cell!Init
<1>2. IInv /\ [Next]_vars => [Cell!Next]_(Cell!cellVars)
  <2> SUFFICES ASSUME IInv, [Next]_vars PROVE [Cell!Next]_(Cell!cellVars)
    OBVIOUS
  <2>1. CASE UNCHANGED vars
    BY <2>1 DEF vars
  <2>2. CASE OutsideCall /\ op = Idle
    BY <2>2, OutsideStep DEF Outside
  <2>3. CASE InsideCall /\ op # Idle
    <3>1. Keeps
      BY <2>3, InsideStep
    <3>2. CASE UNCHANGED <<op, settled, result>>
      BY <2>3, <3>1, <3>2 DEF Keeps
    <3>3. CASE op' = Idle
      BY <2>3, <3>1, <3>3 DEF Keeps
    <3>4. QED
      BY <3>1, <3>2, <3>3 DEF Keeps
  <2>4. QED
    BY <2>1, <2>2, <2>3, StepKinds
<1>3. QED
  BY <1>1, <1>2, InvariantHolds, PTL DEF Spec, ImplementsCell, Cell!Spec
-----------------------------------------------------------------------------
(* What the read-back buys: the next two theorems assume nothing about      *)
(* Faults, so they also hold when writes leave or misreport Bad blobs.      *)

\* A committed slot was read back, and its generation beats the other slot's.
Committed ==
  /\ TypeOK
  /\ pc = "idle" => op = Idle
  /\ pc \in SaveOpen => op \in Value
  /\ pc \in EraseOpen => op = NoVal
  /\ pc # "idle" => result = "none"
  /\ pc \in {"write", "verify", "commit"} => newGen > EffGen(Old)
  /\ pc \in {"commit", "dropBlob", "dropGen"} => blob[tgt] = op
  /\ pc \in {"dropBlob", "dropGen"} => gen[tgt] > EffGen(Old)

\* The steps of a save that touch the spare slot or its generation.
LEMMA CommittedSave ==
  ASSUME Committed, SaveStep
  PROVE  Committed' /\ ((op \in Value /\ result' = "ok") => settled' = op)
<1> USE DEF Committed, flash, Goto, Finish
<1>1. CASE SkipUnchanged
  BY <1>1 DEF SkipUnchanged
<1>2. CASE ClearSpare
  BY <1>2 DEF ClearSpare, RemoveBlob, Spare, NextGen
<1>3. CASE WriteSpare \/ WriteSpareMisreported
  BY <1>3 DEF WriteSpare, WriteSpareMisreported
<1>4. CASE WriteSpareFails
  BY <1>4 DEF WriteSpareFails, TryFails
<1>5. CASE VerifySpare \/ CommitGen
  BY <1>5 DEF VerifySpare, CommitGen
<1>6. CASE VerifySpareFails \/ CommitGenFails
  BY <1>6 DEF VerifySpareFails, CommitGenFails, RemoveBlob, TryFails
<1>7. CASE DropOldBlob
  BY <1>7 DEF DropOldBlob, RemoveBlob
<1>8. CASE DropOldGen
  BY <1>8 DEF DropOldGen, RemoveGen
<1>9. QED
  BY <1>1, <1>2, <1>3, <1>4, <1>5, <1>6, <1>7, <1>8 DEF SaveStep

\* All other steps: calls begin, keys are deleted, power comes and goes.
LEMMA CommittedOther ==
  ASSUME Committed, OutsideCall \/ EraseStep \/ PowerLoss
  PROVE  Committed' /\ ((op \in Value /\ result' = "ok") => settled' = op)
<1> USE DEF Committed, flash, Goto, Finish
<1>1. CASE \E v \in Value : BeginSave(v)
  BY <1>1 DEF BeginSave
<1>2. CASE BeginErase
  BY <1>2 DEF BeginErase
<1>3. CASE \E x \in Slots : EraseBlob(x)
  BY <1>3 DEF EraseBlob, RemoveBlob
<1>4. CASE EraseGen0 \/ EraseGen1
  BY <1>4 DEF EraseGen0, EraseGen1, RemoveGen
<1>5. CASE PowerLoss \/ Reboot
  BY <1>5 DEF PowerLoss, Reboot, FlashInit
<1>6. QED
  BY <1>1, <1>2, <1>3, <1>4, <1>5 DEF OutsideCall, EraseStep

\* What a save has verified is what its commit makes current, whatever fails.
LEMMA CommittedHolds == Spec => []Committed
<1>1. Init => Committed
  BY DEF Init, Committed
<1>2. Committed /\ [Next]_vars => Committed'
  <2> SUFFICES ASSUME Committed, [Next]_vars PROVE Committed'
    OBVIOUS
  <2>1. CASE Next
    BY <2>1, CommittedSave, CommittedOther DEF Next, OutsideCall
  <2>2. CASE UNCHANGED vars
    BY <2>2 DEF vars, Committed
  <2>3. QED
    BY <2>1, <2>2
<1>3. QED
  BY <1>1, <1>2, PTL DEF Spec

\* Type correctness, for every set of faults.
THEOREM TypeTheorem == Spec => []TypeOK
<1>1. Committed => TypeOK
  BY DEF Committed
<1>2. QED
  BY <1>1, CommittedHolds, PTL

\* A save that reported success is what the next boot loads, whatever fails.
THEOREM SaveOkTheorem == Spec => SaveOkMeansSaved
<1>1. Committed /\ [Next]_vars => [(op \in Value /\ result' = "ok") => settled' = op]_vars
  BY CommittedSave, CommittedOther DEF Next, OutsideCall, vars
<1>2. QED
  BY <1>1, CommittedHolds, PTL DEF Spec, SaveOkMeansSaved
=============================================================================
