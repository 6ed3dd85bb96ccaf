----------------------------- MODULE AtomicCell -----------------------------
(***************************************************************************)
(* What the persistence helper promises for one key of the flash store: a  *)
(* value that is replaced as a whole.  While a call runs, a reboot would   *)
(* find either the value settled before the call or the one the call       *)
(* writes; a call that reports success has made its value the one a reboot *)
(* finds; a call that fails, or is cut off by a power loss, leaves one of  *)
(* the two.  Writing NoVal stands for deleting the key.                    *)
(***************************************************************************)

CONSTANTS
  Value,   \* the documents that may be stored
  NoVal,   \* nothing stored
  Idle     \* no call is running

VARIABLES
  durable, \* what a reboot would load
  settled, \* what the last finished call left
  op,      \* the value the running call writes, or Idle
  result   \* what the last finished call reported

cellVars == <<durable, settled, op, result>>

Init ==
  /\ durable \in Value \cup {NoVal}
  /\ settled = durable
  /\ op = Idle
  /\ result = "none"

Begin(v) ==
  /\ op = Idle
  /\ op' = v
  /\ result' = "none"
  /\ UNCHANGED <<durable, settled>>

\* The flash changes under a running call, between the two legal values only.
Move ==
  /\ op # Idle
  /\ durable' \in {settled, op}
  /\ UNCHANGED <<settled, op, result>>

Return(r) ==
  /\ op # Idle
  /\ durable' \in IF r = "ok" THEN {op} ELSE {settled, op}
  /\ settled' = durable'
  /\ op' = Idle
  /\ result' = r

\* A reboot between calls finds what the last call left.
Reboot ==
  /\ op = Idle
  /\ result' = "none"
  /\ UNCHANGED <<durable, settled, op>>

Next ==
  \/ \E v \in Value \cup {NoVal} : Begin(v)
  \/ Move
  \/ \E r \in {"ok", "failed", "cut"} : Return(r)
  \/ Reboot

Spec == Init /\ [][Next]_cellVars
=============================================================================
