------------------------------ MODULE Blackbox ------------------------------
(***************************************************************************)
(* The flight recorder of the system timer (systimer_blackbox.cpp).  A     *)
(* timer interrupt writes samples to a ring and notices when the tick of   *)
(* the operating system froze; loop() then copies the ring to a snapshot   *)
(* that survives restarts; requests of the web server stream the snapshot  *)
(* in chunks and acknowledge it.  A sample is known by its number.         *)
(***************************************************************************)
EXTENDS Integers

CONSTANTS
  RingLen,     \* RING_LEN (128 in the code)
  Slack,       \* samples a copy may lag less than RING_LEN (4 in the code)
  FreezeRun,   \* equal ticks that make a freeze (3 in the code)
  BusyLimit,   \* BUSY_TICK_LIMIT (3000 in the code)
  Dump,        \* requests that may stream the snapshot
  DumpEnvs,    \* sets of PossibleDumpEnv to start from
  MaxSample    \* bound: the last sample of a boot

PossibleDumpEnv ==
  { "second",   \* a dump starts while another one streams
    "during",   \* a dump starts while loop() copies
    "slow" }    \* a dump outlasts BUSY_TICK_LIMIT passes of loop()

ASSUME BlackboxAssumption ==
  /\ RingLen \in Nat \ {0} /\ Slack \in 0..RingLen /\ FreezeRun \in Nat \ {0}
  /\ BusyLimit \in Nat \ {0} /\ MaxSample \in Nat
  /\ \A e \in DumpEnvs : e \subseteq PossibleDumpEnv

VARIABLES
  ring,     \* g_ring: next sample, frozen_run, and the request [pending, dur, end]
  snap,     \* g_snap: magic, dur, end, harvested, partial, and the rows
  frozen,   \* g_frozen: samples of the ring before a panic, NoSample without one
  service,  \* where blackboxFreezeService() is, and the words it read
  lock,     \* g_dumpBusy and g_busyTicks
  dump,     \* request -> its phase, and the header and rows it sent
  dumpEnv   \* what this behaviour's requests may do

blackbox == <<ring, snap, frozen, service, lock, dump, dumpEnv>>

NoSample == -1
Rows == 0..(RingLen - 1)
NoRows == [i \in Rows |-> NoSample]

FreshRing == [seq |-> 0, run |-> 0, pending |-> FALSE, dur |-> 0, end |-> 0]
NoSnap == [magic |-> FALSE, dur |-> 0, end |-> 0, harvested |-> FALSE, partial |-> FALSE,
           rows |-> NoRows]
Resting == [at |-> "idle", dur |-> 0, end |-> 0, row |-> 0]
Unlocked == [busy |-> FALSE, ticks |-> 0]
NoDump == [at |-> "none", end |-> 0, rows |-> NoRows, row |-> 0]

\* The sample slot i of the ring holds.
RingAt(i) ==
  LET last == (ring.seq - 1) - ((ring.seq - 1 - i) % RingLen)
  IN  IF last < 0 THEN NoSample ELSE last

BlackboxInit ==
  /\ ring = FreshRing /\ snap = NoSnap /\ frozen = NoSample /\ service = Resting
  /\ lock = Unlocked /\ dump = [q \in Dump |-> NoDump]
  /\ dumpEnv \in DumpEnvs

-----------------------------------------------------------------------------
(* onTimer, every 20 ms, also inside each step of the others.               *)

TickStands ==
  /\ ring.seq < MaxSample
  /\ ring' = [ring EXCEPT !.run = @ + 1, !.seq = @ + 1]
  /\ UNCHANGED <<snap, frozen, service, lock, dump, dumpEnv>>

TickMoves ==
  /\ ring.seq < MaxSample
  /\ ring' = IF ring.run >= FreezeRun
             THEN [seq |-> ring.seq + 1, run |-> 0,
                   pending |-> TRUE, dur |-> ring.run, end |-> ring.seq]
             ELSE [ring EXCEPT !.run = 0, !.seq = @ + 1]
  /\ UNCHANGED <<snap, frozen, service, lock, dump, dumpEnv>>

-----------------------------------------------------------------------------
(* blackboxFreezeService in loop(), interrupted by the timer and by the     *)
(* task of the web server.                                                  *)

ServiceWaits ==
  /\ service.at = "idle" /\ ring.pending
  /\ lock.busy /\ lock.ticks + 1 < BusyLimit
  /\ lock' = [lock EXCEPT !.ticks = @ + 1]
  /\ UNCHANGED <<ring, snap, frozen, service, dump, dumpEnv>>

\* The lock is free, or forced open.
LockOpens == ~lock.busy /\ UNCHANGED lock
LockForced ==
  /\ "slow" \in dumpEnv /\ lock.busy /\ lock.ticks + 1 >= BusyLimit /\ lock' = Unlocked

\* Mutation of ServiceReads: a dump does not hold loop() up.
ServiceReadsAnyhow ==
  /\ service.at = "idle" /\ ring.pending
  /\ service' = [Resting EXCEPT !.at = "read", !.dur = ring.dur]
  /\ UNCHANGED <<ring, snap, frozen, lock, dump, dumpEnv>>
ServiceReads ==
  /\ service.at = "idle" /\ ring.pending
  /\ LockOpens \/ LockForced
  /\ service' = [Resting EXCEPT !.at = "read", !.dur = ring.dur]
  /\ UNCHANGED <<ring, snap, frozen, dump, dumpEnv>>

\* The snapshot stays if nobody has fetched it and the new one is not longer.
Retained(dur) == snap.magic /\ ~snap.harvested /\ dur <= snap.dur

ServiceTakes ==
  /\ service.at = "read"
  /\ ring' = [ring EXCEPT !.pending = FALSE]
  /\ service' = IF Retained(service.dur) THEN Resting
                ELSE [service EXCEPT !.at = "copy", !.end = ring.end]
  /\ UNCHANGED <<snap, frozen, lock, dump, dumpEnv>>

CopiesRow ==
  /\ service.at = "copy" /\ service.row < RingLen
  /\ snap' = [snap EXCEPT !.rows[service.row] = RingAt(service.row)]
  /\ service' = [service EXCEPT !.row = @ + 1]
  /\ UNCHANGED <<ring, frozen, lock, dump, dumpEnv>>

CopyDescribed ==
  /\ service.at = "copy" /\ service.row = RingLen
  /\ snap' = [snap EXCEPT !.magic = TRUE, !.dur = service.dur, !.end = service.end,
                          !.harvested = FALSE,
                          !.partial = ring.seq - service.end > RingLen - Slack]
  /\ service' = Resting
  /\ UNCHANGED <<ring, frozen, lock, dump, dumpEnv>>

-----------------------------------------------------------------------------
(* handleDbgBlackbox: a dump with the snapshot in it, and its chunks.       *)

DumpStarts(q) ==
  /\ dump[q].at = "none"
  /\ "second" \in dumpEnv \/ \A r \in Dump : dump[r].at = "none"
  /\ "during" \in dumpEnv \/ service.at = "idle"
  /\ dump' = [dump EXCEPT ![q].at = "head"]
  /\ lock' = [busy |-> TRUE, ticks |-> 0]
  /\ UNCHANGED <<ring, snap, frozen, service, dumpEnv>>

\* The phases up to PH_SNAP_OPEN.
DumpOpens(q) ==
  /\ dump[q].at = "head"
  /\ dump' = [dump EXCEPT ![q] = IF snap.magic THEN [@ EXCEPT !.at = "rows", !.end = snap.end]
                                 ELSE [@ EXCEPT !.at = "done"]]
  /\ UNCHANGED <<ring, snap, frozen, service, lock, dumpEnv>>

\* How far a chunk may get: put() writes a row as a whole or leaves it for the next chunk.
Fits(q) == (dump[q].row + 1)..RingLen

\* A chunk with at least one row of PH_SNAP_ROWS.
DumpSends(q) ==
  /\ dump[q].at = "rows" /\ dump[q].row < RingLen
  /\ \E n \in Fits(q) :
       dump' = [dump EXCEPT ![q] =
         [@ EXCEPT !.row = n,
                   !.rows = [i \in Rows |-> IF i \in dump[q].row..(n - 1) THEN snap.rows[i]
                                            ELSE dump[q].rows[i]]]]
  /\ UNCHANGED <<ring, snap, frozen, service, lock, dumpEnv>>

\* The response is destroyed, sent or broken off: ~BlackboxDump.
DumpEnds(q) ==
  /\ dump[q].at # "none"
  /\ dump' = [dump EXCEPT ![q] = NoDump]
  /\ lock' = Unlocked
  /\ UNCHANGED <<ring, snap, frozen, service, dumpEnv>>

\* blackboxAckSnapshot
Acknowledges ==
  /\ snap.magic /\ snap' = [snap EXCEPT !.harvested = TRUE]
  /\ UNCHANGED <<ring, frozen, service, lock, dump, dumpEnv>>

-----------------------------------------------------------------------------
(* A restart, and blackboxInit with its reason.                             *)

Restarts ==
  /\ ring' = FreshRing /\ service' = Resting
  /\ lock' = Unlocked /\ dump' = [q \in Dump |-> NoDump]
  /\ UNCHANGED dumpEnv

AfterPowerOn == Restarts /\ snap' = NoSnap /\ frozen' = NoSample
AfterPanic == Restarts /\ frozen' = ring.seq /\ UNCHANGED snap
AfterRestart == Restarts /\ frozen' = NoSample /\ UNCHANGED snap

BlackboxNext ==
  \/ TickStands \/ TickMoves
  \/ ServiceWaits \/ ServiceReads \/ ServiceTakes \/ CopiesRow \/ CopyDescribed
  \/ \E q \in Dump : DumpStarts(q) \/ DumpOpens(q) \/ DumpSends(q) \/ DumpEnds(q)
  \/ Acknowledges \/ AfterPowerOn \/ AfterPanic \/ AfterRestart

-----------------------------------------------------------------------------
(* Properties.                                                              *)

BlackboxTypeOK ==
  /\ ring.seq \in 0..MaxSample /\ ring.run \in 0..MaxSample /\ ring.pending \in BOOLEAN
  /\ snap.rows \in [Rows -> NoSample..MaxSample] /\ frozen \in NoSample..MaxSample
  /\ service.at \in {"idle", "read", "copy"} /\ lock.ticks \in 0..BusyLimit
  /\ \A q \in Dump : dump[q].at \in {"none", "head", "rows", "done"}

\* A dump that is neither slow nor overlapped by a second one, and did not
\* start inside a copy, sends rows of one snapshot under that snapshot's header,
\* in however many chunks (systimer_blackbox.cpp:305-308, "eine Zeile aus dem
\* alten und die naechste aus dem neuen Snapshot").
DumpCoherent ==
  dumpEnv = {} =>
    \A q \in Dump :
      dump[q].at = "rows" =>
        /\ dump[q].end = snap.end
        /\ \A i \in 0..(dump[q].row - 1) : dump[q].rows[i] = snap.rows[i]
=============================================================================
