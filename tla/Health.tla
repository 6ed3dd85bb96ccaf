------------------------------- MODULE Health -------------------------------
(***************************************************************************)
(* The stick's watchdog over itself (system_health.cpp) on a clock that    *)
(* jumps (mono_clock.h): healthTick() runs in loop(), adds up the          *)
(* plausible steps of millis(), and restarts the stick after a time        *)
(* without WiFi or with little heap.  The other tasks only read.           *)
(*                                                                         *)
(* Words wrap at Word; real time is history, which the code cannot see.    *)
(***************************************************************************)
EXTENDS Integers

CONSTANTS
  Word,         \* 2^32: millis() and the clock wrap here
  MaxStep,      \* kMaxStepMs
  MaxTick,      \* the longest time between two ticks
  Jumps,        \* what millis() jumps by between two ticks, 0 included
  Limit,        \* HEALTH_WIFI_DOWN_REBOOT_S and HEALTH_HEAP_LOW_REBOOT_S
  MaxCount      \* bound of the counters

\* A jump is never taken for a step (mono_clock.h:14: multiples of 4294 s).
ASSUME HealthAssumption ==
  /\ {Word, MaxStep, MaxTick, Limit, MaxCount} \subseteq Nat
  /\ 0 < MaxTick /\ MaxTick <= MaxStep /\ 2 * (Limit + 2 * MaxStep) < Word
  /\ Jumps \subseteq Int /\ 0 \in Jumps
  /\ \A j \in Jumps \ {0}, d \in 1..MaxTick : (j + d) % Word \in MaxStep + 1 .. Word - 1

VARIABLES
  mono,       \* mono_ms; of millis() only the steps between two ticks matter
  downSince,  \* wifi_down_since_ms, 0 for connected
  lowSince,   \* heap_low_since_ms, 0 for enough
  everUp,     \* wifi_ever_up
  disc,       \* wifi_disconnects, in the flash
  restarts,   \* wifi_reboots + heap_reboots, in the flash
  down,       \* history: real time since the tick that saw the WiFi gone, or -1
  low,        \* history: the same for the heap
  jumped,     \* history: millis() has jumped since the WiFi or the heap went
  lasted      \* history: the real time the last restart waited for

health == <<mono, downSince, lowSince, everUp, disc, restarts, down, low, jumped, lasted>>

HealthInit ==
  /\ mono \in 1..MaxStep /\ downSince = 0 /\ lowSince = 0 /\ everUp = FALSE
  /\ disc = 0 /\ restarts = 0
  /\ down = -1 /\ low = -1 /\ jumped = FALSE /\ lasted = -1

-----------------------------------------------------------------------------
\* The difference of two readings of millis(), taken as a signed word.
Signed(x) == IF x >= Word \div 2 THEN x - Word ELSE x

\* Mutation of Plausible: the difference is taken without its sign.
Elapsed(x) == x
\* MonoClock::step: a step back or too far counts as none.
Plausible(x) == IF Signed(x) \in 0..MaxStep THEN Signed(x) ELSE 0

Since(t, now) == (now - t) % Word

\* Mutation of Armed: every tick in trouble starts the time anew.
ArmedAnew(since, now) == now
\* The time of the first tick that saw the trouble; 0 stands for none.
Armed(since, now) == IF since = 0 THEN now ELSE since

\* A link is lost; the wait for the first connection does not count.
Lost(wifi) == ~wifi /\ downSince = 0 /\ everUp

\* How long a trouble has really lasted, d after the last tick; a bound keeps
\* the clock that stands still for ever finite.
Ages(age, d) == IF age < 0 THEN 0 ELSE IF age > Limit + MaxTick THEN age ELSE age + d

\* healthTick, d after the last one, in which millis() has jumped by j;
\* doSelfReboot saves the counters, and the rest starts afresh.
Tick(d, j, wifi, heap) ==
  LET now  == (mono + Plausible((d + j) % Word)) % Word
      ds   == Armed(downSince, now)
      ls   == Armed(lowSince, now)
      wifiOver == ~wifi /\ Since(ds, now) > Limit
      heapOver == ~heap /\ Since(ls, now) > Limit
  IN  /\ disc' = IF Lost(wifi) THEN disc + 1 ELSE disc
      /\ IF wifiOver \/ heapOver
         THEN /\ restarts' = restarts + 1
              /\ lasted' = IF wifiOver THEN Ages(down, d) ELSE Ages(low, d)
              /\ mono' \in 1..MaxStep /\ downSince' = 0 /\ lowSince' = 0 /\ everUp' = FALSE
              /\ down' = -1 /\ low' = -1 /\ jumped' = FALSE
         ELSE /\ mono' = now /\ everUp' = (everUp \/ wifi)
              /\ downSince' = (IF wifi THEN 0 ELSE ds) /\ lowSince' = (IF heap THEN 0 ELSE ls)
              /\ down' = (IF wifi THEN -1 ELSE Ages(down, d))
              /\ low' = (IF heap THEN -1 ELSE Ages(low, d))
              /\ jumped' = ((~wifi \/ ~heap) /\ (jumped \/ j # 0))
              /\ UNCHANGED <<restarts, lasted>>

HealthNext ==
  /\ disc < MaxCount /\ restarts < MaxCount
  /\ \E d \in 1..MaxTick, j \in Jumps, wifi, heap \in BOOLEAN : Tick(d, j, wifi, heap)

-----------------------------------------------------------------------------
(* Properties.                                                              *)

HealthTypeOK ==
  /\ {mono, downSince, lowSince} \subseteq 0..Word - 1
  /\ {everUp, jumped} \subseteq BOOLEAN
  /\ {disc, restarts} \subseteq 0..MaxCount
  /\ {down, low, lasted} \subseteq -1..Limit + 2 * MaxTick

\* The stick restarts itself only after a trouble that has really lasted for
\* the limit, whatever the clock does (mono_clock.h:21-24: "ein Reboot aus
\* dem Nichts").
RestartJustified == restarts # 0 => lasted > Limit

\* Without a jump no trouble lasts longer than the limit and a tick, also
\* when it is first seen at time 0, which stands for none.
RestartTimely == ~jumped => down <= Limit + MaxTick /\ low <= Limit + MaxTick
=============================================================================
