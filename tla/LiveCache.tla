----------------------------- MODULE LiveCache -----------------------------
(***************************************************************************)
(* The cache before the two requests of the web interface that read a      *)
(* speaker live, GET now-playing-live and GET hardware-presets             *)
(* (api_endpoints.cpp).  All handlers run in one task, so nothing is       *)
(* locked; an entry is valid as long as its expiry is after millis(),      *)
(* which is a counter of 32 bits.                                          *)
(***************************************************************************)
EXTENDS Integers

CONSTANTS
  Key,     \* a kind of request and a speaker
  NoKey,
  Entries, \* OUT_CACHE_N (12 in the code)
  Ttl,     \* OUT_CACHE_TTL_MS
  Wrap     \* millis() counts modulo 2^32

ASSUME LiveCacheAssumption ==
  NoKey \notin Key /\ Entries \in Nat \ {0} /\ Ttl \in Nat \ {0} /\ Wrap \in Nat /\ Ttl < Wrap

VARIABLES
  outCache, \* g_outCache: the key and the expiry of each entry, and the age of its body
  now,      \* millis()
  wrapped,  \* history: millis() has wrapped since the start
  served    \* age of the body of the last answer

livecache == <<outCache, now, wrapped, served>>

Index == 1..Entries
Older(age) == IF age > Ttl THEN age ELSE age + 1

LiveCacheInit ==
  /\ outCache = [i \in Index |-> [key |-> NoKey, expires |-> 0, age |-> 0]]
  /\ now = 0 /\ wrapped = FALSE /\ served = 0

\* Mutation of Expired: an entry is valid at its expiry, too.
ExpiredLate(i) == outCache[i].expires < now
Expired(i) == outCache[i].expires <= now

First(S) == CHOOSE i \in S : \A j \in S : i <= j

\* outCacheGet finds the first valid entry of the key.
Hits(k) == {i \in Index : outCache[i].key = k /\ ~Expired(i)}

\* outCachePut takes the first entry of the key or expired, else the one that expires first.
Victim(k) ==
  LET free == {i \in Index : outCache[i].key = k \/ Expired(i)}
      oldest == {i \in Index : \A j \in Index : outCache[i].expires <= outCache[j].expires}
  IN  First(IF free # {} THEN free ELSE oldest)

AnswersFromCache(k) ==
  /\ Hits(k) # {}
  /\ served' = outCache[First(Hits(k))].age
  /\ UNCHANGED <<outCache, now, wrapped>>

\* outCachePut; the expiry may wrap.
Put(k) ==
  outCache' = [outCache EXCEPT ![Victim(k)] =
                [key |-> k, expires |-> (now + Ttl) % Wrap, age |-> 0]]

\* The speaker answers.  If it does not, or memory is short (OutboundGuard), the answer is an
\* error and nothing changes.
AsksSpeaker(k) ==
  /\ Hits(k) = {} /\ Put(k) /\ served' = 0
  /\ UNCHANGED <<now, wrapped>>

ClockTicks ==
  /\ now' = (now + 1) % Wrap
  /\ wrapped' = (wrapped \/ now' = 0)
  /\ outCache' = [i \in Index |-> [outCache[i] EXCEPT !.age = Older(@)]]
  /\ UNCHANGED served

LiveCacheNext ==
  \/ \E k \in Key : AnswersFromCache(k) \/ AsksSpeaker(k)
  \/ ClockTicks

-----------------------------------------------------------------------------
(* Properties.                                                              *)

LiveCacheTypeOK ==
  /\ now \in 0..(Wrap - 1) /\ served \in 0..(Ttl + 1)
  /\ \A i \in Index : outCache[i].key \in Key \cup {NoKey} /\ outCache[i].expires \in 0..(Wrap - 1)

\* An answer is not older than the window, whichever entries were replaced, until millis()
\* wraps (api_endpoints.cpp:282-302).  Then an entry that nobody asked for again is valid
\* once more, for as long as millis() needs to reach its expiry.
FreshAnswers == ~wrapped => served < Ttl
=============================================================================
