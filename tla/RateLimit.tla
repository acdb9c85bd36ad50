------------------------------ MODULE RateLimit ------------------------------
(***************************************************************************)
(* RateLimitGuard and RedisService.checkRateLimit, for the requests of one *)
(* client address.  The counter is a cache entry with a time to live: a    *)
(* request reads it, decides, and writes it back incremented in a second   *)
(* call, so that two requests may read the same count.  The clock ticks in *)
(* the cache's unit of time, the millisecond.                              *)
(***************************************************************************)
EXTENDS Integers, FiniteSets

CONSTANTS
  Requests,       \* requests of one address that reach the guard
  MaxRequests,    \* the limit, 100 in the guard
  WindowSeconds,  \* the window, 60 in the guard
  Second,         \* ticks in a second, 1000
  MaxTime,        \* bound on the clock
  None

ASSUME LimitsAssumption ==
  /\ MaxRequests \in Nat \ {0}
  /\ WindowSeconds \in Nat \ {0}
  /\ Second \in Nat \ {0}
  /\ MaxTime \in Nat

ASSUME NoneAssumption == None \notin Int

ASSUME RequestsAssumption == IsFiniteSet(Requests)

\* The window the guard asks for, in ticks.
Window == WindowSeconds * Second

\* cacheManager.set takes the number of seconds it is given for ticks.
TimeToLive == WindowSeconds

VARIABLES
  now,         \* the clock of the cache
  count,       \* value of the entry ratelimit:ip:<ip>, 0 when there is none
  expires,     \* when the entry expires
  pc,          \* "waiting", "writing", "allowed", "refused" or "error"
  current,     \* the count a request has read, None for no entry
  readAt,      \* when it read, None before
  chargedAt,   \* when it wrote the counter, None before
  disturbedAt  \* history: the last moment at which the entry was lost or two
               \* requests had both read and not yet written, -1 before

entryVars   == <<count, expires>>
requestVars == <<pc, current, readAt, chargedAt>>
vars == <<now, entryVars, requestVars, disturbedAt>>

Init ==
  /\ now = 0
  /\ count = 0
  /\ expires = 0
  /\ pc = [r \in Requests |-> "waiting"]
  /\ current = [r \in Requests |-> None]
  /\ readAt = [r \in Requests |-> None]
  /\ chargedAt = [r \in Requests |-> None]
  /\ disturbedAt = -1

\* A faulty variant: an entry that does not expire.
LiveForever == IF count > 0 THEN count ELSE None

\* cacheManager.get: nothing once the entry has expired.
Live == IF now < expires THEN count ELSE None

\* Faulty variants: the limit off by one, either way.
FullLate(n)  == n # None /\ n > MaxRequests
FullEarly(n) == n # None /\ n + 1 >= MaxRequests

Full(n) == n # None /\ n >= MaxRequests

\* A faulty variant: the value read is written back as it is.
NotIncremented(n) == n

Incremented(n) == IF n = None THEN 1 ELSE n + 1

\* Two requests have read the counter and not yet written it.
Overlap == \E r, s \in Requests : r # s /\ pc[r] = "writing" /\ pc[s] = "writing"

NoteOverlap == disturbedAt' = IF Overlap' THEN now' ELSE disturbedAt

Read(r) ==
  /\ pc[r] = "waiting"
  /\ ~Full(Live)
  /\ current' = [current EXCEPT ![r] = Live]
  /\ readAt' = [readAt EXCEPT ![r] = now]
  /\ pc' = [pc EXCEPT ![r] = "writing"]
  /\ UNCHANGED <<now, entryVars, chargedAt>>
  /\ NoteOverlap

\* checkRateLimit returns false and the guard answers 429.
Refuse(r) ==
  /\ pc[r] = "waiting"
  /\ Full(Live)
  /\ pc' = [pc EXCEPT ![r] = "refused"]
  /\ UNCHANGED <<now, entryVars, current, readAt, chargedAt, disturbedAt>>

\* A faulty variant: the time to live runs from the first request.
ChargeFixedWindow(r) ==
  /\ pc[r] = "writing"
  /\ count' = Incremented(current[r])
  /\ expires' = IF now < expires THEN expires ELSE now + TimeToLive
  /\ chargedAt' = [chargedAt EXCEPT ![r] = now]
  /\ UNCHANGED <<now, current, readAt, disturbedAt>>

\* cacheManager.set: every write starts the time to live again.
Charge(r) ==
  /\ pc[r] = "writing"
  /\ count' = Incremented(current[r])
  /\ expires' = now + TimeToLive
  /\ chargedAt' = [chargedAt EXCEPT ![r] = now]
  /\ UNCHANGED <<now, current, readAt, disturbedAt>>

WriteBack(r) ==
  /\ Charge(r)
  /\ pc' = [pc EXCEPT ![r] = "allowed"]

\* The write is done, its answer is lost: the guard throws.
WriteUnacknowledged(r) ==
  /\ Charge(r)
  /\ pc' = [pc EXCEPT ![r] = "error"]

\* The read or the write rejects, or the process dies: the request fails.
RedisFails(r) ==
  /\ pc[r] \in {"waiting", "writing"}
  /\ pc' = [pc EXCEPT ![r] = "error"]
  /\ UNCHANGED <<now, entryVars, current, readAt, chargedAt, disturbedAt>>

\* The entry is evicted, or goes with the process whose memory held it.
Forget ==
  /\ count > 0
  /\ count' = 0
  /\ expires' = 0
  /\ disturbedAt' = now
  /\ UNCHANGED <<now, requestVars>>

Tick ==
  /\ now < MaxTime
  /\ now' = now + 1
  /\ UNCHANGED <<entryVars, requestVars>>
  /\ NoteOverlap

Next ==
  \/ \E r \in Requests : Read(r) \/ Refuse(r) \/ WriteBack(r)
                         \/ WriteUnacknowledged(r) \/ RedisFails(r)
  \/ Forget
  \/ Tick

Spec == Init /\ [][Next]_vars

------------------------------------------------------------------------------

Charged  == {r \in Requests : chargedAt[r] # None}
Admitted == {r \in Requests : pc[r] = "allowed"}

Times == Int \cup {None}

TypeOK ==
  /\ now \in Nat /\ count \in Nat /\ expires \in Nat
  /\ pc \in [Requests -> {"waiting", "writing", "allowed", "refused", "error"}]
  /\ current \in [Requests -> Int \cup {None}]
  /\ readAt \in [Requests -> Times] /\ chargedAt \in [Requests -> Times]
  /\ disturbedAt \in Int

\* The counter may miss requests that race but never invents one, and never
\* passes the limit: a client is charged at most once for a request.
NeverOvercharged ==
  /\ count <= Cardinality(Charged)
  /\ count <= MaxRequests

\* n requests that were charged one after another, each of which asked before
\* the charge of the one before had lived its time: a client without a pause.
Burst(f, n) ==
  /\ \A i, j \in 1 .. n : f[i] = f[j] => i = j
  /\ \A i \in 1 .. n - 1 : readAt[f[i + 1]] - chargedAt[f[i]] \in 0 .. TimeToLive - 1

\* A client is refused only at the end of a burst of as many requests as it is
\* allowed, none of them followed by a pause of a time to live.  As every write
\* starts the time to live again, a burst counts as a whole however long it
\* takes: its first requests may lie further back than any window.
RefusalsEndBursts ==
  [][\A r \in Requests : pc[r] # "refused" /\ pc'[r] = "refused" =>
       \E f \in [1 .. MaxRequests -> Charged] :
         /\ Burst(f, MaxRequests)
         /\ now - chargedAt[f[MaxRequests]] < TimeToLive]_vars

\* A refusal needs a request counted less than a time to live ago: a client
\* that stays quiet for as long is let in again.
QuietClientsAreAdmitted ==
  [][\A r \in Requests : pc[r] # "refused" /\ pc'[r] = "refused" =>
       \E s \in Charged : chargedAt[s] + TimeToLive > now]_vars

\* The requests admitted in the n ticks that begin with t.
AdmittedFrom(t, n) == {r \in Admitted : chargedAt[r] \in t .. t + n - 1}

\* What the counter does limit: the requests of one time to live.  Requests
\* that overlap between read and write, and the loss of the entry, spoil it for
\* the periods begun by then, and for no later one.
LimitPerTimeToLive ==
  \A t \in disturbedAt + 1 .. MaxTime :
    Cardinality(AdmittedFrom(t, TimeToLive)) <= MaxRequests

------------------------------------------------------------------------------
(* What a comment says of the guard and its steps do not keep.             *)

\* rate-limit.guard.ts:29 - "100 requests per minute per IP", even if nothing
\* overlaps and no entry is lost.
LimitPerWindow ==
  \A t \in disturbedAt + 1 .. MaxTime :
    Cardinality(AdmittedFrom(t, Window)) <= MaxRequests
=============================================================================
