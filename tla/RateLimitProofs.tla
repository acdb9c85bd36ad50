--------------------------- MODULE RateLimitProofs ---------------------------
(***************************************************************************)
(* Theorems about the rate limiter: for every limit, every time to live    *)
(* and every finite set of requests.                                       *)
(***************************************************************************)
EXTENDS RateLimit, FiniteSetTheorems, TLAPS

------------------------------------------------------------------------------
(* The inductive invariant.                                                *)

\* What requests carry, and what the counter counts.
Counting ==
  /\ \A r \in Requests : pc[r] \in {"waiting", "writing"} => chargedAt[r] = None
  /\ \A r \in Requests : current[r] # None =>
       /\ current[r] \in 1 .. MaxRequests - 1
       /\ current[r] <= Cardinality(Charged)
  /\ count <= Cardinality(Charged) /\ count <= MaxRequests
  /\ count = 0 => expires = 0

\* No time is in the future.
Clock ==
  /\ disturbedAt \in -1 .. now
  /\ \A r \in Charged : chargedAt[r] <= now
  /\ \A r \in Requests : pc[r] = "writing" => readAt[r] \in Int /\ readAt[r] <= now

\* The entry outlives every charge that nothing has disturbed since.
Recent ==
  /\ expires <= now + TimeToLive
  /\ \A r \in Charged : chargedAt[r] + TimeToLive <= expires \/ chargedAt[r] <= disturbedAt

\* A burst of n of the requests C that ends with s, for given moments of
\* reading and charging.
EndsBurst(s, n, C, read, charged) ==
  \E f \in [1 .. n -> C] :
    /\ f[n] = s
    /\ \A i, j \in 1 .. n : f[i] = f[j] => i = j
    /\ \A i \in 1 .. n - 1 : read[f[i + 1]] - charged[f[i]] \in 0 .. TimeToLive - 1

\* The value of the counter is the length of a burst, and so is the value a
\* request has read.
Bursts ==
  /\ count > 0 => \E s \in Charged :
       /\ chargedAt[s] + TimeToLive = expires
       /\ EndsBurst(s, count, Charged, readAt, chargedAt)
  /\ \A r \in Requests : pc[r] = "writing" /\ current[r] # None => \E s \in Charged :
       /\ readAt[r] - chargedAt[s] \in 0 .. TimeToLive - 1
       /\ EndsBurst(s, current[r], Charged, readAt, chargedAt)

\* The requests charged in the time to live that begins at t.
Hits(t) == {r \in Charged : chargedAt[r] \in t .. t + TimeToLive - 1}

\* Since the last disturbance requests have read and written in turn: what the
\* one that is about to write has read is still the counter, and the counter
\* counts every period with the last charge in it.
Sequential ==
  /\ \A r, s \in Requests : pc[r] = "writing" /\ pc[s] = "writing" /\ r # s => disturbedAt = now
  /\ \A r \in Requests : pc[r] = "writing" =>
       \/ readAt[r] <= disturbedAt
       \/ IF current[r] = None THEN expires <= now ELSE current[r] = count
  /\ \A r \in Requests, s \in Charged : pc[r] = "writing" =>
       chargedAt[s] <= readAt[r] \/ chargedAt[s] <= disturbedAt
  /\ \A t \in Int : t > disturbedAt => Cardinality(Hits(t)) <= MaxRequests
  /\ \A t \in Int : t > disturbedAt /\ expires - TimeToLive \in t .. t + TimeToLive - 1 =>
       Cardinality(Hits(t)) <= count

IInv == TypeOK /\ Counting /\ Clock /\ Recent /\ Bursts /\ Sequential

------------------------------------------------------------------------------
(* Finite sets, types.                                                     *)

LEMMA LifeTime == TimeToLive \in Nat /\ TimeToLive > 0 /\ MaxRequests \in Nat /\ MaxRequests > 0
  BY LimitsAssumption DEF TimeToLive

\* The requests that were charged are finitely many.
LEMMA ChargedFinite ==
  /\ IsFiniteSet(Charged)
  /\ Cardinality(Charged) \in Nat
  BY RequestsAssumption, FS_Subset, FS_CardinalityType DEF Charged

LEMMA HitsFinite ==
  ASSUME NEW t \in Int
  PROVE  IsFiniteSet(Hits(t)) /\ Cardinality(Hits(t)) \in Nat
  BY ChargedFinite, FS_Subset, FS_CardinalityType DEF Hits

\* A request that was charged has a moment at which it was.
LEMMA ChargedTimes ==
  ASSUME TypeOK
  PROVE  \A s \in Charged : s \in Requests /\ chargedAt[s] \in Int
  BY DEF TypeOK, Charged, Times

------------------------------------------------------------------------------
(* Bursts.                                                                 *)

\* A burst is one still when others are charged.
LEMMA BurstKept ==
  ASSUME NEW C, NEW D, C \subseteq D,
         NEW read, NEW charged, NEW read2, NEW charged2,
         \A c \in C : read2[c] = read[c] /\ charged2[c] = charged[c],
         NEW n \in Nat, NEW s, EndsBurst(s, n, C, read, charged)
  PROVE  EndsBurst(s, n, D, read2, charged2)
<1>1. PICK f \in [1 .. n -> C] :
        /\ f[n] = s
        /\ \A i, j \in 1 .. n : f[i] = f[j] => i = j
        /\ \A i \in 1 .. n - 1 : read[f[i + 1]] - charged[f[i]] \in 0 .. TimeToLive - 1
  BY DEF EndsBurst
<1>2. \A i \in 1 .. n - 1 : f[i] \in C /\ f[i + 1] \in C
  OBVIOUS
<1>3. f \in [1 .. n -> D]
  OBVIOUS
<1> QED
  BY <1>1, <1>2, <1>3 DEF EndsBurst

LEMMA BurstOfOne ==
  ASSUME NEW D, NEW r \in D, NEW read, NEW charged
  PROVE  EndsBurst(r, 1, D, read, charged)
<1> DEFINE f == [i \in 1 .. 1 |-> r]
<1>1. f \in [1 .. 1 -> D] /\ f[1] = r
  OBVIOUS
<1>2. \A i, j \in 1 .. 1 : f[i] = f[j] => i = j
  OBVIOUS
<1>3. \A i \in 1 .. 1 - 1 : FALSE
  OBVIOUS
<1> HIDE DEF f
<1> QED
  BY <1>1, <1>2, <1>3 DEF EndsBurst

\* One more request that read in time after the last.
LEMMA BurstGrows ==
  ASSUME NEW C, NEW r, r \notin C,
         NEW read, NEW charged, NEW read2, NEW charged2,
         \A c \in C : read2[c] = read[c] /\ charged2[c] = charged[c],
         NEW n \in Nat, n >= 1, NEW s, EndsBurst(s, n, C, read, charged),
         read2[r] - charged[s] \in 0 .. TimeToLive - 1
  PROVE  EndsBurst(r, n + 1, C \cup {r}, read2, charged2)
<1>1. PICK f \in [1 .. n -> C] :
        /\ f[n] = s
        /\ \A i, j \in 1 .. n : f[i] = f[j] => i = j
        /\ \A i \in 1 .. n - 1 : read[f[i + 1]] - charged[f[i]] \in 0 .. TimeToLive - 1
  BY DEF EndsBurst
<1> DEFINE g == [i \in 1 .. n + 1 |-> IF i = n + 1 THEN r ELSE f[i]]
<1>2. \A i \in 1 .. n : g[i] = f[i] /\ f[i] \in C
  OBVIOUS
<1>3. g[n + 1] = r
  OBVIOUS
<1>4. g \in [1 .. n + 1 -> C \cup {r}]
  BY <1>2
<1> HIDE DEF g
<1>5. \A i, j \in 1 .. n + 1 : g[i] = g[j] => i = j
  <2> SUFFICES ASSUME NEW i \in 1 .. n + 1, NEW j \in 1 .. n + 1, g[i] = g[j] PROVE i = j
    OBVIOUS
  <2>1. CASE i \in 1 .. n /\ j \in 1 .. n
    BY <1>1, <1>2, <2>1
  <2>2. CASE ~(i \in 1 .. n /\ j \in 1 .. n)
    BY <1>2, <1>3, <2>2
  <2> QED
    BY <2>1, <2>2
<1>6. \A i \in 1 .. n : read2[g[i + 1]] - charged2[g[i]] \in 0 .. TimeToLive - 1
  <2> SUFFICES ASSUME NEW i \in 1 .. n
               PROVE  read2[g[i + 1]] - charged2[g[i]] \in 0 .. TimeToLive - 1
    OBVIOUS
  <2>1. g[i] = f[i] /\ charged2[g[i]] = charged[f[i]]
    BY <1>2
  <2>2. CASE i = n
    BY <1>1, <1>3, <2>1, <2>2
  <2>3. CASE i # n
    <3>1. i \in 1 .. n - 1 /\ i + 1 \in 1 .. n
      BY <2>3
    <3>2. g[i + 1] = f[i + 1] /\ read2[g[i + 1]] = read[f[i + 1]]
      BY <1>2, <3>1
    <3> QED
      BY <1>1, <2>1, <3>1, <3>2
  <2> QED
    BY <2>2, <2>3
<1>7. \A i \in 1 .. (n + 1) - 1 : read2[g[i + 1]] - charged2[g[i]] \in 0 .. TimeToLive - 1
  BY <1>6
<1>8. /\ g[n + 1] = r
      /\ \A i, j \in 1 .. n + 1 : g[i] = g[j] => i = j
      /\ \A i \in 1 .. (n + 1) - 1 : read2[g[i + 1]] - charged2[g[i]] \in 0 .. TimeToLive - 1
  BY <1>3, <1>5, <1>7
<1> QED
  BY <1>4, <1>8, Zenon DEF EndsBurst

------------------------------------------------------------------------------
(* A charge.                                                               *)

\* Whoever is about to write is charged, the others stay what they were.
LEMMA ChargeCharges ==
  ASSUME TypeOK, Counting, NEW r \in Requests, Charge(r)
  PROVE  /\ r \notin Charged
         /\ Charged' = Charged \cup {r}
         /\ Cardinality(Charged') = Cardinality(Charged) + 1
         /\ chargedAt'[r] = now
         /\ \A s \in Charged : chargedAt'[s] = chargedAt[s]
<1>1. chargedAt[r] = None
  BY DEF Charge, Counting
<1>2. chargedAt' = [chargedAt EXCEPT ![r] = now] /\ now # None
  BY NoneAssumption DEF Charge, TypeOK
<1>3. r \notin Charged /\ Charged' = Charged \cup {r}
  BY <1>1, <1>2 DEF Charged, TypeOK
<1>4. Cardinality(Charged') = Cardinality(Charged) + 1
  BY <1>3, ChargedFinite, FS_AddElement
<1>5. chargedAt'[r] = now /\ \A s \in Charged : chargedAt'[s] = chargedAt[s]
  BY <1>2, <1>3 DEF TypeOK, Charged
<1> QED
  BY <1>3, <1>4, <1>5

\* The value written is one more than a value below the limit.
LEMMA ChargeCounts ==
  ASSUME TypeOK, Counting, NEW r \in Requests, Charge(r)
  PROVE  /\ count' \in Nat /\ count' > 0
         /\ count' <= MaxRequests
         /\ count' <= Cardinality(Charged) + 1
         /\ count' = IF current[r] = None THEN 1 ELSE current[r] + 1
<1>1. count' = IF current[r] = None THEN 1 ELSE current[r] + 1
  BY DEF Charge, Incremented
<1> QED
  BY <1>1, LifeTime, ChargedFinite DEF Counting

\* A charge keeps the types, the counts and the times.
LEMMA ChargeBasics ==
  ASSUME IInv, NEW r \in Requests, Charge(r),
         pc' = [pc EXCEPT ![r] = "allowed"] \/ pc' = [pc EXCEPT ![r] = "error"]
  PROVE  TypeOK' /\ Counting' /\ Clock' /\ Recent'
<1>1. TypeOK /\ Counting /\ Clock /\ Recent
  BY DEF IInv
<1>2. UNCHANGED <<now, current, readAt, disturbedAt>> /\ expires' = now + TimeToLive
      /\ chargedAt' = [chargedAt EXCEPT ![r] = now]
  BY DEF Charge
<1>3. TypeOK'
  <2>1. now \in Nat /\ now \in Times /\ now + TimeToLive \in Nat
    BY <1>1, LifeTime DEF TypeOK, Times
  <2> QED
    BY <1>1, <1>2, <2>1, ChargeCounts DEF TypeOK
<1>4. Counting'
  <2>1. \A s \in Requests : pc'[s] \in {"waiting", "writing"} => chargedAt'[s] = None
    BY <1>1, <1>2 DEF TypeOK, Counting
  <2>2. Cardinality(Charged') = Cardinality(Charged) + 1 /\ Cardinality(Charged) \in Nat
    BY <1>1, ChargeCharges, ChargedFinite
  <2>3. \A s \in Requests : current'[s] # None =>
          /\ current'[s] \in 1 .. MaxRequests - 1
          /\ current'[s] <= Cardinality(Charged')
    BY <1>1, <1>2, <2>2, LifeTime DEF Counting
  <2>4. count' <= Cardinality(Charged') /\ count' <= MaxRequests /\ count' # 0
    BY <1>1, <2>2, ChargeCounts
  <2> QED
    BY <2>1, <2>3, <2>4 DEF Counting
<1>5. Clock'
  <2>1. \A s \in Charged' : chargedAt'[s] <= now
    BY <1>1, ChargeCharges DEF Clock, TypeOK
  <2>2. \A s \in Requests : pc'[s] = "writing" => pc[s] = "writing"
    BY <1>1 DEF TypeOK
  <2> QED
    BY <1>1, <1>2, <2>1, <2>2 DEF Clock
<1>6. Recent'
  <2>1. \A s \in Charged' : chargedAt'[s] \in Int /\ chargedAt'[s] <= now
    BY <1>3, <1>5, <1>2, ChargedTimes DEF Clock, Charged, TypeOK, Times
  <2> QED
    BY <1>1, <1>2, <2>1, LifeTime DEF Recent, TypeOK, TimeToLive
<1> QED
  BY <1>3, <1>4, <1>5, <1>6

\* The charge of a request makes its burst one longer.
LEMMA ChargeBursts ==
  ASSUME IInv, NEW r \in Requests, Charge(r),
         pc' = [pc EXCEPT ![r] = "allowed"] \/ pc' = [pc EXCEPT ![r] = "error"]
  PROVE  Bursts'
<1>1. TypeOK /\ Counting /\ Clock /\ Bursts
  BY DEF IInv
<1>2. UNCHANGED <<now, current, readAt>> /\ expires' = now + TimeToLive /\ pc[r] = "writing"
  BY DEF Charge
<1>3. /\ r \notin Charged
      /\ Charged' = Charged \cup {r}
      /\ chargedAt'[r] = now
      /\ \A s \in Charged : chargedAt'[s] = chargedAt[s] /\ readAt'[s] = readAt[s]
  BY <1>1, <1>2, ChargeCharges
<1>4. EndsBurst(r, count', Charged', readAt', chargedAt')
  <2>1. CASE current[r] = None
    <3>1. count' = 1
      BY <1>1, <2>1, ChargeCounts
    <3> QED
      BY <1>3, <3>1, BurstOfOne
  <2>2. CASE current[r] # None
    <3>1. current[r] \in Nat /\ current[r] >= 1 /\ count' = current[r] + 1
      BY <1>1, <2>2, ChargeCounts, LifeTime DEF Counting
    <3>2. PICK s \in Charged :
            /\ readAt[r] - chargedAt[s] \in 0 .. TimeToLive - 1
            /\ EndsBurst(s, current[r], Charged, readAt, chargedAt)
      BY <1>1, <1>2, <2>2 DEF Bursts
    <3>3. readAt'[r] - chargedAt[s] \in 0 .. TimeToLive - 1
      BY <1>2, <3>2
    <3>4. EndsBurst(r, current[r] + 1, Charged \cup {r}, readAt', chargedAt')
      BY <1>3, <3>1, <3>2, <3>3, BurstGrows
    <3> QED
      BY <1>3, <3>1, <3>4
  <2> QED
    BY <2>1, <2>2
<1>5. ASSUME NEW q \in Requests, pc'[q] = "writing", current'[q] # None
      PROVE  \E s \in Charged' :
               /\ readAt'[q] - chargedAt'[s] \in 0 .. TimeToLive - 1
               /\ EndsBurst(s, current'[q], Charged', readAt', chargedAt')
  <2>1. pc[q] = "writing" /\ current'[q] = current[q] /\ readAt'[q] = readAt[q]
    BY <1>1, <1>2, <1>5 DEF TypeOK
  <2>2. current[q] \in Nat
    BY <1>1, <1>5, <2>1, LifeTime DEF Counting
  <2>3. PICK s \in Charged :
          /\ readAt[q] - chargedAt[s] \in 0 .. TimeToLive - 1
          /\ EndsBurst(s, current[q], Charged, readAt, chargedAt)
    BY <1>1, <1>5, <2>1 DEF Bursts
  <2>4. EndsBurst(s, current[q], Charged', readAt', chargedAt')
    BY <1>3, <2>2, <2>3, BurstKept
  <2> QED
    BY <1>3, <2>1, <2>3, <2>4
<1>6. \E s \in Charged' : /\ chargedAt'[s] + TimeToLive = expires'
                          /\ EndsBurst(s, count', Charged', readAt', chargedAt')
  BY <1>2, <1>3, <1>4
<1> QED
  BY <1>5, <1>6 DEF Bursts, TimeToLive

\* A charge keeps every period since the last disturbance within the limit.
LEMMA ChargeSequential ==
  ASSUME IInv, NEW r \in Requests, Charge(r),
         pc' = [pc EXCEPT ![r] = "allowed"] \/ pc' = [pc EXCEPT ![r] = "error"]
  PROVE  Sequential'
<1>1. TypeOK /\ Counting /\ Clock /\ Recent /\ Sequential
  BY DEF IInv
<1>2. UNCHANGED <<now, current, readAt, disturbedAt>> /\ expires' = now + TimeToLive
  BY DEF Charge
<1>3. pc[r] = "writing"
  BY DEF Charge
<1>4. \A s \in Requests : pc'[s] = "writing" => s # r /\ pc[s] = "writing" /\ disturbedAt = now
  BY <1>1, <1>3 DEF TypeOK, Sequential
<1>5. /\ now \in Nat /\ expires \in Nat /\ count \in Nat /\ count' \in Nat
      /\ TimeToLive \in Nat /\ TimeToLive > 0 /\ MaxRequests \in Nat
      /\ disturbedAt \in Int /\ disturbedAt <= now /\ TimeToLive' = TimeToLive
      /\ count' > 0 /\ count' <= MaxRequests
  BY <1>1, ChargeCounts, LifeTime DEF TypeOK, Clock, TimeToLive
<1>6. \A s \in Charged : /\ chargedAt[s] \in Int
                         /\ \/ chargedAt[s] + TimeToLive <= expires
                            \/ chargedAt[s] <= disturbedAt
  BY <1>1, ChargedTimes DEF Recent
<1>7. ASSUME NEW t \in Int, t > disturbedAt, now \in t .. t + TimeToLive - 1
      PROVE  Cardinality(Hits(t)') <= count'
  <2>1. Hits(t)' = Hits(t) \cup {r} /\ r \notin Hits(t)
    BY <1>1, <1>5, <1>7, ChargeCharges DEF Hits
  <2>2. Cardinality(Hits(t)') = Cardinality(Hits(t)) + 1 /\ Cardinality(Hits(t)) \in Nat
    BY <2>1, HitsFinite, FS_AddElement
  <2>3. CASE Hits(t) = {}
    BY <1>5, <2>2, <2>3, FS_EmptySet
  <2>4. CASE Hits(t) # {}
    <3>1. PICK s \in Charged : chargedAt[s] \in t .. t + TimeToLive - 1
      BY <2>4 DEF Hits
    <3>2. chargedAt[s] > disturbedAt
      BY <1>5, <1>7, <3>1
    <3>3. readAt[r] \in Int /\ readAt[r] > disturbedAt
      BY <1>1, <1>3, <1>5, <1>6, <3>2 DEF Sequential, Clock
    <3>4. IF current[r] = None THEN expires <= now ELSE current[r] = count
      BY <1>1, <1>3, <1>5, <3>3 DEF Sequential
    <3>5. expires - TimeToLive \in t .. t + TimeToLive - 1
      BY <1>1, <1>5, <1>6, <1>7, <3>1, <3>2 DEF Recent
    <3>6. Cardinality(Hits(t)) <= count
      BY <1>1, <1>7, <3>5 DEF Sequential
    <3>7. current[r] = count /\ current[r] # None
      BY <1>5, <1>7, <3>4, <3>5
    <3>8. count' = count + 1
      BY <1>1, <3>7, ChargeCounts
    <3> QED
      BY <1>5, <2>2, <3>6, <3>8
  <2> QED
    BY <2>3, <2>4
<1>8. ASSUME NEW t \in Int, t > disturbedAt
      PROVE  Cardinality(Hits(t)') <= MaxRequests
  <2>1. CASE now \in t .. t + TimeToLive - 1
    <3>1. IsFiniteSet(Hits(t)')
      <4>1. Hits(t)' = Hits(t) \cup {r}
        BY <1>1, <1>5, <2>1, ChargeCharges DEF Hits
      <4>2. IsFiniteSet(Hits(t))
        BY HitsFinite
      <4>3. IsFiniteSet(Hits(t) \cup {r})
        BY <4>2, FS_AddElement
      <4> QED
        BY <4>1, <4>3
    <3>2. Cardinality(Hits(t)') \in Nat
      BY <3>1, FS_CardinalityType
    <3> QED
      BY <1>5, <1>7, <1>8, <2>1, <3>2
  <2>2. CASE now \notin t .. t + TimeToLive - 1
    <3>1. Hits(t)' = Hits(t)
      BY <1>1, <1>5, <2>2, ChargeCharges DEF Hits
    <3> QED
      BY <1>1, <1>8, <3>1 DEF Sequential
  <2> QED
    BY <2>1, <2>2
<1>9. \A t \in Int : t > disturbedAt' /\ expires' - TimeToLive' \in t .. t + TimeToLive' - 1 =>
          Cardinality(Hits(t)') <= count'
  <2>1. expires' - TimeToLive' = now
    BY <1>2, <1>5
  <2> QED
    BY <1>2, <1>5, <1>7, <2>1
<1>10. \A s \in Requests : pc'[s] = "writing" =>
         \/ readAt'[s] <= disturbedAt'
         \/ IF current'[s] = None THEN expires' <= now' ELSE current'[s] = count'
  BY <1>1, <1>2, <1>4 DEF Clock
<1>11. \A s \in Requests, u \in Charged' : pc'[s] = "writing" =>
         chargedAt'[u] <= readAt'[s] \/ chargedAt'[u] <= disturbedAt'
  <2>1. \A u \in Charged' : chargedAt'[u] <= now'
    BY ChargeBasics DEF Clock
  <2> QED
    BY <1>2, <1>4, <2>1
<1>12. \A s, u \in Requests : pc'[s] = "writing" /\ pc'[u] = "writing" /\ s # u => disturbedAt' = now'
  BY <1>2, <1>4
<1> QED
  BY <1>2, <1>8, <1>9, <1>10, <1>11, <1>12 DEF Sequential

------------------------------------------------------------------------------
(* The other steps.                                                        *)

LEMMA Initially == Init => IInv
<1> SUFFICES ASSUME Init PROVE IInv
  OBVIOUS
<1>1. Charged = {}
  BY DEF Init, Charged
<1>2. Cardinality(Charged) = 0 /\ \A t \in Int : Cardinality(Hits(t)) = 0
  BY <1>1, FS_EmptySet DEF Hits
<1>3. TypeOK
  BY DEF Init, TypeOK, Times
<1>4. Counting
  BY <1>2, LifeTime DEF Init, Counting
<1>5. Clock
  BY <1>1 DEF Init, Clock
<1>6. Recent
  BY <1>1, LifeTime DEF Init, Recent
<1>7. Bursts
  BY DEF Init, Bursts
<1>8. Sequential
  BY <1>1, <1>2, LifeTime DEF Init, Sequential
<1> QED
  BY <1>3, <1>4, <1>5, <1>6, <1>7, <1>8 DEF IInv

\* A step that leaves the charges alone leaves what is counted.
LEMMA ChargesKept ==
  ASSUME UNCHANGED chargedAt
  PROVE  Charged' = Charged /\ \A t : Hits(t)' = Hits(t)
  BY DEF Charged, Hits, TimeToLive

\* What NoteOverlap notes: a moment not before the one noted last, and the
\* present one whenever two requests are about to write.
LEMMA Noted ==
  ASSUME TypeOK, Clock, NoteOverlap, now' \in Nat, now' >= now
  PROVE  /\ disturbedAt' \in Int /\ disturbedAt' \in -1 .. now'
         /\ disturbedAt' >= disturbedAt
         /\ \A r, s \in Requests : pc'[r] = "writing" /\ pc'[s] = "writing" /\ r # s =>
              disturbedAt' = now'
<1>1. disturbedAt \in Int /\ disturbedAt \in -1 .. now /\ now \in Nat
  BY DEF TypeOK, Clock
<1>2. disturbedAt' = now' \/ disturbedAt' = disturbedAt
  BY DEF NoteOverlap
<1>3. \A r, s \in Requests : pc'[r] = "writing" /\ pc'[s] = "writing" /\ r # s =>
        disturbedAt' = now'
  BY DEF NoteOverlap, Overlap
<1> QED
  BY <1>1, <1>2, <1>3

\* What a request reads is below the limit and counts requests charged.
LEMMA LiveCounts ==
  ASSUME TypeOK, Counting, ~Full(Live)
  PROVE  /\ Live \in Int \cup {None}
         /\ Live # None => /\ Live = count
                           /\ now < expires
                           /\ Live \in 1 .. MaxRequests - 1
                           /\ Live <= Cardinality(Charged)
         /\ Live = None => expires <= now
<1>1. count \in Nat /\ count # None /\ MaxRequests \in Nat /\ now \in Nat /\ expires \in Nat
  BY NoneAssumption, LimitsAssumption DEF TypeOK
<1>2. CASE now < expires
  <2>1. Live = count /\ count # 0
    BY <1>1, <1>2 DEF Live, Counting
  <2> QED
    BY <1>1, <1>2, <2>1 DEF Full, Counting
<1>3. CASE ~(now < expires)
  <2>1. Live = None
    BY <1>3 DEF Live
  <2> QED
    BY <1>1, <1>3, <2>1
<1> QED
  BY <1>2, <1>3

\* A step that keeps the charges and their readings, lets nobody begin to
\* write, and keeps the counter or loses it, keeps the bursts.
LEMMA BurstsKept ==
  ASSUME TypeOK, Counting, Bursts,
         UNCHANGED <<current, readAt, chargedAt>>,
         \A r \in Requests : pc'[r] = "writing" => pc[r] = "writing",
         UNCHANGED entryVars \/ count' = 0
  PROVE  Bursts'
<1>1. Charged' = Charged
  BY ChargesKept
<1>2. ASSUME count' > 0
      PROVE  \E s \in Charged' : /\ chargedAt'[s] + TimeToLive = expires'
                                 /\ EndsBurst(s, count', Charged', readAt', chargedAt')
  <2>1. count' = count /\ expires' = expires /\ count > 0
    BY <1>2 DEF entryVars
  <2> QED
    BY <1>1, <2>1 DEF Bursts
<1>3. ASSUME NEW r \in Requests, pc'[r] = "writing", current'[r] # None
      PROVE  \E s \in Charged' :
               /\ readAt'[r] - chargedAt'[s] \in 0 .. TimeToLive - 1
               /\ EndsBurst(s, current'[r], Charged', readAt', chargedAt')
  BY <1>1, <1>3 DEF Bursts
<1> QED
  BY <1>2, <1>3 DEF Bursts, TimeToLive

LEMMA ReadStep ==
  ASSUME IInv, NEW r \in Requests, Read(r)
  PROVE  IInv'
<1>1. TypeOK /\ Counting /\ Clock /\ Recent /\ Bursts /\ Sequential
  BY DEF IInv
<1>2. /\ pc[r] = "waiting" /\ ~Full(Live)
      /\ current' = [current EXCEPT ![r] = Live]
      /\ readAt' = [readAt EXCEPT ![r] = now]
      /\ pc' = [pc EXCEPT ![r] = "writing"]
      /\ UNCHANGED <<now, count, expires, chargedAt>>
      /\ NoteOverlap
  BY DEF Read, entryVars
<1>3. /\ now \in Nat /\ now' = now /\ disturbedAt \in Int
      /\ TimeToLive \in Nat /\ TimeToLive > 0 /\ TimeToLive' = TimeToLive
  BY <1>1, <1>2, LifeTime DEF TypeOK, TimeToLive
<1>4. /\ disturbedAt' \in Int /\ disturbedAt' \in -1 .. now' /\ disturbedAt' >= disturbedAt
      /\ \A q, s \in Requests : pc'[q] = "writing" /\ pc'[s] = "writing" /\ q # s =>
           disturbedAt' = now'
  BY <1>1, <1>2, <1>3, Noted
<1>5. Charged' = Charged /\ \A t : Hits(t)' = Hits(t)
  BY <1>2, ChargesKept
<1>6. /\ current'[r] = Live /\ readAt'[r] = now /\ pc'[r] = "writing"
      /\ \A s \in Requests \ {r} :
           current'[s] = current[s] /\ readAt'[s] = readAt[s] /\ pc'[s] = pc[s]
  BY <1>1, <1>2 DEF TypeOK
<1>7. r \notin Charged
  BY <1>1, <1>2 DEF Counting, Charged
<1>8. TypeOK'
  <2>1. now \in Times
    BY <1>3 DEF Times
  <2> QED
    BY <1>1, <1>2, <1>4, <2>1, LiveCounts DEF TypeOK
<1>9. Counting'
  <2>1. \A s \in Requests : pc'[s] \in {"waiting", "writing"} => chargedAt'[s] = None
    BY <1>1, <1>2, <1>6 DEF Counting
  <2>2. \A s \in Requests : current'[s] # None =>
          /\ current'[s] \in 1 .. MaxRequests - 1
          /\ current'[s] <= Cardinality(Charged')
    BY <1>1, <1>2, <1>5, <1>6, LiveCounts DEF Counting
  <2> QED
    BY <1>1, <1>2, <1>5, <2>1, <2>2 DEF Counting
<1>10. Clock'
  BY <1>1, <1>2, <1>3, <1>4, <1>5, <1>6 DEF Clock
<1>11. Recent'
  <2>1. \A s \in Charged : chargedAt[s] \in Int
    BY <1>1, ChargedTimes
  <2> QED
    BY <1>1, <1>2, <1>3, <1>4, <1>5, <2>1 DEF Recent
<1>12. Bursts'
  <2>1. \A s \in Charged : chargedAt'[s] = chargedAt[s] /\ readAt'[s] = readAt[s]
    BY <1>2, <1>6, <1>7, ChargedTimes, <1>1
  <2>2. ASSUME count > 0
        PROVE  \E s \in Charged : /\ chargedAt[s] + TimeToLive = expires
                                  /\ EndsBurst(s, count, Charged, readAt', chargedAt')
    <3>1. PICK s \in Charged : /\ chargedAt[s] + TimeToLive = expires
                               /\ EndsBurst(s, count, Charged, readAt, chargedAt)
      BY <1>1, <2>2 DEF Bursts
    <3>2. count \in Nat
      BY <1>1 DEF TypeOK
    <3>3. EndsBurst(s, count, Charged, readAt', chargedAt')
      BY <2>1, <3>1, <3>2, BurstKept
    <3> QED
      BY <3>1, <3>3
  <2>3. ASSUME NEW q \in Requests, pc'[q] = "writing", current'[q] # None
        PROVE  \E s \in Charged :
                 /\ readAt'[q] - chargedAt[s] \in 0 .. TimeToLive - 1
                 /\ EndsBurst(s, current'[q], Charged, readAt', chargedAt')
    <3>1. CASE q = r
      <4>1. /\ current'[q] = count /\ now < expires
            /\ count \in Nat /\ count > 0 /\ expires \in Nat
        BY <1>1, <1>2, <1>6, <2>3, <3>1, LiveCounts DEF TypeOK
      <4>2. PICK s \in Charged : /\ chargedAt[s] + TimeToLive = expires
                                 /\ EndsBurst(s, count, Charged, readAt', chargedAt')
        BY <2>2, <4>1
      <4>3. chargedAt[s] \in Int /\ chargedAt[s] <= now
        BY <1>1, ChargedTimes DEF Clock
      <4>4. readAt'[q] - chargedAt[s] \in 0 .. TimeToLive - 1
        BY <1>3, <1>6, <3>1, <4>1, <4>2, <4>3
      <4> QED
        BY <4>1, <4>2, <4>4
    <3>2. CASE q # r
      <4>1. current'[q] = current[q] /\ readAt'[q] = readAt[q] /\ pc[q] = "writing"
        BY <1>6, <2>3, <3>2
      <4>2. current[q] \in Nat /\ current[q] # None
        BY <1>1, <2>3, <4>1, LifeTime DEF Counting
      <4>3. PICK s \in Charged :
              /\ readAt[q] - chargedAt[s] \in 0 .. TimeToLive - 1
              /\ EndsBurst(s, current[q], Charged, readAt, chargedAt)
        BY <1>1, <4>1, <4>2 DEF Bursts
      <4>4. EndsBurst(s, current[q], Charged, readAt', chargedAt')
        BY <2>1, <4>2, <4>3, BurstKept
      <4> QED
        BY <4>1, <4>3, <4>4
    <3> QED
      BY <3>1, <3>2
  <2> QED
    BY <1>2, <1>5, <2>2, <2>3 DEF Bursts, TimeToLive
<1>13. Sequential'
  <2>1. \A s \in Requests : pc'[s] = "writing" =>
          \/ readAt'[s] <= disturbedAt'
          \/ IF current'[s] = None THEN expires' <= now' ELSE current'[s] = count'
    <3>1. IF current'[r] = None THEN expires' <= now' ELSE current'[r] = count'
      BY <1>1, <1>2, <1>6, LiveCounts
    <3>2. ASSUME NEW s \in Requests \ {r}, pc'[s] = "writing" PROVE readAt'[s] <= disturbedAt'
      BY <1>1, <1>3, <1>4, <1>6, <3>2 DEF Clock
    <3> QED
      BY <3>1, <3>2
  <2>2. \A s \in Requests, u \in Charged' : pc'[s] = "writing" =>
          chargedAt'[u] <= readAt'[s] \/ chargedAt'[u] <= disturbedAt'
    <3>1. \A u \in Charged : chargedAt[u] \in Int /\ chargedAt[u] <= now
      BY <1>1, ChargedTimes DEF Clock
    <3>2. \A u \in Charged : chargedAt'[u] <= readAt'[r]
      BY <1>2, <1>6, <3>1
    <3>3. ASSUME NEW s \in Requests \ {r}, pc'[s] = "writing", NEW u \in Charged
          PROVE  chargedAt'[u] <= disturbedAt'
      BY <1>2, <1>3, <1>4, <1>6, <3>1, <3>3
    <3> QED
      BY <1>5, <3>2, <3>3
  <2>3. \A t \in Int : t > disturbedAt' => t > disturbedAt
    BY <1>3, <1>4
  <2>4. \A t \in Int : t > disturbedAt' => Cardinality(Hits(t)') <= MaxRequests
    BY <1>1, <1>5, <2>3 DEF Sequential
  <2>5. \A t \in Int : t > disturbedAt' /\ expires' - TimeToLive' \in t .. t + TimeToLive' - 1 =>
          Cardinality(Hits(t)') <= count'
    BY <1>1, <1>2, <1>3, <1>5, <2>3 DEF Sequential
  <2> QED
    BY <1>4, <2>1, <2>2, <2>4, <2>5 DEF Sequential
<1> QED
  BY <1>8, <1>9, <1>10, <1>11, <1>12, <1>13 DEF IInv

\* A request that ends without a write.
LEMMA EndStep ==
  ASSUME IInv, NEW r \in Requests,
         \/ Refuse(r)
         \/ RedisFails(r)
  PROVE  IInv'
<1>1. TypeOK /\ Counting /\ Clock /\ Recent /\ Bursts /\ Sequential
  BY DEF IInv
<1>2. /\ UNCHANGED <<now, count, expires, current, readAt, chargedAt, disturbedAt>>
      /\ pc' = [pc EXCEPT ![r] = "refused"] \/ pc' = [pc EXCEPT ![r] = "error"]
      /\ pc[r] \in {"waiting", "writing"}
  BY DEF Refuse, RedisFails, entryVars
<1>3. /\ \A s \in Requests : pc'[s] \in {"waiting", "writing"} =>
           pc[s] \in {"waiting", "writing"} /\ pc'[s] = pc[s]
      /\ \A s \in Requests : pc'[s] = "writing" => pc[s] = "writing"
  BY <1>1, <1>2 DEF TypeOK
<1>4. Charged' = Charged /\ (\A t : Hits(t)' = Hits(t)) /\ TimeToLive' = TimeToLive
  BY <1>2, ChargesKept DEF TimeToLive
<1>5. TypeOK'
  BY <1>1, <1>2 DEF TypeOK
<1>6. Counting'
  BY <1>1, <1>2, <1>3, <1>4 DEF Counting
<1>7. Clock' /\ Recent'
  BY <1>1, <1>2, <1>3, <1>4 DEF Clock, Recent
<1>8. Bursts'
  BY <1>1, <1>2, <1>3, BurstsKept DEF entryVars
<1>9. Sequential'
  BY <1>1, <1>2, <1>3, <1>4 DEF Sequential
<1> QED
  BY <1>5, <1>6, <1>7, <1>8, <1>9 DEF IInv

LEMMA ChargeStep ==
  ASSUME IInv, NEW r \in Requests, WriteBack(r) \/ WriteUnacknowledged(r)
  PROVE  IInv'
<1>1. Charge(r) /\ (pc' = [pc EXCEPT ![r] = "allowed"] \/ pc' = [pc EXCEPT ![r] = "error"])
  BY DEF WriteBack, WriteUnacknowledged
<1> QED
  BY <1>1, ChargeBasics, ChargeBursts, ChargeSequential DEF IInv

\* Whoever has read has done so by the moment the entry is lost.
LEMMA ForgetStep ==
  ASSUME IInv, Forget
  PROVE  IInv'
<1>1. TypeOK /\ Counting /\ Clock /\ Recent /\ Bursts /\ Sequential
  BY DEF IInv
<1>2. /\ count' = 0 /\ expires' = 0 /\ disturbedAt' = now
      /\ UNCHANGED <<now, pc, current, readAt, chargedAt>>
  BY DEF Forget, requestVars
<1>3. /\ now \in Nat /\ disturbedAt \in Int /\ disturbedAt <= now
      /\ TimeToLive \in Nat /\ TimeToLive > 0 /\ TimeToLive' = TimeToLive
  BY <1>1, LifeTime DEF TypeOK, Clock, TimeToLive
<1>4. Charged' = Charged /\ \A t : Hits(t)' = Hits(t)
  BY <1>2, ChargesKept
<1>5. TypeOK'
  BY <1>1, <1>2 DEF TypeOK
<1>6. Counting'
  BY <1>1, <1>2, <1>4, ChargedFinite, LifeTime DEF Counting
<1>7. Clock'
  BY <1>1, <1>2, <1>3, <1>4 DEF Clock
<1>8. Recent'
  BY <1>1, <1>2, <1>3, <1>4 DEF Recent, Clock
<1>9. Bursts'
  BY <1>1, <1>2, BurstsKept
<1>10. Sequential'
  <2>1. \A t \in Int : t > disturbedAt' => t > disturbedAt
    BY <1>2, <1>3
  <2>2. \A t \in Int : t > disturbedAt' => ~(expires' - TimeToLive' \in t .. t + TimeToLive' - 1)
    BY <1>2, <1>3
  <2> QED
    BY <1>1, <1>2, <1>3, <1>4, <2>1, <2>2 DEF Sequential, Clock
<1> QED
  BY <1>5, <1>6, <1>7, <1>8, <1>9, <1>10 DEF IInv

LEMMA TickStep ==
  ASSUME IInv, Tick
  PROVE  IInv'
<1>1. TypeOK /\ Counting /\ Clock /\ Recent /\ Bursts /\ Sequential
  BY DEF IInv
<1>2. /\ now' = now + 1 /\ NoteOverlap
      /\ UNCHANGED <<count, expires, pc, current, readAt, chargedAt>>
  BY DEF Tick, entryVars, requestVars
<1>3. /\ now \in Nat /\ expires \in Nat /\ now' \in Nat /\ now' >= now /\ disturbedAt \in Int
      /\ TimeToLive \in Nat /\ TimeToLive > 0 /\ TimeToLive' = TimeToLive
  BY <1>1, <1>2, LifeTime DEF TypeOK, TimeToLive
<1>4. /\ disturbedAt' \in Int /\ disturbedAt' \in -1 .. now' /\ disturbedAt' >= disturbedAt
      /\ \A q, s \in Requests : pc'[q] = "writing" /\ pc'[s] = "writing" /\ q # s =>
           disturbedAt' = now'
  BY <1>1, <1>2, <1>3, Noted
<1>5. Charged' = Charged /\ \A t : Hits(t)' = Hits(t)
  BY <1>2, ChargesKept
<1>6. \A s \in Charged : chargedAt[s] \in Int
  BY <1>1, ChargedTimes
<1>7. TypeOK'
  BY <1>1, <1>2, <1>3, <1>4 DEF TypeOK
<1>8. Counting'
  BY <1>1, <1>2, <1>5 DEF Counting
<1>9. Clock'
  BY <1>1, <1>2, <1>3, <1>4, <1>5, <1>6 DEF Clock
<1>10. Recent'
  BY <1>1, <1>2, <1>3, <1>4, <1>5, <1>6 DEF Recent
<1>11. Bursts'
  BY <1>1, <1>2, BurstsKept DEF entryVars
<1>12. Sequential'
  <2>1. \A t \in Int : t > disturbedAt' => t > disturbedAt
    BY <1>3, <1>4
  <2>2. \A s \in Requests : pc'[s] = "writing" =>
          \/ readAt'[s] <= disturbedAt'
          \/ IF current'[s] = None THEN expires' <= now' ELSE current'[s] = count'
    <3>1. \A s \in Requests : pc[s] = "writing" => readAt[s] \in Int
      BY <1>1 DEF Clock
    <3> QED
      BY <1>1, <1>2, <1>3, <1>4, <3>1 DEF Sequential
  <2>3. \A s \in Requests, u \in Charged' : pc'[s] = "writing" =>
          chargedAt'[u] <= readAt'[s] \/ chargedAt'[u] <= disturbedAt'
    BY <1>1, <1>2, <1>3, <1>4, <1>5, <1>6 DEF Sequential
  <2>4. \A t \in Int : t > disturbedAt' => Cardinality(Hits(t)') <= MaxRequests
    BY <1>1, <1>5, <2>1 DEF Sequential
  <2>5. \A t \in Int : t > disturbedAt' /\ expires' - TimeToLive' \in t .. t + TimeToLive' - 1 =>
          Cardinality(Hits(t)') <= count'
    BY <1>1, <1>2, <1>3, <1>5, <2>1 DEF Sequential
  <2> QED
    BY <1>4, <2>2, <2>3, <2>4, <2>5 DEF Sequential
<1> QED
  BY <1>7, <1>8, <1>9, <1>10, <1>11, <1>12 DEF IInv

LEMMA IdleStep ==
  ASSUME IInv, UNCHANGED vars
  PROVE  IInv'
<1>1. UNCHANGED <<now, count, expires, pc, current, readAt, chargedAt, disturbedAt>>
  BY DEF vars, entryVars, requestVars
<1>2. Charged' = Charged /\ (\A t : Hits(t)' = Hits(t)) /\ TimeToLive' = TimeToLive
  BY <1>1, ChargesKept DEF TimeToLive
<1>3. TypeOK' /\ Counting' /\ Clock' /\ Recent'
  BY <1>1, <1>2 DEF IInv, TypeOK, Counting, Clock, Recent
<1>4. Bursts'
  BY <1>1, BurstsKept DEF IInv, entryVars
<1>5. Sequential'
  BY <1>1, <1>2 DEF IInv, Sequential
<1> QED
  BY <1>3, <1>4, <1>5 DEF IInv

LEMMA Inductive == IInv /\ [Next]_vars => IInv'
<1> SUFFICES ASSUME IInv, [Next]_vars PROVE IInv'
  OBVIOUS
<1>1. CASE \E r \in Requests : Read(r) \/ Refuse(r) \/ WriteBack(r)
                                 \/ WriteUnacknowledged(r) \/ RedisFails(r)
  BY <1>1, ReadStep, EndStep, ChargeStep
<1>2. CASE Forget
  BY <1>2, ForgetStep
<1>3. CASE Tick
  BY <1>3, TickStep
<1>4. CASE UNCHANGED vars
  BY <1>4, IdleStep
<1> QED
  BY <1>1, <1>2, <1>3, <1>4 DEF Next

------------------------------------------------------------------------------
(* The theorems.                                                           *)

\* The inductive invariant holds of every behaviour.
THEOREM Invariance == Spec => []IInv
<1> QED
  BY Initially, Inductive, PTL DEF Spec

\* checkRateLimit, redis.service.ts:77: every variable keeps its type.
THEOREM TypeCorrect == Spec => []TypeOK
<1>1. IInv => TypeOK
  BY DEF IInv
<1> QED
  BY <1>1, Invariance, PTL

\* A counter never passes the limit or the number of requests it was charged
\* for, however its readers and writers interleave and whenever it is lost.
THEOREM NobodyOvercharged == Spec => []NeverOvercharged
<1>1. IInv => NeverOvercharged
  BY DEF IInv, Counting, NeverOvercharged
<1> QED
  BY <1>1, Invariance, PTL

\* A request that is refused has found a live counter at the limit.
LEMMA RefusedWhenFull ==
  ASSUME IInv, [Next]_vars, NEW r \in Requests, pc[r] # "refused", pc'[r] = "refused"
  PROVE  now < expires /\ count = MaxRequests
<1>1. TypeOK /\ Counting
  BY DEF IInv
<1>2. \E s \in Requests : Refuse(s)
  BY <1>1 DEF Next, vars, Read, WriteBack, WriteUnacknowledged, Charge,
              RedisFails, Forget, Tick, requestVars, TypeOK
<1>3. now < expires /\ count >= MaxRequests
  BY <1>2 DEF Refuse, Full, Live
<1> QED
  BY <1>1, <1>3, LifeTime DEF Counting, TypeOK

\* The guard answers 429 only to an address with a burst of as many charged
\* requests as it is allowed, one following another within the time to live of
\* the entry and the last of them a time to live ago or less, however requests
\* overlap and whenever the entry is lost.
THEOREM RefusalsEndABurst == Spec => RefusalsEndBursts
<1>1. ASSUME IInv, [Next]_vars,
             NEW r \in Requests, pc[r] # "refused", pc'[r] = "refused"
      PROVE  \E f \in [1 .. MaxRequests -> Charged] :
               /\ Burst(f, MaxRequests)
               /\ now - chargedAt[f[MaxRequests]] < TimeToLive
  <2>1. TypeOK /\ Bursts
    BY <1>1 DEF IInv
  <2>2. now < expires /\ count = MaxRequests
    BY <1>1, RefusedWhenFull
  <2>3. PICK s \in Charged : /\ chargedAt[s] + TimeToLive = expires
                             /\ EndsBurst(s, MaxRequests, Charged, readAt, chargedAt)
    BY <2>1, <2>2, LifeTime DEF Bursts
  <2>4. \E f \in [1 .. MaxRequests -> Charged] : f[MaxRequests] = s /\ Burst(f, MaxRequests)
    BY <2>3 DEF EndsBurst, Burst
  <2>5. now - chargedAt[s] < TimeToLive
    BY <2>1, <2>2, <2>3, ChargedTimes, LifeTime DEF TypeOK
  <2> QED
    BY <2>4, <2>5
<1>2. IInv /\ [Next]_vars =>
        [\A r \in Requests : pc[r] # "refused" /\ pc'[r] = "refused" =>
           \E f \in [1 .. MaxRequests -> Charged] :
             /\ Burst(f, MaxRequests)
             /\ now - chargedAt[f[MaxRequests]] < TimeToLive]_vars
  BY <1>1
<1> QED
  BY <1>2, Invariance, PTL DEF Spec, RefusalsEndBursts

\* redis.service.ts:80 and 88: the time to live starts again with every request
\* charged, so a refusal names one that was charged less than a time to live ago.
THEOREM QuietClientsGetIn == Spec => QuietClientsAreAdmitted
<1>1. ASSUME IInv, [Next]_vars,
             NEW r \in Requests, pc[r] # "refused", pc'[r] = "refused"
      PROVE  \E s \in Charged : chargedAt[s] + TimeToLive > now
  <2>1. now < expires /\ count = MaxRequests
    BY <1>1, RefusedWhenFull
  <2>2. PICK s \in Charged : chargedAt[s] + TimeToLive = expires
    BY <1>1, <2>1, LifeTime DEF IInv, Bursts
  <2> QED
    BY <2>1, <2>2
<1>2. IInv /\ [Next]_vars =>
        [\A r \in Requests : pc[r] # "refused" /\ pc'[r] = "refused" =>
           \E s \in Charged : chargedAt[s] + TimeToLive > now]_vars
  BY <1>1
<1> QED
  BY <1>2, Invariance, PTL DEF Spec, QuietClientsAreAdmitted

\* The limit the counter does enforce, redis.service.ts:84: of the requests
\* that are charged in one time to live of the entry at most the limit is
\* admitted, in every such period that begins after the entry was last lost and
\* requests last overlapped between their read and their write.
THEOREM LimitHoldsPerTimeToLive == Spec => []LimitPerTimeToLive
<1>1. ASSUME IInv PROVE LimitPerTimeToLive
  <2> SUFFICES ASSUME NEW t \in disturbedAt + 1 .. MaxTime
               PROVE  Cardinality(AdmittedFrom(t, TimeToLive)) <= MaxRequests
    BY DEF LimitPerTimeToLive
  <2>1. Sequential
    BY <1>1 DEF IInv
  <2>2. t \in Int /\ t > disturbedAt
    BY <1>1, LimitsAssumption DEF IInv, TypeOK
  <2>3. \A n \in t .. t + TimeToLive - 1 : n # None
    BY <2>2, NoneAssumption, LifeTime
  <2>4. AdmittedFrom(t, TimeToLive) \subseteq Hits(t)
    BY <2>3 DEF AdmittedFrom, Admitted, Hits, Charged
  <2>5. /\ Cardinality(AdmittedFrom(t, TimeToLive)) \in Nat
        /\ Cardinality(Hits(t)) \in Nat
        /\ Cardinality(AdmittedFrom(t, TimeToLive)) <= Cardinality(Hits(t))
    BY <2>2, <2>4, HitsFinite, FS_Subset, FS_CardinalityType
  <2>6. Cardinality(Hits(t)) <= MaxRequests
    BY <2>1, <2>2 DEF Sequential
  <2> QED
    BY <2>5, <2>6, LifeTime
<1> QED
  BY <1>1, Invariance, PTL
=============================================================================
