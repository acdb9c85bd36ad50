----------------------- MODULE TransactionHistoryProofs -----------------------
(***************************************************************************)
(* Theorems about the history endpoint: for any number of postings, any    *)
(* page size and any bound on the clock.                                   *)
(***************************************************************************)
EXTENDS TransactionHistory, FunctionTheorems, FiniteSetTheorems, TLAPS

------------------------------------------------------------------------------
(* Places in the order of createdAt.                                       *)

\* Every place is taken, so an interval of places holds as many rows.
LEMMA PlacesAreTaken ==
  ASSUME NEW S, IsFiniteSet(S), NEW pos \in NewestFirst(S),
         NEW a \in Nat, NEW b \in Nat, a <= b, b <= Cardinality(S)
  PROVE  Cardinality({r \in S : pos[r] \in a .. b - 1}) = b - a
<1> DEFINE n == Cardinality(S)
           T == {r \in S : pos[r] \in a .. b - 1}
           g == [r \in T |-> pos[r]]
<1>1. n \in Nat
  BY FS_CardinalityType
<1>2. pos \in [S -> 0 .. n - 1] /\ \A r, s \in S : pos[r] = pos[s] => r = s
  BY DEF NewestFirst
<1>3. pos \in Injection(S, 0 .. n - 1)
  BY <1>2, Fun_IsInj
<1>4. IsFiniteSet(0 .. n - 1) /\ Cardinality(0 .. n - 1) = n
  <2>1. \A k, m \in Int : /\ IsFiniteSet(k .. m)
                          /\ Cardinality(k .. m) = IF k > m THEN 0 ELSE m - k + 1
    BY FS_Interval
  <2>2. 0 \in Int /\ n - 1 \in Int
    BY <1>1
  <2>3. /\ IsFiniteSet(0 .. n - 1)
        /\ Cardinality(0 .. n - 1) = IF 0 > n - 1 THEN 0 ELSE n - 1 - 0 + 1
    BY <2>1, <2>2, Zenon
  <2> HIDE DEF n
  <2> QED BY <1>1, <2>3
<1>5. pos \in Surjection(S, 0 .. n - 1)
  BY <1>3, <1>4, FS_Injection
<1>6. \A k \in 0 .. n - 1 : \E r \in S : pos[r] = k
  BY <1>5 DEF Surjection
<1>7. g \in [T -> a .. b - 1]
  OBVIOUS
<1>8. \A r, s \in T : g[r] = g[s] => r = s
  BY <1>2
<1>9. \A k \in a .. b - 1 : \E r \in T : g[r] = k
  <2> TAKE k \in a .. b - 1
  <2>1. k \in 0 .. n - 1
    BY <1>1
  <2>2. PICK r \in S : pos[r] = k
    BY <1>6, <2>1
  <2>3. r \in T /\ g[r] = k
    BY <2>2
  <2> QED BY <2>3
<1>10. g \in Bijection(T, a .. b - 1)
  <2> HIDE DEF g, T
  <2> QED BY <1>7, <1>8, <1>9, Fun_IsBij
<1>11. IsFiniteSet(T)
  BY FS_Subset
<1>12. Cardinality(a .. b - 1) = Cardinality(T)
  <2>1. ExistsBijection(T, a .. b - 1)
    BY <1>10, Fun_ExistsBij
  <2> HIDE DEF T
  <2> QED BY <2>1, <1>11, FS_Bijection
<1>13. Cardinality(a .. b - 1) = b - a
  <2>1. a \in Int /\ b - 1 \in Int
    OBVIOUS
  <2>2. Cardinality(a .. b - 1) = IF a > b - 1 THEN 0 ELSE b - 1 - a + 1
    BY <2>1, FS_Interval
  <2> QED BY <2>2
<1> QED BY <1>12, <1>13

\* Visible rows that are newer than r.
Newer(r) == {s \in Visible : createdAt[s] > createdAt[r]}

\* The place of a row that is alone in its time is the number of newer ones.
LEMMA PlaceOfRow ==
  ASSUME IsFiniteSet(Visible), \A s \in Visible : createdAt[s] \in Int,
         NEW pos \in NewestFirst(Visible), NEW r \in Visible, AloneInTime(r)
  PROVE  pos[r] \in Nat /\ pos[r] = Cardinality(Newer(r))
<1> DEFINE n == Cardinality(Visible)
<1>1. n \in Nat
  BY FS_CardinalityType
<1>2. /\ pos \in [Visible -> 0 .. n - 1]
      /\ \A s, t \in Visible : s # t =>
           pos[s] # pos[t] /\ (createdAt[s] > createdAt[t] => pos[s] < pos[t])
  BY DEF NewestFirst
<1>3. pos[r] \in 0 .. n - 1
  BY <1>2
<1>4. Newer(r) = {s \in Visible : pos[s] \in 0 .. pos[r] - 1}
  <2>1. ASSUME NEW s \in Visible
        PROVE  createdAt[s] > createdAt[r] <=> pos[s] \in 0 .. pos[r] - 1
    <3>1. CASE s = r
      BY <1>1, <1>3, <3>1
    <3>2. CASE s # r
      <4>1. createdAt[s] # createdAt[r]
        BY <3>2 DEF AloneInTime
      <4>2. pos[s] \in 0 .. n - 1
        BY <1>2
      <4>3. createdAt[s] > createdAt[r] => pos[s] < pos[r]
        BY <1>2, <3>2
      <4>4. createdAt[r] > createdAt[s] => pos[r] < pos[s]
        BY <1>2, <3>2
      <4> QED BY <1>1, <1>3, <4>1, <4>2, <4>3, <4>4
    <3> QED BY <3>1, <3>2
  <2> QED BY <2>1 DEF Newer
<1>5. Cardinality({s \in Visible : pos[s] \in 0 .. pos[r] - 1}) = pos[r] - 0
  <2>1. pos[r] \in Nat /\ 0 <= pos[r] /\ pos[r] <= Cardinality(Visible)
    BY <1>1, <1>3
  <2> QED BY <2>1, PlacesAreTaken
<1> QED BY <1>1, <1>3, <1>4, <1>5

------------------------------------------------------------------------------
(* The inductive invariant.                                                *)

Rank(r) == Cardinality(Newer(r))

\* Visible rows have their time, and no time is in the future.
Stamped ==
  /\ \A r \in Visible : createdAt[r] # None
  /\ \A r \in Rows : createdAt[r] # None => createdAt[r] <= now

\* The lock of the wallet: one posting at a time has a row that is not visible
\* yet, and it is no older than those that are.
InOrder ==
  /\ \A p, q \in Postings \cap Pending : p = q
  /\ \A v \in Postings \cap Visible, p \in Postings \cap Pending :
       createdAt[v] <= createdAt[p]
  /\ TimesFollowCommits

\* What the client knows at each of its steps.
Session ==
  /\ pc = "asking" => offset = 0 /\ collected = {} /\ repeated = {}
  /\ pc \in {"asking", "wallet", "absent"} => page = None
  /\ pc \in {"page", "end"} => page # None /\ page \subseteq collected
  /\ pc = "end" => Cardinality(page) < Limit
  /\ pc # "asking" => told \subseteq there
  /\ there \cup told \cup collected \cup repeated \subseteq Visible
  /\ page # None => page \subseteq Visible

\* Rows are only pushed to later pages, so none slips past the client.
NoGaps ==
  \A r \in there : AloneInTime(r) =>
    /\ Rank(r) < offset => r \in collected
    /\ page # None /\ (Rank(r) < offset + Limit \/ Cardinality(page) < Limit) =>
         r \in collected \cup page

\* First row the client has not asked for.
Reached == IF pc \in {"page", "end"} THEN offset + Limit ELSE offset

\* As long as no row was added, pages are where they were.
NoRepeats ==
  Visible = there =>
    /\ \A r \in collected : AloneInTime(r) => Rank(r) < Reached
    /\ page # None => \A r \in page : AloneInTime(r) => Rank(r) \in Window
    /\ \A r \in repeated : ~AloneInTime(r)

IInv == TypeOK /\ Stamped /\ InOrder /\ Session /\ NoGaps /\ NoRepeats

LEMMA Initially == Init => IInv
<1> SUFFICES ASSUME Init PROVE IInv
  OBVIOUS
<1>1. Visible = {} /\ Pending = {} /\ DOMAIN committed = {}
  BY DEF Init, Visible, Pending
<1>2. TypeOK
  <2>1. <<>> \in Seq(Rows)
    OBVIOUS
  <2>2. 0 \in 0 .. MaxTime /\ 0 \in Nat
    BY TimeAssumption
  <2> QED BY <2>1, <2>2 DEF Init, TypeOK
<1>3. Stamped /\ InOrder
  BY <1>1 DEF Init, Stamped, InOrder, TimesFollowCommits
<1>4. Session /\ NoGaps /\ NoRepeats
  BY <1>1 DEF Init, Session, NoGaps, NoRepeats
<1> QED BY <1>2, <1>3, <1>4 DEF IInv

------------------------------------------------------------------------------
(* Visible rows.                                                           *)

LEMMA RowsAreFinite == IsFiniteSet(Rows)
  BY RowsAssumption, FS_AddElement DEF Rows

LEMMA VisibleIsFinite ==
  ASSUME TypeOK
  PROVE  Visible \subseteq Rows /\ IsFiniteSet(Visible) /\ Cardinality(Visible) \in Nat
<1>1. Visible \subseteq Rows
  BY DEF TypeOK, Visible
<1>2. IsFiniteSet(Visible)
  BY <1>1, RowsAreFinite, FS_Subset
<1> QED BY <1>1, <1>2, FS_CardinalityType

LEMMA TimesAreNumbers ==
  ASSUME TypeOK, Stamped
  PROVE  \A r \in Visible : createdAt[r] \in Int
  BY VisibleIsFinite DEF TypeOK, Stamped

LEMMA RankIsNatural ==
  ASSUME TypeOK, NEW r
  PROVE  IsFiniteSet(Newer(r)) /\ Rank(r) \in Nat
<1>1. Newer(r) \subseteq Visible
  BY DEF Newer
<1>2. IsFiniteSet(Newer(r))
  BY <1>1, VisibleIsFinite, FS_Subset
<1> QED BY <1>2, FS_CardinalityType DEF Rank

\* What a commit makes visible.
LEMMA Appended ==
  ASSUME TypeOK, NEW r \in Rows, committed' = Append(committed, r)
  PROVE  /\ committed' \in Seq(Rows) /\ Visible' = Visible \cup {r}
         /\ DOMAIN committed' = DOMAIN committed \cup {Len(committed) + 1}
         /\ \A n \in DOMAIN committed : n < Len(committed) + 1 /\ committed'[n] = committed[n]
         /\ committed'[Len(committed) + 1] = r
<1>1. committed \in Seq(Rows)
  BY DEF TypeOK
<1>2. /\ committed' \in Seq(Rows)
      /\ DOMAIN committed' = DOMAIN committed \cup {Len(committed) + 1}
      /\ \A n \in DOMAIN committed : n < Len(committed) + 1 /\ committed'[n] = committed[n]
      /\ committed'[Len(committed) + 1] = r
  BY <1>1
<1>3. Visible' = Visible \cup {r}
  BY <1>2 DEF Visible
<1> QED BY <1>2, <1>3
------------------------------------------------------------------------------
(* Every step keeps the types.                                             *)

LEMMA TypeStep ==
  ASSUME TypeOK, Stamped, Next
  PROVE  TypeOK'
<1> USE DEF dbVars, clientVars
<1>1. CASE Tick
  BY <1>1, TimeAssumption DEF TypeOK, Tick
<1>2. CASE CreateWallet
  BY <1>2 DEF TypeOK, CreateWallet
<1>3. ASSUME NEW r \in Rows, Stamp(r) PROVE TypeOK'
  BY <1>3 DEF TypeOK, Stamp
<1>4. ASSUME NEW r \in Rows, Commit(r) PROVE TypeOK'
  BY <1>4, Appended DEF TypeOK, Commit
<1>5. ASSUME NEW r \in Rows, Abort(r) PROVE TypeOK'
  BY <1>5 DEF TypeOK, Abort
<1>6. ASSUME NEW r \in Postings, AskByKey(r) PROVE TypeOK'
  BY <1>6 DEF TypeOK, AskByKey
<1>7. CASE Begin
  BY <1>7, VisibleIsFinite DEF TypeOK, Begin
<1>8. CASE FindWallet
  BY <1>8 DEF TypeOK, FindWallet
<1>9. CASE CountRows
  BY <1>9, VisibleIsFinite DEF TypeOK, CountRows
<1>10. CASE FindRows
  <2>1. page' \subseteq Visible
    BY <1>10 DEF FindRows
  <2> QED BY <1>10, <2>1, VisibleIsFinite DEF TypeOK, FindRows
<1>11. CASE Answer
  <2>1. page \subseteq Rows
    BY <1>11 DEF TypeOK, Answer
  <2> QED BY <1>11, <2>1 DEF TypeOK, Answer
<1>12. CASE QueryFails
  BY <1>12 DEF TypeOK, QueryFails
<1>13. CASE NextPage
  BY <1>13, LimitAssumption DEF TypeOK, NextPage
<1>14. CASE LastPage
  BY <1>14 DEF TypeOK, LastPage
<1> QED BY <1>1, <1>2, <1>3, <1>4, <1>5, <1>6, <1>7, <1>8, <1>9, <1>10, <1>11, <1>12,
           <1>13, <1>14 DEF Next, Database, Client

------------------------------------------------------------------------------
(* Times follow the commits.                                               *)

LEMMA TickStep ==
  ASSUME IInv, Tick
  PROVE  Stamped' /\ InOrder'
<1>1. /\ UNCHANGED <<createdAt, committed>> /\ now' = now + 1 /\ now \in Int
      /\ createdAt \in [Rows -> (0 .. MaxTime) \cup {None}]
  BY DEF Tick, IInv, TypeOK
<1>2. Visible' = Visible /\ Pending' = Pending
  BY <1>1 DEF Visible, Pending
<1>3. Stamped'
  BY <1>1, <1>2 DEF IInv, Stamped
<1>4. InOrder'
  BY <1>1, <1>2 DEF IInv, InOrder, TimesFollowCommits
<1> QED BY <1>3, <1>4

LEMMA StampStep ==
  ASSUME IInv, NEW r \in Rows, Stamp(r)
  PROVE  Stamped' /\ InOrder'
<1>1. /\ createdAt \in [Rows -> (0 .. MaxTime) \cup {None}]
      /\ createdAt' = [createdAt EXCEPT ![r] = now] /\ createdAt[r] = None
      /\ now \in Int /\ now # None /\ UNCHANGED <<now, committed>>
      /\ r \in Postings => Pending \subseteq {Opening}
  BY TimeAssumption DEF Stamp, IInv, TypeOK
<1>2. r \notin Visible /\ Visible' = Visible /\ Visible \subseteq Rows
  BY <1>1, VisibleIsFinite DEF IInv, Stamped, Visible
<1>3. Pending' = Pending \cup {r}
  BY <1>1, <1>2 DEF Pending
<1>4. Stamped'
  BY <1>1, <1>2 DEF IInv, Stamped
<1>5. TimesFollowCommits'
  BY <1>1, <1>2 DEF IInv, InOrder, TimesFollowCommits, Visible
<1>6. \A p, q \in Postings \cap Pending' : p = q
  BY <1>1, <1>3, RowsAssumption DEF IInv, InOrder
<1>7. \A v \in Postings \cap Visible', p \in Postings \cap Pending' :
        createdAt'[v] <= createdAt'[p]
  <2> TAKE v \in Postings \cap Visible', p \in Postings \cap Pending'
  <2>1. v # r /\ v \in Rows /\ createdAt'[v] = createdAt[v] /\ v \in Visible
    BY <1>1, <1>2
  <2>2. CASE p = r
    BY <1>1, <2>1, <2>2 DEF IInv, Stamped
  <2>3. CASE p # r
    <3>1. p \in Pending /\ p \in Rows
      BY <1>3, <2>3 DEF Rows
    <3> QED BY <1>1, <2>1, <2>3, <3>1 DEF IInv, InOrder
  <2> QED BY <2>2, <2>3
<1> QED BY <1>4, <1>5, <1>6, <1>7 DEF InOrder

LEMMA CommitStep ==
  ASSUME IInv, NEW r \in Rows, Commit(r)
  PROVE  Stamped' /\ InOrder'
<1>1. /\ TypeOK /\ r \in Pending /\ committed' = Append(committed, r)
      /\ UNCHANGED <<now, createdAt>>
  BY DEF Commit, IInv
<1>2. /\ Visible' = Visible \cup {r} /\ Pending' = Pending \ {r}
  BY <1>1, Appended DEF Pending
<1>3. Stamped'
  BY <1>1, <1>2 DEF IInv, Stamped, Pending
<1>4. \A p, q \in Postings \cap Pending' : p = q
  BY <1>2 DEF IInv, InOrder
<1>5. \A v \in Postings \cap Visible', p \in Postings \cap Pending' :
        createdAt'[v] <= createdAt'[p]
  BY <1>1, <1>2 DEF IInv, InOrder
<1>6. TimesFollowCommits'
  <2> SUFFICES ASSUME NEW m \in DOMAIN committed', NEW n \in DOMAIN committed', m < n,
                      committed'[m] # Opening, committed'[n] # Opening
               PROVE  createdAt[committed'[m]] <= createdAt[committed'[n]]
    BY <1>1 DEF TimesFollowCommits
  <2>1. /\ DOMAIN committed' = DOMAIN committed \cup {Len(committed) + 1}
        /\ \A k \in DOMAIN committed : k < Len(committed) + 1 /\ committed'[k] = committed[k]
        /\ committed'[Len(committed) + 1] = r
    BY <1>1, Appended
  <2>2. \A k \in DOMAIN committed : k \in Int
    BY <1>1 DEF TypeOK
  <2>3. m \in DOMAIN committed
    BY <2>1, <2>2, <1>1 DEF TypeOK
  <2>4. CASE n \in DOMAIN committed
    BY <2>1, <2>3, <2>4 DEF IInv, InOrder, TimesFollowCommits
  <2>5. CASE n = Len(committed) + 1
    <3>1. committed[m] \in Visible /\ committed'[m] = committed[m] /\ committed'[n] = r
      BY <2>1, <2>3, <2>5 DEF Visible
    <3>2. committed[m] \in Postings /\ r \in Postings
      BY <1>1, <3>1, VisibleIsFinite DEF Rows
    <3> QED BY <1>1, <3>1, <3>2 DEF IInv, InOrder
  <2> QED BY <2>1, <2>4, <2>5
<1> QED BY <1>3, <1>4, <1>5, <1>6 DEF InOrder

LEMMA AbortStep ==
  ASSUME IInv, NEW r \in Rows, Abort(r)
  PROVE  Stamped' /\ InOrder'
<1>1. /\ createdAt \in [Rows -> (0 .. MaxTime) \cup {None}] /\ r \in Pending
      /\ createdAt' = [createdAt EXCEPT ![r] = None] /\ UNCHANGED <<now, committed>>
  BY DEF Abort, IInv, TypeOK
<1>2. r \notin Visible /\ Visible' = Visible /\ Visible \subseteq Rows
  BY <1>1, VisibleIsFinite DEF IInv, Pending, Visible
<1>3. Pending' = Pending \ {r}
  BY <1>1, <1>2 DEF Pending
<1>4. Stamped'
  BY <1>1, <1>2 DEF IInv, Stamped
<1>5. InOrder'
  <2>1. \A s \in Rows : s # r => createdAt'[s] = createdAt[s]
    BY <1>1
  <2>2. TimesFollowCommits'
    BY <1>1, <1>2, <2>1 DEF IInv, InOrder, TimesFollowCommits, Visible
  <2>3. \A v \in Postings \cap Visible', p \in Postings \cap Pending' :
          createdAt'[v] <= createdAt'[p]
    BY <1>2, <1>3, <2>1 DEF IInv, InOrder, Rows
  <2> QED BY <1>3, <2>2, <2>3 DEF IInv, InOrder
<1> QED BY <1>4, <1>5

\* What leaves the rows alone leaves their times alone.
LEMMA QuietStep ==
  ASSUME IInv, UNCHANGED <<now, createdAt, committed>>
  PROVE  Stamped' /\ InOrder' /\ Visible' = Visible
<1>1. Visible' = Visible /\ Pending' = Pending
  BY DEF Visible, Pending
<1> QED BY <1>1 DEF IInv, Stamped, InOrder, TimesFollowCommits
------------------------------------------------------------------------------
(* Rows change under the client.                                           *)

\* No row becomes invisible and no visible row changes its time.
LEMMA RowsOnlyGrow ==
  ASSUME IInv, Database
  PROVE  /\ Visible \subseteq Visible' /\ \A r \in Visible : createdAt'[r] = createdAt[r]
         /\ UNCHANGED clientVars
<1> USE DEF dbVars
<1>1. Visible \subseteq Rows /\ \A r \in Visible : createdAt[r] # None
  BY VisibleIsFinite DEF IInv, Stamped
<1>2. CASE Tick \/ CreateWallet
  BY <1>2 DEF Tick, CreateWallet, Visible
<1>3. ASSUME NEW r \in Rows, Stamp(r) \/ Abort(r)
      PROVE  /\ Visible \subseteq Visible' /\ \A s \in Visible : createdAt'[s] = createdAt[s]
             /\ UNCHANGED clientVars
  <2>1. /\ UNCHANGED <<committed, clientVars>> /\ r \notin Visible
        /\ createdAt' \in {[createdAt EXCEPT ![r] = now], [createdAt EXCEPT ![r] = None]}
    BY <1>1, <1>3 DEF Stamp, Abort, Pending
  <2>2. Visible' = Visible
    BY <2>1 DEF Visible
  <2>3. \A s \in Visible : createdAt'[s] = createdAt[s]
    BY <1>1, <2>1 DEF IInv, TypeOK
  <2> QED BY <2>1, <2>2, <2>3
<1>4. ASSUME NEW r \in Rows, Commit(r)
      PROVE  /\ Visible \subseteq Visible' /\ \A s \in Visible : createdAt'[s] = createdAt[s]
             /\ UNCHANGED clientVars
  BY <1>4, Appended DEF Commit, IInv
<1> QED BY <1>2, <1>3, <1>4 DEF Database

\* More rows: a row loses its solitude or moves to a later place.
LEMMA Pushed ==
  ASSUME TypeOK, TypeOK', Visible \subseteq Visible',
         \A r \in Visible : createdAt'[r] = createdAt[r],
         NEW r \in Visible, AloneInTime(r)'
  PROVE  AloneInTime(r) /\ Rank(r) \in Nat /\ Rank(r)' \in Nat /\ Rank(r) <= Rank(r)'
<1>1. AloneInTime(r)
  BY DEF AloneInTime
<1>2. Newer(r) \subseteq Newer(r)'
  BY DEF Newer
<1>3. IsFiniteSet(Newer(r)') /\ Rank(r)' \in Nat
  <2>1. IsFiniteSet(Visible') /\ Newer(r)' \subseteq Visible'
    <3>1. Visible' \subseteq Rows /\ Newer(r)' \subseteq Visible'
      BY DEF TypeOK, Visible, Newer
    <3> QED BY <3>1, RowsAreFinite, FS_Subset
  <2>2. IsFiniteSet(Newer(r)')
    BY <2>1, FS_Subset
  <2> QED BY <2>2, FS_CardinalityType DEF Rank
<1>4. Rank(r) <= Rank(r)'
  BY <1>2, <1>3, FS_Subset DEF Rank
<1> QED BY <1>1, <1>3, <1>4, RankIsNatural

LEMMA DatabaseStep ==
  ASSUME IInv, TypeOK', Database
  PROVE  Session' /\ NoGaps' /\ NoRepeats'
<1>1. /\ TypeOK /\ Visible \subseteq Visible'
      /\ \A r \in Visible : createdAt'[r] = createdAt[r]
      /\ UNCHANGED <<pc, offset, total, page, there, told, collected, repeated>>
  BY RowsOnlyGrow DEF IInv, clientVars
<1>2. offset \in Nat /\ Limit \in Nat
  BY <1>1, LimitAssumption DEF TypeOK
<1>3. there \cup collected \cup repeated \subseteq Visible /\ (page # None => page \subseteq Visible)
  BY DEF IInv, Session
<1>4. Session'
  BY <1>1 DEF IInv, Session
<1>5. NoGaps'
  <2> SUFFICES ASSUME NEW r \in there, AloneInTime(r)'
               PROVE  /\ Rank(r)' < offset => r \in collected
                      /\ page # None /\ (Rank(r)' < offset + Limit \/ Cardinality(page) < Limit)
                           => r \in collected \cup page
    BY <1>1 DEF NoGaps
  <2>1. r \in Visible
    BY <1>3
  <2>2. AloneInTime(r) /\ Rank(r) \in Nat /\ Rank(r)' \in Nat /\ Rank(r) <= Rank(r)'
    BY <1>1, <2>1, Pushed
  <2>3. /\ Rank(r) < offset => r \in collected
        /\ page # None /\ (Rank(r) < offset + Limit \/ Cardinality(page) < Limit)
             => r \in collected \cup page
    BY <2>2 DEF IInv, NoGaps
  <2> QED BY <1>2, <2>2, <2>3
<1>6. NoRepeats'
  <2> SUFFICES ASSUME Visible' = there'
               PROVE  NoRepeats'
    BY DEF NoRepeats
  <2>1. Visible' = Visible /\ Visible = there
    BY <1>1, <1>3
  <2>2. \A r \in Visible : AloneInTime(r)' => AloneInTime(r)
    BY <1>1, Pushed
  <2>3. \A r \in Visible : Rank(r)' = Rank(r)
    BY <1>1, <2>1 DEF Rank, Newer
  <2>4. Window' = Window /\ Reached' = Reached
    BY <1>1 DEF Window, Reached
  <2> QED BY <1>1, <1>3, <2>1, <2>2, <2>3, <2>4 DEF IInv, NoRepeats
<1> QED BY <1>4, <1>5, <1>6

------------------------------------------------------------------------------
(* The client pages.                                                       *)

\* Steps of the client leave rows, and with them their places, alone.
LEMMA SamePlaces ==
  ASSUME UNCHANGED dbVars
  PROVE  /\ Visible' = Visible
         /\ \A r : Rank(r)' = Rank(r) /\ (AloneInTime(r)' <=> AloneInTime(r))
<1>1. Visible' = Visible
  BY DEF dbVars, Visible
<1> QED BY <1>1 DEF dbVars, Rank, Newer, AloneInTime

\* Steps that do not touch pages, offset or what was collected.
LEMMA StayStep ==
  ASSUME IInv, UNCHANGED <<dbVars, offset, page, there, collected, repeated>>,
         UNCHANGED pc \/ (pc = "wallet" /\ pc' \in {"query", "absent"}),
         told' = told \/ (pc = "asking" /\ told' \subseteq told \cup Visible)
  PROVE  Session' /\ NoGaps' /\ NoRepeats'
<1>1. Visible' = Visible /\ \A r : Rank(r)' = Rank(r) /\ (AloneInTime(r)' <=> AloneInTime(r))
  BY SamePlaces
<1>2. Session'
  BY <1>1 DEF IInv, Session
<1>3. NoGaps'
  BY <1>1 DEF IInv, NoGaps
<1>4. NoRepeats'
  <2>1. Window' = Window /\ Reached' = Reached
    BY DEF Window, Reached
  <2> QED BY <1>1, <2>1 DEF IInv, NoRepeats
<1> QED BY <1>2, <1>3, <1>4

LEMMA BeginStep ==
  ASSUME IInv, Begin
  PROVE  Session' /\ NoGaps' /\ NoRepeats'
<1>1. /\ Visible' = Visible /\ UNCHANGED <<offset, page, told, collected, repeated>>
      /\ there' = Visible /\ pc = "asking" /\ pc' = "wallet"
      /\ offset = 0 /\ page = None /\ collected = {} /\ repeated = {}
  BY SamePlaces DEF Begin, IInv, Session
<1>2. Session'
  BY <1>1 DEF IInv, Session
<1>3. \A r : Rank(r)' = Rank(r) /\ Rank(r) \in Nat
  BY SamePlaces, RankIsNatural DEF Begin, IInv
<1>4. NoGaps'
  BY <1>1, <1>3 DEF NoGaps
<1>5. NoRepeats'
  BY <1>1 DEF NoRepeats
<1> QED BY <1>2, <1>4, <1>5
\* A row that is not on a full or a partial page is on an earlier or, if the
\* page is full, on a later one.
LEMMA FindRowsStep ==
  ASSUME IInv, FindRows
  PROVE  Session' /\ NoGaps' /\ NoRepeats'
<1>1. /\ TypeOK /\ pc = "query" /\ page = None
      /\ UNCHANGED <<dbVars, pc, offset, there, told, collected, repeated>>
  BY DEF FindRows, IInv
<1>2. PICK pos \in NewestFirst(Visible) : page' = {r \in Visible : pos[r] \in Window}
  BY DEF FindRows
<1>3. /\ Visible' = Visible
      /\ \A r : Rank(r)' = Rank(r) /\ (AloneInTime(r)' <=> AloneInTime(r))
  BY <1>1, SamePlaces
<1>4. offset \in Nat /\ Limit \in Nat \ {0}
  BY <1>1, LimitAssumption DEF TypeOK
<1>5. /\ there \cup collected \cup repeated \subseteq Visible
      /\ IsFiniteSet(Visible) /\ Cardinality(Visible) \in Nat
  BY VisibleIsFinite DEF IInv, Session
<1>6. ASSUME NEW r \in Visible, AloneInTime(r)
      PROVE  Rank(r) \in Nat /\ pos[r] = Rank(r) /\ Rank(r) < Cardinality(Visible)
  <2>1. \A s \in Visible : createdAt[s] \in Int
    BY TimesAreNumbers DEF IInv
  <2>2. pos[r] \in Nat /\ pos[r] = Rank(r)
    BY <1>5, <1>6, <2>1, PlaceOfRow DEF Rank
  <2>3. pos[r] \in 0 .. Cardinality(Visible) - 1
    BY <1>2 DEF NewestFirst
  <2> QED BY <1>5, <2>2, <2>3
<1>7. Cardinality(page') < Limit => Cardinality(Visible) < offset + Limit
  <2> SUFFICES ASSUME offset + Limit <= Cardinality(Visible)
               PROVE  Cardinality(page') = Limit
    BY <1>4, <1>5
  <2>1. \A b \in Nat : offset <= b /\ b <= Cardinality(Visible) =>
          Cardinality({r \in Visible : pos[r] \in offset .. b - 1}) = b - offset
    BY <1>2, <1>4, <1>5, PlacesAreTaken
  <2>2. offset + Limit \in Nat /\ offset <= offset + Limit
    BY <1>4
  <2>3. Cardinality({r \in Visible : pos[r] \in offset .. (offset + Limit) - 1})
          = (offset + Limit) - offset
    BY <2>1, <2>2
  <2>4. (offset + Limit) - offset = Limit
    BY <1>4
  <2>5. page' = {r \in Visible : pos[r] \in offset .. (offset + Limit) - 1}
    <3>1. (offset + Limit) - 1 = offset + (Limit - 1)
      BY <1>4
    <3> QED BY <1>2, <3>1 DEF Window
  <2> QED BY <2>3, <2>4, <2>5
<1>8. Session'
  BY <1>1, <1>2, <1>3 DEF IInv, Session
<1>9. NoGaps'
  <2> SUFFICES ASSUME NEW r \in there, AloneInTime(r)
               PROVE  /\ Rank(r) < offset => r \in collected
                      /\ Rank(r) < offset + Limit \/ Cardinality(page') < Limit
                           => r \in collected \cup page'
    BY <1>1, <1>3 DEF NoGaps
  <2>1. r \in Visible
    BY <1>5
  <2>2. Rank(r) \in Nat /\ pos[r] = Rank(r) /\ Rank(r) < Cardinality(Visible)
    BY <1>6, <2>1
  <2>3. Rank(r) < offset => r \in collected
    BY DEF IInv, NoGaps
  <2>4. Rank(r) < offset + Limit /\ ~(Rank(r) < offset) => Rank(r) \in Window
    BY <1>4, <2>2 DEF Window
  <2>5. Rank(r) \in Window => r \in page'
    BY <1>2, <2>1, <2>2
  <2>6. Cardinality(page') < Limit => Rank(r) < offset + Limit
    BY <1>4, <1>5, <1>7, <2>2
  <2> QED BY <2>3, <2>4, <2>5, <2>6
<1>10. NoRepeats'
  <2>1. \A r \in page' : r \in Visible /\ (AloneInTime(r) => Rank(r) \in Window)
    BY <1>2, <1>6
  <2>2. Window' = Window /\ Reached' = Reached
    BY <1>1 DEF Window, Reached
  <2> QED BY <1>1, <1>3, <2>1, <2>2 DEF IInv, NoRepeats
<1> QED BY <1>8, <1>9, <1>10

LEMMA AnswerStep ==
  ASSUME IInv, Answer
  PROVE  Session' /\ NoGaps' /\ NoRepeats'
<1>1. /\ TypeOK /\ pc = "query" /\ page # None /\ pc' = "page"
      /\ collected' = collected \cup page /\ repeated' = repeated \cup (collected \cap page)
      /\ UNCHANGED <<dbVars, offset, page, there, told>>
  BY DEF Answer, IInv
<1>2. /\ Visible' = Visible
      /\ \A r : Rank(r)' = Rank(r) /\ (AloneInTime(r)' <=> AloneInTime(r)) /\ Rank(r) \in Nat
  BY <1>1, SamePlaces, RankIsNatural
<1>3. offset \in Nat /\ Limit \in Nat
  BY <1>1, LimitAssumption DEF TypeOK
<1>4. Session'
  BY <1>1, <1>2 DEF IInv, Session
<1>5. NoGaps'
  BY <1>1, <1>2 DEF IInv, NoGaps
<1>6. NoRepeats'
  <2> SUFFICES ASSUME Visible = there
               PROVE  /\ \A r \in collected' : AloneInTime(r) => Rank(r) < offset + Limit
                      /\ \A r \in page : AloneInTime(r) => Rank(r) \in Window
                      /\ \A r \in repeated' : ~AloneInTime(r)
    BY <1>1, <1>2 DEF NoRepeats, Reached, Window
  <2>1. /\ \A r \in collected : AloneInTime(r) => Rank(r) < offset
        /\ \A r \in page : AloneInTime(r) => Rank(r) \in Window
        /\ \A r \in repeated : ~AloneInTime(r)
    BY <1>1 DEF IInv, NoRepeats, Reached
  <2>2. \A k \in Window : offset <= k /\ k < offset + Limit
    BY <1>3 DEF Window
  <2>3. \A r \in collected : AloneInTime(r) => Rank(r) < offset + Limit
    BY <1>2, <1>3, <2>1
  <2>4. \A r \in page : AloneInTime(r) => offset <= Rank(r) /\ Rank(r) < offset + Limit
    BY <2>1, <2>2
  <2>5. \A r \in collected \cap page : ~AloneInTime(r)
    BY <1>2, <1>3, <2>1, <2>4
  <2> QED BY <1>1, <2>1, <2>3, <2>4, <2>5
<1> QED BY <1>4, <1>5, <1>6

LEMMA QueryFailsStep ==
  ASSUME IInv, QueryFails
  PROVE  Session' /\ NoGaps' /\ NoRepeats'
<1>1. /\ pc \in {"wallet", "query"} /\ pc' = "wallet" /\ page' = None
      /\ UNCHANGED <<dbVars, offset, there, told, collected, repeated>>
  BY DEF QueryFails
<1>2. /\ Visible' = Visible
      /\ \A r : Rank(r)' = Rank(r) /\ (AloneInTime(r)' <=> AloneInTime(r))
  BY <1>1, SamePlaces
<1>3. Session'
  BY <1>1, <1>2 DEF IInv, Session
<1>4. NoGaps'
  BY <1>1, <1>2 DEF IInv, NoGaps
<1>5. NoRepeats'
  BY <1>1, <1>2 DEF IInv, NoRepeats, Reached
<1> QED BY <1>3, <1>4, <1>5

LEMMA NextPageStep ==
  ASSUME IInv, NextPage
  PROVE  Session' /\ NoGaps' /\ NoRepeats'
<1>1. /\ TypeOK /\ pc = "page" /\ pc' = "wallet" /\ offset' = offset + Limit /\ page' = None
      /\ UNCHANGED <<dbVars, there, told, collected, repeated>>
      /\ page # None /\ page \subseteq collected
  BY DEF NextPage, IInv, Session
<1>2. /\ Visible' = Visible
      /\ \A r : Rank(r)' = Rank(r) /\ (AloneInTime(r)' <=> AloneInTime(r))
  BY <1>1, SamePlaces
<1>3. Session'
  BY <1>1, <1>2 DEF IInv, Session
<1>4. NoGaps'
  BY <1>1, <1>2 DEF IInv, NoGaps
<1>5. NoRepeats'
  BY <1>1, <1>2 DEF IInv, NoRepeats, Reached
<1> QED BY <1>3, <1>4, <1>5

LEMMA LastPageStep ==
  ASSUME IInv, LastPage
  PROVE  Session' /\ NoGaps' /\ NoRepeats'
<1>1. /\ pc = "page" /\ pc' = "end" /\ Cardinality(page) < Limit
      /\ UNCHANGED <<dbVars, offset, page, there, told, collected, repeated>>
  BY DEF LastPage
<1>2. /\ Visible' = Visible
      /\ \A r : Rank(r)' = Rank(r) /\ (AloneInTime(r)' <=> AloneInTime(r))
  BY <1>1, SamePlaces
<1>3. Session'
  BY <1>1, <1>2 DEF IInv, Session
<1>4. NoGaps'
  BY <1>1, <1>2 DEF IInv, NoGaps
<1>5. NoRepeats'
  BY <1>1, <1>2 DEF IInv, NoRepeats, Reached, Window
<1> QED BY <1>3, <1>4, <1>5
------------------------------------------------------------------------------
(* The theorems.                                                           *)

LEMMA ClientStep ==
  ASSUME IInv, Client
  PROVE  Session' /\ NoGaps' /\ NoRepeats' /\ UNCHANGED dbVars
<1> USE DEF dbVars
<1>1. ASSUME NEW r \in Postings, AskByKey(r)
      PROVE  Session' /\ NoGaps' /\ NoRepeats' /\ UNCHANGED dbVars
  BY <1>1, StayStep DEF AskByKey, FoundByKey
<1>2. CASE FindWallet \/ CountRows
  BY <1>2, StayStep DEF FindWallet, CountRows
<1>3. CASE Begin
  BY <1>3, BeginStep DEF Begin
<1>4. CASE FindRows
  BY <1>4, FindRowsStep DEF FindRows
<1>5. CASE Answer
  BY <1>5, AnswerStep DEF Answer
<1>6. CASE QueryFails
  BY <1>6, QueryFailsStep DEF QueryFails
<1>7. CASE NextPage
  BY <1>7, NextPageStep DEF NextPage
<1>8. CASE LastPage
  BY <1>8, LastPageStep DEF LastPage
<1> QED BY <1>1, <1>2, <1>3, <1>4, <1>5, <1>6, <1>7, <1>8 DEF Client

LEMMA Inductive == IInv /\ [Next]_vars => IInv'
<1> SUFFICES ASSUME IInv, [Next]_vars PROVE IInv'
  OBVIOUS
<1>1. CASE Database
  <2>1. TypeOK'
    BY <1>1, TypeStep DEF Next, IInv
  <2>2. Session' /\ NoGaps' /\ NoRepeats'
    BY <1>1, <2>1, DatabaseStep
  <2>3. CreateWallet => Stamped' /\ InOrder'
    BY QuietStep DEF CreateWallet
  <2>4. Stamped' /\ InOrder'
    BY <1>1, <2>3, TickStep, StampStep, CommitStep, AbortStep DEF Database
  <2> QED BY <2>1, <2>2, <2>4 DEF IInv
<1>2. CASE Client
  <2>1. TypeOK'
    BY <1>2, TypeStep DEF Next, IInv
  <2>2. Session' /\ NoGaps' /\ NoRepeats' /\ UNCHANGED dbVars
    BY <1>2, ClientStep
  <2>3. Stamped' /\ InOrder'
    BY <2>2, QuietStep DEF dbVars
  <2> QED BY <2>1, <2>2, <2>3 DEF IInv
<1>3. CASE UNCHANGED vars
  <2>1. TypeOK'
    BY <1>3 DEF vars, dbVars, clientVars, IInv, TypeOK
  <2>2. Stamped' /\ InOrder'
    BY <1>3, QuietStep DEF vars, dbVars
  <2>3. Session' /\ NoGaps' /\ NoRepeats'
    BY <1>3, StayStep DEF vars, clientVars
  <2> QED BY <2>1, <2>2, <2>3 DEF IInv
<1> QED BY <1>1, <1>2, <1>3 DEF Next

THEOREM Invariance == Spec => []IInv
<1> QED
  BY Initially, Inductive, PTL DEF Spec

\* The clock, the pages and the counts always have their shape.
THEOREM TypeCorrect == Spec => []TypeOK
<1>1. IInv => TypeOK
  BY DEF IInv
<1> QED
  BY <1>1, Invariance, PTL

\* The times of postings are in the order of their commits.
THEOREM NewestFirstIsLastCommitted == Spec => []TimesFollowCommits
<1>1. IInv => TimesFollowCommits
  BY DEF IInv, InOrder
<1> QED
  BY <1>1, Invariance, PTL

\* A client that pages to the end misses no row there was when it began, unless
\* another row has the same time.
THEOREM NoRowIsSkipped == Spec => []NothingSkipped
<1>1. IInv => NothingSkipped
  BY DEF IInv, Session, NoGaps, NothingSkipped
<1> QED
  BY <1>1, Invariance, PTL

\* What a client was told by key is in the history it then reads.
THEOREM ToldMeansListed == Spec => []ToldRowsAreListed
<1>1. IInv => ToldRowsAreListed
  BY DEF IInv, Session, NoGaps, ToldRowsAreListed
<1> QED
  BY <1>1, Invariance, PTL

\* A row comes twice only when rows were added, or another has the same time.
THEOREM RepeatsAreExplained == Spec => []RepeatsNeedNewRows
<1>1. IInv => RepeatsNeedNewRows
  BY DEF IInv, NoRepeats, RepeatsNeedNewRows
<1> QED
  BY <1>1, Invariance, PTL
=============================================================================
