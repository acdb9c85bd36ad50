-------------------------- MODULE TransactionHistory --------------------------
(***************************************************************************)
(* The two read endpoints of the wallet: getTransactionByIdempotencyKey    *)
(* and getTransactionHistory, used by a client who first asks by key what  *)
(* became of some postings and then pages through the history of one       *)
(* wallet, while postings go on.  Rows get their createdAt from the clock  *)
(* of the server before they are visible; a page is cut out of them, in    *)
(* the order of createdAt, by limit and offset.                            *)
(***************************************************************************)
EXTENDS Integers, FiniteSets, Sequences

CONSTANTS
  Postings,   \* requests that credit or debit the wallet, one ledger row each
  Opening,    \* the opening row of createWallet
  Limit,      \* rows of a page
  MaxTime,    \* bound on the clock
  None

Rows == Postings \cup {Opening}

ASSUME RowsAssumption == IsFiniteSet(Postings) /\ Opening \notin Postings

ASSUME LimitAssumption == Limit \in Nat \ {0}

ASSUME TimeAssumption == MaxTime \in Nat /\ None \notin Int

VARIABLES
  now,        \* the clock of the server, in the unit of createdAt
  wallet,     \* there is a row of the wallet
  createdAt,  \* row -> its time stamp, None before it has one
  committed,  \* rows in the order of their commits
  pc,         \* the client: "asking", "wallet", "query", "page", "end", "absent"
  offset,     \* first row of the page asked for
  total,      \* the count of the page, None before that query
  page,       \* the rows of the page, None before that query
  there,      \* rows visible when paging began
  told,       \* rows of postings the client was told are COMPLETED
  collected,  \* rows of all pages
  repeated    \* rows that were on two pages

dbVars     == <<now, wallet, createdAt, committed>>
clientVars == <<pc, offset, total, page, there, told, collected, repeated>>
vars       == <<dbVars, clientVars>>

Visible == {committed[n] : n \in DOMAIN committed}

Init ==
  /\ now = 0
  /\ wallet = FALSE
  /\ createdAt = [r \in Rows |-> None]
  /\ committed = <<>>
  /\ pc = "asking"
  /\ offset = 0
  /\ total = None
  /\ page = None
  /\ there = {}
  /\ told = {}
  /\ collected = {}
  /\ repeated = {}

------------------------------------------------------------------------------
(* The rows of the wallet.                                                 *)

Tick ==
  /\ now < MaxTime
  /\ now' = now + 1
  /\ UNCHANGED <<wallet, createdAt, committed, clientVars>>

CreateWallet ==
  /\ ~wallet
  /\ wallet' = TRUE
  /\ UNCHANGED <<now, createdAt, committed, clientVars>>

Pending == {r \in Rows : createdAt[r] # None} \ Visible

\* A faulty variant: the row is stamped before the wallet is locked.
StampUnlocked(r) ==
  /\ wallet
  /\ createdAt[r] = None
  /\ createdAt' = [createdAt EXCEPT ![r] = now]
  /\ UNCHANGED <<now, wallet, committed, clientVars>>

\* A faulty variant: stamped by a clock that runs ahead.
StampAhead(r) ==
  /\ wallet
  /\ createdAt[r] = None
  /\ r \in Postings => Pending \subseteq {Opening}
  /\ createdAt' = [createdAt EXCEPT ![r] = now + 1]
  /\ UNCHANGED <<now, wallet, committed, clientVars>>

\* ledgerModel.create stamps the row.  A posting holds the lock of its wallet
\* from before that until it ends; the opening row takes no lock.
Stamp(r) ==
  /\ wallet
  /\ createdAt[r] = None
  /\ r \in Postings => Pending \subseteq {Opening}
  /\ createdAt' = [createdAt EXCEPT ![r] = now]
  /\ UNCHANGED <<now, wallet, committed, clientVars>>

Commit(r) ==
  /\ r \in Pending
  /\ committed' = Append(committed, r)
  /\ UNCHANGED <<now, wallet, createdAt, clientVars>>

\* The transaction rolls back: another attempt inserts a row anew.
Abort(r) ==
  /\ r \in Postings \cap Pending
  /\ createdAt' = [createdAt EXCEPT ![r] = None]
  /\ UNCHANGED <<now, wallet, committed, clientVars>>

------------------------------------------------------------------------------
(* The client.                                                             *)

\* A faulty variant: the log row is found before its commit.
FoundByKeyUncommitted == {r \in Postings : createdAt[r] # None}

FoundByKey == Postings \cap Visible

\* getTransactionByIdempotencyKey: the log row with its ledgers, or 404.
AskByKey(r) ==
  /\ pc = "asking"
  /\ told' = IF r \in FoundByKey THEN told \cup {r} ELSE told
  /\ UNCHANGED <<dbVars, pc, offset, total, page, there, collected, repeated>>

\* The first request for a page.
Begin ==
  /\ pc = "asking"
  /\ pc' = "wallet"
  /\ there' = Visible
  /\ UNCHANGED <<dbVars, offset, total, page, told, collected, repeated>>

FindWallet ==
  /\ pc = "wallet"
  /\ pc' = IF wallet THEN "query" ELSE "absent"
  /\ UNCHANGED <<dbVars, offset, total, page, there, told, collected,
                 repeated>>

\* findAndCountAll sends two queries, whose order nothing states.
CountRows ==
  /\ pc = "query"
  /\ total = None
  /\ total' = Cardinality(Visible)
  /\ UNCHANGED <<dbVars, pc, offset, page, there, told, collected, repeated>>

\* A faulty variant: no ORDER BY.
AnyOrder(S) ==
  {pos \in [S -> 0 .. Cardinality(S) - 1] :
     \A r, s \in S : r # s => pos[r] # pos[s]}

\* ORDER BY createdAt DESC: the places rows may take.  Rows of one time stamp
\* take theirs in any order, anew in each query.
NewestFirst(S) ==
  {pos \in [S -> 0 .. Cardinality(S) - 1] :
     \A r, s \in S : r # s => /\ pos[r] # pos[s]
                              /\ createdAt[r] > createdAt[s] => pos[r] < pos[s]}

\* A faulty variant: both ends of the page included.
WindowInclusive == offset .. offset + Limit

\* LIMIT and OFFSET: the places of the page.
Window == offset .. offset + Limit - 1

FindRows ==
  /\ pc = "query"
  /\ page = None
  /\ \E pos \in NewestFirst(Visible) :
       page' = {r \in Visible : pos[r] \in Window}
  /\ UNCHANGED <<dbVars, pc, offset, total, there, told, collected, repeated>>

Answer ==
  /\ pc = "query"
  /\ total # None /\ page # None
  /\ pc' = "page"
  /\ collected' = collected \cup page
  /\ repeated' = repeated \cup (collected \cap page)
  /\ UNCHANGED <<dbVars, offset, total, page, there, told>>

\* A query fails: the client sends the same request again.
QueryFails ==
  /\ pc \in {"wallet", "query"}
  /\ pc' = "wallet"
  /\ total' = None
  /\ page' = None
  /\ UNCHANGED <<dbVars, offset, there, told, collected, repeated>>

\* A full page: the client asks for the rows after it.
NextPage ==
  /\ pc = "page"
  /\ Cardinality(page) >= Limit
  /\ pc' = "wallet"
  /\ offset' = offset + Limit
  /\ total' = None
  /\ page' = None
  /\ UNCHANGED <<dbVars, there, told, collected, repeated>>

LastPage ==
  /\ pc = "page"
  /\ Cardinality(page) < Limit
  /\ pc' = "end"
  /\ UNCHANGED <<dbVars, offset, total, page, there, told, collected,
                 repeated>>

Database ==
  \/ Tick \/ CreateWallet
  \/ \E r \in Rows : Stamp(r) \/ Commit(r) \/ Abort(r)

Client ==
  \/ \E r \in Postings : AskByKey(r)
  \/ Begin \/ FindWallet \/ CountRows \/ FindRows \/ Answer \/ QueryFails
  \/ NextPage \/ LastPage

Next == Database \/ Client

Spec == Init /\ [][Next]_vars
------------------------------------------------------------------------------

TypeOK ==
  /\ now \in 0 .. MaxTime
  /\ wallet \in BOOLEAN
  /\ createdAt \in [Rows -> (0 .. MaxTime) \cup {None}]
  /\ committed \in Seq(Rows)
  /\ pc \in {"asking", "wallet", "query", "page", "end", "absent"}
  /\ offset \in Nat
  /\ total \in Nat \cup {None}
  /\ page \in (SUBSET Rows) \cup {None}
  /\ there \subseteq Rows /\ told \subseteq Postings
  /\ collected \subseteq Rows /\ repeated \subseteq Rows

\* No other visible row has its time stamp.
AloneInTime(r) == \A s \in Visible \ {r} : createdAt[s] # createdAt[r]

\* The wallet lock is taken before a row is stamped, so the times of postings
\* are in the order of their commits: what newest first means to a reader.
TimesFollowCommits ==
  \A m, n \in DOMAIN committed :
    m < n /\ committed[m] # Opening /\ committed[n] # Opening =>
      createdAt[committed[m]] <= createdAt[committed[n]]

\* A client that pages to the end has seen every row there was when it began,
\* however many are added in between; but two rows of one time stamp may
\* change places between two pages and be missed.
NothingSkipped ==
  pc = "end" => \A r \in there : AloneInTime(r) => r \in collected

\* A posting the client was told is COMPLETED is in the history it then reads.
ToldRowsAreListed ==
  pc = "end" => \A r \in told : AloneInTime(r) => r \in collected

\* A row is on two pages only when rows were added while the client paged; but
\* two rows of one time stamp may change places between two pages, and one of
\* them be shown twice.
RepeatsNeedNewRows ==
  \A r \in repeated : AloneInTime(r) => Visible # there
=============================================================================
