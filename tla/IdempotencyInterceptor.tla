------------------------ MODULE IdempotencyInterceptor ------------------------
(***************************************************************************)
(* IdempotencyInterceptor over the cache it keeps its marks and results    *)
(* in, for requests of one method and path.  Those in Keyed carry one and  *)
(* the same key, the others none.  The lookup, the mark and the result are *)
(* three calls of the cache, and nobody awaits the third: the answer is    *)
(* out before the result is stored.                                        *)
(***************************************************************************)
EXTENDS FiniteSets

CONSTANTS
  Requests,   \* the requests
  Keyed,      \* those with the key
  Faults,     \* the failures that may happen, out of FaultKinds
  None

FaultKinds == {"await", "handler", "ack", "crash"}

ASSUME KeyedAssumption == Keyed \subseteq Requests

ASSUME FaultsAssumption == Faults \subseteq FaultKinds

ASSUME NoneAssumption == None \notin Requests

VARIABLES
  entry,     \* the entry of the key, None when there is none
  storing,   \* requests whose result is on its way to the cache
  pc,        \* the step a request is at
  reply,     \* its answer, None before
  ran,       \* requests whose handler has had its effect
  marked,    \* requests whose mark has reached the cache
  late,      \* requests that went on although an answer had been given
  spoiled    \* an entry expired, or a failure took the place of the mark or
             \* of the result of another request

serverVars  == <<storing, pc, reply, ran>>
historyVars == <<marked, late, spoiled>>
vars == <<entry, serverVars, historyVars>>

Steps == {"received", "marking", "handling", "responding", "failing", "done"}

Codes == {"ok", "conflict", "error", "lost"}

Processing   == [status |-> "processing", data |-> None]
Failed       == [status |-> "failed", data |-> None]
Completed(r) == [status |-> "completed", data |-> r]

ASSUME EntriesAssumption ==
  /\ None \notin {Processing, Failed} \cup {Completed(r) : r \in Requests}
  /\ None \notin [code: Codes, data: Requests \cup {None}]

Init ==
  /\ entry = None
  /\ storing = {}
  /\ pc = [r \in Requests |-> "received"]
  /\ reply = [r \in Requests |-> None]
  /\ ran = {}
  /\ marked = {}
  /\ late = {}
  /\ spoiled = FALSE

Goto(r, step) == pc' = [pc EXCEPT ![r] = step] /\ UNCHANGED reply

Answer(r, code, data) ==
  /\ pc' = [pc EXCEPT ![r] = "done"]
  /\ reply' = [reply EXCEPT ![r] = [code |-> code, data |-> data]]

------------------------------------------------------------------------------

\* No key: the handler runs, whatever the cache holds.
PassThrough(r) ==
  /\ pc[r] = "received"
  /\ r \notin Keyed
  /\ Goto(r, "handling")
  /\ UNCHANGED <<entry, storing, ran, historyVars>>

\* A faulty variant: only a result stops a request, a mark does not.
BlockedByResultsOnly == FALSE

\* The mark of a request that may still be at work.
Blocked == entry = Processing

\* Requests that have been given the answer of their own run.
Answered == {s \in Keyed : reply[s] # None /\ reply[s].data = s}

\* Others that have taken the key and are at work or were answered.
Rivals(r) ==
  {s \in marked \ {r} : pc[s] \in {"handling", "responding"} \/ s \in Answered}

\* A faulty variant: the status of the entry is not looked at.
ReplayableAnyStatus == entry # None

Replayable == entry # None /\ entry.status = "completed"

LookupCompleted(r) ==
  /\ pc[r] = "received"
  /\ r \in Keyed
  /\ Replayable
  /\ Answer(r, "ok", entry.data)
  /\ UNCHANGED <<entry, storing, ran, historyVars>>

LookupProcessing(r) ==
  /\ pc[r] = "received"
  /\ r \in Keyed
  /\ Blocked
  /\ Answer(r, "conflict", None)
  /\ UNCHANGED <<entry, storing, ran, historyVars>>

\* No entry, or one of a failure: the request goes on.
LookupFree(r) ==
  /\ pc[r] = "received"
  /\ r \in Keyed
  /\ ~Replayable /\ ~Blocked
  /\ Goto(r, "marking")
  /\ late' = IF Answered # {} THEN late \cup {r} ELSE late
  /\ UNCHANGED <<entry, storing, ran, marked, spoiled>>

PutMark(r) ==
  /\ pc[r] = "marking"
  /\ entry' = Processing
  /\ marked' = marked \cup {r}

Mark(r) ==
  /\ PutMark(r)
  /\ Goto(r, "handling")
  /\ UNCHANGED <<storing, ran, late, spoiled>>

\* The mark is set, its acknowledgement is lost: the handler is not called.
MarkUnacknowledged(r) ==
  /\ "await" \in Faults
  /\ PutMark(r)
  /\ Answer(r, "error", None)
  /\ UNCHANGED <<storing, ran, late, spoiled>>

\* The lookup or the mark rejects.
CacheFails(r) ==
  /\ "await" \in Faults
  /\ pc[r] \in {"received", "marking"} /\ r \in Keyed
  /\ Answer(r, "error", None)
  /\ UNCHANGED <<entry, storing, ran, historyVars>>

------------------------------------------------------------------------------
(* next.handle() and what the pipe does with its outcome.                  *)

Handle(r) ==
  /\ pc[r] = "handling"
  /\ ran' = ran \cup {r}
  /\ Goto(r, "responding")
  /\ UNCHANGED <<entry, storing, historyVars>>

\* The handler throws, before or (its commit unacknowledged) after its effect.
HandlerThrows(r) ==
  /\ pc[r] = "handling"
  /\ \/ "handler" \in Faults /\ UNCHANGED ran
     \/ "ack" \in Faults /\ ran' = ran \cup {r}
  /\ IF r \in Keyed THEN Goto(r, "failing") ELSE Answer(r, "error", None)
  /\ UNCHANGED <<entry, storing, historyVars>>

\* A faulty variant: the result is stored for requests without a key too.
RespondStoringAlways(r) ==
  /\ pc[r] = "responding"
  /\ storing' = storing \cup {r}
  /\ Answer(r, "ok", r)
  /\ UNCHANGED <<entry, ran, historyVars>>

\* tap: the result is sent to the cache and the answer to the client.
Respond(r) ==
  /\ pc[r] = "responding"
  /\ storing' = IF r \in Keyed THEN storing \cup {r} ELSE storing
  /\ Answer(r, "ok", r)
  /\ UNCHANGED <<entry, ran, historyVars>>

Store(r) ==
  /\ r \in storing
  /\ storing' = storing \ {r}
  /\ entry' = Completed(r)
  /\ UNCHANGED <<pc, reply, ran, historyVars>>

\* Nobody handles the rejection: it is one of the reasons to shut down.
StoreFails(r) ==
  /\ "await" \in Faults
  /\ r \in storing
  /\ storing' = storing \ {r}
  /\ UNCHANGED <<entry, pc, reply, ran, historyVars>>

\* catchError: the failure is stored, then thrown on; if that fails its own
\* error is, instead.
RecordFailure(r) ==
  /\ pc[r] = "failing"
  /\ \/ entry' = Failed /\ spoiled' = (spoiled \/ Rivals(r) # {})
     \/ "await" \in Faults /\ UNCHANGED <<entry, spoiled>>
  /\ Answer(r, "error", None)
  /\ UNCHANGED <<storing, ran, marked, late>>

------------------------------------------------------------------------------

\* Every entry has a time to live; a mark's may be shorter than the handler
\* takes.
Expire ==
  /\ entry # None
  /\ entry' = None
  /\ spoiled' = TRUE
  /\ UNCHANGED <<serverVars, marked, late>>

Running(r) == pc[r] \notin {"received", "done"}

\* The process dies with its requests and what it was sending to the cache.
Crash ==
  /\ "crash" \in Faults
  /\ storing # {} \/ \E r \in Requests : Running(r)
  /\ storing' = {}
  /\ pc' = [r \in Requests |-> IF Running(r) THEN "done" ELSE pc[r]]
  /\ reply' = [r \in Requests |->
                 IF Running(r) THEN [code |-> "lost", data |-> None]
                               ELSE reply[r]]
  /\ UNCHANGED <<entry, ran, historyVars>>

Lookup(r) == LookupCompleted(r) \/ LookupProcessing(r) \/ LookupFree(r)

Serve(r) ==
  \/ PassThrough(r) \/ Lookup(r) \/ Mark(r) \/ Handle(r) \/ Respond(r)
  \/ Store(r) \/ RecordFailure(r)

Failure(r) ==
  MarkUnacknowledged(r) \/ CacheFails(r) \/ HandlerThrows(r) \/ StoreFails(r)

Next ==
  \/ \E r \in Requests : Serve(r) \/ Failure(r)
  \/ Expire
  \/ Crash

Spec == Init /\ [][Next]_vars

------------------------------------------------------------------------------

Entries == {None, Processing, Failed} \cup {Completed(r) : r \in Keyed}

TypeOK ==
  /\ entry \in Entries
  /\ storing \subseteq Keyed
  /\ pc \in [Requests -> Steps]
  /\ reply \in [Requests -> [code: Codes, data: Requests \cup {None}] \cup {None}]
  /\ ran \subseteq Requests
  /\ marked \subseteq Keyed  /\ late \subseteq Keyed
  /\ spoiled \in BOOLEAN

\* The lookup and the mark are two calls, so requests that race all run; but
\* once a client has its answer, be it stored yet or not, the handler runs
\* again only because an entry expired, or because one of the racing requests
\* failed and its failure took the place of another's mark or result.
RunsAgainOnlyIfSpoiled == late # {} => spoiled

\* Those who looked before there was a mark run side by side, but nobody joins
\* them later: who looks up the key while the handler of a request that has
\* marked it is at work, or its answer is not out yet, does not go on, unless an
\* entry expired or a failure took the place of a mark or a result.
MarksKeepOthersOut ==
  [][\A r \in Requests : pc[r] = "received" /\ pc'[r] = "marking" =>
       spoiled \/ \A s \in marked : pc[s] \notin {"handling", "responding"}]_vars

\* The answer of the interceptor in the words of OnceByKey.
Outcome(r) ==
  IF reply[r] = None THEN None
  ELSE [kind |-> IF reply[r].code = "conflict" THEN "refused"
                 ELSE IF reply[r].code = "error" THEN "failed"
                 ELSE IF reply[r].code = "lost" THEN "lost"
                 ELSE IF reply[r].data = r THEN "ran" ELSE "replayed",
        from |-> reply[r].data]

Promise ==
  INSTANCE OnceByKey WITH Requests <- Keyed, claimed <- marked,
                          ran <- ran \cap Keyed,
                          outcome <- [r \in Keyed |-> Outcome(r)]

\* The interceptor keeps the promise of OnceByKey: an answer is of the
\* request's own run or of a run there was, and a request that was refused or
\* got the answer of another has not run.
ImplementsOnceByKey == Promise!Spec
=============================================================================
