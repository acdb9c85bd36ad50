--------------------- MODULE IdempotencyInterceptorProofs ---------------------
(***************************************************************************)
(* Theorems about the idempotency interceptor: for every set of requests,  *)
(* with and without the key, and every choice of failures.                 *)
(***************************************************************************)
EXTENDS IdempotencyInterceptor, TLAPS

------------------------------------------------------------------------------
(* The inductive invariant.                                                *)

\* What a request has done at each of its steps.
Paced ==
  \A r \in Requests :
    /\ pc[r] # "done" => reply[r] = None
    /\ pc[r] \in {"received", "marking"} => r \notin marked
    /\ pc[r] \in {"marking", "failing"} => r \in Keyed
    /\ pc[r] \in {"handling", "responding", "failing"} /\ r \in Keyed => r \in marked
    /\ pc[r] \in {"received", "marking", "handling"} => r \notin ran
    /\ pc[r] = "responding" => r \in ran

\* A result, stored or on its way, is of a request that ran and is over; a mark
\* was set by somebody.
Stored ==
  /\ \A r \in storing : pc[r] = "done" /\ r \in ran
  /\ \A r \in Requests : entry = Completed(r) => pc[r] = "done" /\ r \in ran
  /\ entry = Processing => marked # {}

\* Requests whose mark or result must stay in the cache.
Protected == {s \in marked : pc[s] \in {"handling", "responding"} \/ s \in Answered}

\* As long as nothing was spoiled, the cache stops whoever comes next.
Guarded ==
  /\ Answered \subseteq marked
  /\ ~spoiled /\ Protected # {} => Blocked \/ Replayable
  /\ late # {} => spoiled

IInv == TypeOK /\ Paced /\ Stored /\ Guarded

------------------------------------------------------------------------------
(* Entries and answers.                                                    *)

\* Which entries let a request on, and what a result says.
LEMMA EntryKinds ==
  /\ Processing # Failed /\ Processing # None /\ Failed # None
  /\ \A r \in Requests : /\ Completed(r) \notin {None, Processing, Failed}
                         /\ Completed(r).status = "completed"
                         /\ Completed(r).data = r
  /\ Processing.status = "processing" /\ Failed.status = "failed"
  BY EntriesAssumption DEF Processing, Failed, Completed

\* An entry that can be replayed is the result of a request.
LEMMA ReplayableEntry ==
  ASSUME TypeOK, Replayable
  PROVE  \E s \in Keyed : entry = Completed(s) /\ entry.data = s
  BY EntryKinds, KeyedAssumption DEF TypeOK, Entries, Replayable

\* What the helpers do to pc and reply.
LEMMA Moves ==
  ASSUME TypeOK, NEW r \in Requests
  PROVE  /\ \A step \in Steps : Goto(r, step) =>
              /\ pc' \in [Requests -> Steps] /\ reply' = reply
              /\ pc'[r] = step /\ \A s \in Requests : s # r => pc'[s] = pc[s]
         /\ \A code \in Codes, data \in Requests \cup {None} : Answer(r, code, data) =>
              /\ pc' \in [Requests -> Steps]
              /\ reply' \in [Requests -> [code: Codes, data: Requests \cup {None}]
                                           \cup {None}]
              /\ pc'[r] = "done" /\ reply'[r] = [code |-> code, data |-> data]
              /\ \A s \in Requests : s # r => pc'[s] = pc[s] /\ reply'[s] = reply[s]
  BY DEF TypeOK, Goto, Answer, Steps

------------------------------------------------------------------------------
(* Every step keeps the invariant.                                         *)

LEMMA Initially == Init => IInv
<1> SUFFICES ASSUME Init PROVE IInv
  OBVIOUS
<1>1. TypeOK
  BY DEF Init, TypeOK, Entries, Steps
<1>2. Paced
  BY DEF Init, Paced
<1>3. Stored
  BY EntryKinds DEF Init, Stored
<1>4. Answered = {} /\ Protected = {}
  BY KeyedAssumption DEF Init, Answered, Protected
<1>5. Guarded
  BY <1>4 DEF Init, Guarded
<1> QED BY <1>1, <1>2, <1>3, <1>5 DEF IInv

LEMMA PassThroughStep ==
  ASSUME IInv, NEW r \in Requests, PassThrough(r)
  PROVE  IInv'
<1>1. /\ TypeOK /\ pc[r] = "received" /\ r \notin Keyed /\ Goto(r, "handling")
      /\ UNCHANGED <<entry, storing, ran, historyVars>>
  BY DEF IInv, PassThrough
<1>2. /\ pc' \in [Requests -> Steps] /\ reply' = reply
      /\ pc'[r] = "handling" /\ \A s \in Requests : s # r => pc'[s] = pc[s]
  BY <1>1, Moves DEF Steps
<1>3. TypeOK' /\ Paced' /\ Stored'
  BY <1>1, <1>2 DEF IInv, TypeOK, Paced, Stored, historyVars
<1>4. Answered' = Answered /\ Protected' = Protected
  BY <1>1, <1>2, KeyedAssumption DEF Answered, Protected, historyVars, TypeOK
<1>5. Guarded'
  BY <1>1, <1>4 DEF IInv, Guarded, Blocked, Replayable, historyVars
<1> QED BY <1>3, <1>5 DEF IInv

\* A request that ends without the answer of its own run.
LEMMA EndStep ==
  ASSUME IInv, NEW r \in Requests, pc[r] # "done",
         NEW code \in Codes, NEW data \in Requests \cup {None}, data # r,
         Answer(r, code, data),
         UNCHANGED <<entry, storing, ran, marked, late, spoiled>>
  PROVE  IInv'
<1>1. /\ pc' \in [Requests -> Steps]
      /\ reply' \in [Requests -> [code: Codes, data: Requests \cup {None}] \cup {None}]
      /\ pc'[r] = "done" /\ reply'[r] = [code |-> code, data |-> data]
      /\ \A s \in Requests : s # r => pc'[s] = pc[s] /\ reply'[s] = reply[s]
  BY Moves DEF IInv
<1>2. TypeOK' /\ Paced' /\ Stored'
  BY <1>1 DEF IInv, TypeOK, Paced, Stored
<1>3. Answered' \subseteq Answered /\ Protected' \subseteq Protected
  <2>1. reply'[r].data # r
    BY <1>1
  <2> QED BY <1>1, <2>1, KeyedAssumption DEF Answered, Protected, IInv, TypeOK
<1>4. Guarded'
  BY <1>3 DEF IInv, Guarded, Blocked, Replayable
<1> QED BY <1>2, <1>4 DEF IInv

LEMMA LookupStep ==
  ASSUME IInv, NEW r \in Requests, Lookup(r) \/ CacheFails(r)
  PROVE  IInv'
<1> USE DEF historyVars
<1>1. CASE LookupCompleted(r)
  <2>1. PICK s \in Keyed : entry = Completed(s) /\ entry.data = s
    BY <1>1, ReplayableEntry DEF LookupCompleted, IInv
  <2>2. pc[r] # "done" /\ s # r /\ s \in Requests
    BY <1>1, <2>1, KeyedAssumption DEF LookupCompleted, IInv, Stored
  <2> QED BY <1>1, <2>1, <2>2, EndStep DEF LookupCompleted, Codes
<1>2. CASE LookupProcessing(r) \/ CacheFails(r)
  BY <1>2, EndStep, NoneAssumption DEF LookupProcessing, CacheFails, Codes
<1>3. CASE LookupFree(r)
  <2>1. /\ TypeOK /\ pc[r] = "received" /\ r \in Keyed /\ Goto(r, "marking")
        /\ ~Replayable /\ ~Blocked
        /\ late' = IF Answered # {} THEN late \cup {r} ELSE late
        /\ UNCHANGED <<entry, storing, ran, marked, spoiled>>
    BY <1>3 DEF IInv, LookupFree
  <2>2. /\ pc' \in [Requests -> Steps] /\ reply' = reply
        /\ pc'[r] = "marking" /\ \A s \in Requests : s # r => pc'[s] = pc[s]
    BY <2>1, Moves DEF Steps
  <2>3. TypeOK' /\ Paced' /\ Stored'
    BY <2>1, <2>2 DEF IInv, TypeOK, Paced, Stored
  <2>4. Answered' = Answered /\ Protected' \subseteq Protected
    BY <2>1, <2>2, KeyedAssumption DEF Answered, Protected, TypeOK
  <2>5. Answered # {} => spoiled
    BY <2>1 DEF IInv, Guarded, Protected
  <2>6. Guarded'
    BY <2>1, <2>4, <2>5 DEF IInv, Guarded, Blocked, Replayable
  <2> QED BY <2>3, <2>6 DEF IInv
<1> QED BY <1>1, <1>2, <1>3 DEF Lookup

LEMMA MarkStep ==
  ASSUME IInv, NEW r \in Requests, Mark(r) \/ MarkUnacknowledged(r)
  PROVE  IInv'
<1>1. /\ TypeOK /\ pc[r] = "marking" /\ entry' = Processing
      /\ marked' = marked \cup {r} /\ UNCHANGED <<storing, ran, late, spoiled>>
      /\ Goto(r, "handling") \/ Answer(r, "error", None)
  BY DEF IInv, Mark, MarkUnacknowledged, PutMark
<1>2. r \in Keyed /\ reply[r] = None
  BY <1>1 DEF IInv, Paced
<1>3. /\ pc' \in [Requests -> Steps]
      /\ reply' \in [Requests -> [code: Codes, data: Requests \cup {None}] \cup {None}]
      /\ pc'[r] \in {"handling", "done"} /\ (pc'[r] = "handling" => reply'[r] = None)
      /\ reply'[r] = None \/ reply'[r].data # r
      /\ \A s \in Requests : s # r => pc'[s] = pc[s] /\ reply'[s] = reply[s]
  <2>1. CASE Goto(r, "handling")
    BY <1>1, <1>2, <2>1, Moves DEF Steps, TypeOK
  <2>2. CASE Answer(r, "error", None)
    <3>1. /\ pc' \in [Requests -> Steps]
          /\ reply' \in [Requests -> [code: Codes, data: Requests \cup {None}] \cup {None}]
          /\ pc'[r] = "done" /\ reply'[r] = [code |-> "error", data |-> None]
          /\ \A s \in Requests : s # r => pc'[s] = pc[s] /\ reply'[s] = reply[s]
      BY <1>1, <2>2, Moves DEF Codes
    <3> QED BY <3>1, NoneAssumption
  <2> QED BY <1>1, <2>1, <2>2
<1>4. TypeOK'
  BY <1>1, <1>2, <1>3 DEF TypeOK, Entries
<1>5. Paced'
  BY <1>1, <1>2, <1>3 DEF IInv, TypeOK, Paced
<1>6. Stored'
  BY <1>1, <1>3, EntryKinds, KeyedAssumption DEF IInv, TypeOK, Stored
<1>7. Answered' \subseteq Answered
  BY <1>3, KeyedAssumption DEF Answered
<1>8. Guarded'
  BY <1>1, <1>7 DEF IInv, Guarded, Blocked
<1> QED BY <1>4, <1>5, <1>6, <1>8 DEF IInv

LEMMA HandleStep ==
  ASSUME IInv, NEW r \in Requests, Handle(r)
  PROVE  IInv'
<1>1. /\ TypeOK /\ pc[r] = "handling" /\ ran' = ran \cup {r} /\ Goto(r, "responding")
      /\ UNCHANGED <<entry, storing, historyVars>>
  BY DEF IInv, Handle
<1>2. /\ pc' \in [Requests -> Steps] /\ reply' = reply
      /\ pc'[r] = "responding" /\ \A s \in Requests : s # r => pc'[s] = pc[s]
  BY <1>1, Moves DEF Steps
<1>3. TypeOK' /\ Paced' /\ Stored'
  BY <1>1, <1>2 DEF IInv, TypeOK, Paced, Stored, historyVars
<1>4. Answered' = Answered /\ Protected' \subseteq Protected
  BY <1>1, <1>2, KeyedAssumption DEF Answered, Protected, historyVars, TypeOK
<1>5. Guarded'
  BY <1>1, <1>4 DEF IInv, Guarded, Blocked, Replayable, historyVars
<1> QED BY <1>3, <1>5 DEF IInv

LEMMA ThrowStep ==
  ASSUME IInv, NEW r \in Requests, HandlerThrows(r)
  PROVE  IInv'
<1>1. /\ TypeOK /\ pc[r] = "handling" /\ ran' \in {ran, ran \cup {r}}
      /\ IF r \in Keyed THEN Goto(r, "failing") ELSE Answer(r, "error", None)
      /\ UNCHANGED <<entry, storing, historyVars>>
  BY DEF IInv, HandlerThrows
<1>2. /\ pc' \in [Requests -> Steps]
      /\ reply' \in [Requests -> [code: Codes, data: Requests \cup {None}] \cup {None}]
      /\ IF r \in Keyed THEN pc'[r] = "failing" /\ reply'[r] = reply[r]
                        ELSE pc'[r] = "done"
      /\ \A s \in Requests : s # r => pc'[s] = pc[s] /\ reply'[s] = reply[s]
  <2>1. CASE r \in Keyed
    BY <1>1, <2>1, Moves DEF Steps, TypeOK
  <2>2. CASE r \notin Keyed
    BY <1>1, <2>2, Moves DEF Codes
  <2> QED BY <2>1, <2>2
<1>3. TypeOK' /\ Stored'
  BY <1>1, <1>2 DEF IInv, TypeOK, Stored, historyVars
<1>4. Paced'
  BY <1>1, <1>2 DEF IInv, TypeOK, Paced, historyVars
<1>5. Answered' = Answered /\ Protected' \subseteq Protected
  BY <1>1, <1>2, KeyedAssumption DEF Answered, Protected, historyVars, TypeOK
<1>6. Guarded'
  BY <1>1, <1>5 DEF IInv, Guarded, Blocked, Replayable, historyVars
<1> QED BY <1>3, <1>4, <1>6 DEF IInv

LEMMA RespondStep ==
  ASSUME IInv, NEW r \in Requests, Respond(r)
  PROVE  IInv'
<1>1. /\ TypeOK /\ pc[r] = "responding" /\ Answer(r, "ok", r)
      /\ storing' = IF r \in Keyed THEN storing \cup {r} ELSE storing
      /\ UNCHANGED <<entry, ran, historyVars>>
  BY DEF IInv, Respond
<1>2. /\ pc' \in [Requests -> Steps]
      /\ reply' \in [Requests -> [code: Codes, data: Requests \cup {None}] \cup {None}]
      /\ pc'[r] = "done"
      /\ \A s \in Requests : s # r => pc'[s] = pc[s] /\ reply'[s] = reply[s]
  BY <1>1, Moves DEF Codes
<1>3. TypeOK' /\ Paced' /\ Stored'
  BY <1>1, <1>2 DEF IInv, TypeOK, Paced, Stored, historyVars
<1>4. /\ Answered' \subseteq Answered \cup {r}
      /\ r \in Keyed => r \in Protected
      /\ Protected' \subseteq Protected
  BY <1>1, <1>2, KeyedAssumption DEF Answered, Protected, historyVars, TypeOK, IInv, Paced
<1>5. Guarded'
  <2>1. Answered' \subseteq marked'
    BY <1>1, <1>4 DEF IInv, Guarded, Answered, Protected, historyVars
  <2> QED BY <1>1, <1>4, <2>1 DEF IInv, Guarded, Blocked, Replayable, historyVars
<1> QED BY <1>3, <1>5 DEF IInv

LEMMA StoreStep ==
  ASSUME IInv, NEW r \in Requests, Store(r) \/ StoreFails(r)
  PROVE  IInv'
<1>1. /\ TypeOK /\ r \in storing /\ storing' = storing \ {r}
      /\ entry' \in {entry, Completed(r)}
      /\ UNCHANGED <<pc, reply, ran, historyVars>>
  BY DEF IInv, Store, StoreFails
<1>2. TypeOK'
  BY <1>1 DEF TypeOK, Entries, historyVars
<1>3. Paced'
  BY <1>1 DEF IInv, Paced, historyVars
<1>4. Stored'
  <2>1. \A s \in Requests : Completed(s) = Completed(r) => s = r
    BY EntryKinds
  <2> QED BY <1>1, <2>1, EntryKinds DEF IInv, Stored, historyVars
<1>5. Answered' = Answered /\ Protected' = Protected
  BY <1>1 DEF Answered, Protected, historyVars
<1>6. Blocked \/ Replayable => Blocked' \/ Replayable'
  BY <1>1, EntryKinds DEF Blocked, Replayable
<1>7. Guarded'
  BY <1>1, <1>5, <1>6 DEF IInv, Guarded, historyVars
<1> QED BY <1>2, <1>3, <1>4, <1>7 DEF IInv

LEMMA RecordFailureStep ==
  ASSUME IInv, NEW r \in Requests, RecordFailure(r)
  PROVE  IInv'
<1>1. TypeOK /\ pc[r] = "failing" /\ r \in Keyed /\ r \in marked
  BY DEF IInv, RecordFailure, Paced
<1>2. CASE UNCHANGED <<entry, spoiled>>
  BY <1>1, <1>2, EndStep, NoneAssumption DEF RecordFailure, Codes
<1>3. CASE entry' = Failed /\ spoiled' = (spoiled \/ Rivals(r) # {})
  <2>1. Answer(r, "error", None) /\ UNCHANGED <<storing, ran, marked, late>>
    BY DEF RecordFailure
  <2>2. /\ pc' \in [Requests -> Steps]
        /\ reply' \in [Requests -> [code: Codes, data: Requests \cup {None}] \cup {None}]
        /\ pc'[r] = "done" /\ reply'[r] = [code |-> "error", data |-> None]
        /\ \A s \in Requests : s # r => pc'[s] = pc[s] /\ reply'[s] = reply[s]
    BY <1>1, <2>1, Moves DEF Codes
  <2>3. reply'[r].data # r
    BY <2>2, NoneAssumption
  <2>4. TypeOK'
    BY <1>1, <1>3, <2>1, <2>2 DEF TypeOK, Entries
  <2>5. Paced'
    BY <2>1, <2>2 DEF IInv, Paced
  <2>6. Stored'
    BY <1>3, <2>1, <2>2, EntryKinds, KeyedAssumption DEF IInv, TypeOK, Stored
  <2>7. Answered' \subseteq Answered /\ Protected' \subseteq Rivals(r)
    BY <1>1, <2>1, <2>2, <2>3, KeyedAssumption DEF Answered, Protected, Rivals, TypeOK
  <2>8. Guarded'
    BY <1>3, <2>1, <2>7 DEF IInv, Guarded
  <2> QED BY <2>4, <2>5, <2>6, <2>8 DEF IInv
<1> QED BY <1>2, <1>3 DEF RecordFailure

LEMMA ExpireStep ==
  ASSUME IInv, Expire
  PROVE  IInv'
<1>1. /\ entry' = None /\ spoiled' = TRUE
      /\ UNCHANGED <<storing, pc, reply, ran, marked, late>>
  BY DEF Expire, serverVars
<1>2. TypeOK' /\ Paced' /\ Stored'
  BY <1>1, EntryKinds DEF IInv, TypeOK, Entries, Paced, Stored
<1>3. Answered' = Answered
  BY <1>1 DEF Answered
<1>4. Guarded'
  BY <1>1, <1>3 DEF IInv, Guarded
<1> QED BY <1>2, <1>4 DEF IInv

LEMMA CrashStep ==
  ASSUME IInv, Crash
  PROVE  IInv'
<1>1. /\ TypeOK /\ storing' = {}
      /\ pc' = [r \in Requests |-> IF Running(r) THEN "done" ELSE pc[r]]
      /\ reply' = [r \in Requests |->
                     IF Running(r) THEN [code |-> "lost", data |-> None] ELSE reply[r]]
      /\ UNCHANGED <<entry, ran, marked, late, spoiled>>
  BY DEF IInv, Crash, historyVars
<1>2. TypeOK'
  <2>1. pc' \in [Requests -> Steps]
    BY <1>1 DEF TypeOK, Steps
  <2>2. reply' \in [Requests -> [code: Codes, data: Requests \cup {None}] \cup {None}]
    BY <1>1 DEF TypeOK, Codes
  <2> QED BY <1>1, <2>1, <2>2 DEF TypeOK
<1>3. Paced' /\ Stored'
  BY <1>1 DEF IInv, Paced, Stored, Running
<1>4. Answered' \subseteq Answered /\ Protected' \subseteq Protected
  <2>1. \A s \in Requests : /\ pc'[s] = "done" \/ pc'[s] = pc[s]
                            /\ s \in Keyed /\ s \in Answered' => s \in Answered
    BY <1>1, NoneAssumption DEF Answered
  <2> QED BY <1>1, <2>1, KeyedAssumption DEF Answered, Protected, TypeOK
<1>5. Guarded'
  BY <1>1, <1>4 DEF IInv, Guarded, Blocked, Replayable
<1> QED BY <1>2, <1>3, <1>5 DEF IInv

LEMMA IdleStep ==
  ASSUME IInv, UNCHANGED vars
  PROVE  IInv'
  BY DEF vars, serverVars, historyVars, IInv, TypeOK, Paced, Stored, Guarded, Answered,
         Protected, Blocked, Replayable

LEMMA Inductive == IInv /\ [Next]_vars => IInv'
  BY PassThroughStep, LookupStep, MarkStep, HandleStep, ThrowStep, RespondStep,
     StoreStep, RecordFailureStep, ExpireStep, CrashStep, IdleStep
  DEF Next, Serve, Failure

THEOREM Invariance == Spec => []IInv
<1> QED
  BY Initially, Inductive, PTL DEF Spec

\* Entries, marks and answers always have their shape, and a request without a
\* key leaves no trace in the cache.
THEOREM TypeCorrect == Spec => []TypeOK
<1>1. IInv => TypeOK
  BY DEF IInv
<1> QED
  BY <1>1, Invariance, PTL

\* Once a client has its answer the handler runs again only because an entry
\* expired or a racing request failed.
THEOREM RunsAgainIfSpoiled == Spec => []RunsAgainOnlyIfSpoiled
<1>1. IInv => RunsAgainOnlyIfSpoiled
  BY DEF IInv, Guarded, RunsAgainOnlyIfSpoiled
<1> QED
  BY <1>1, Invariance, PTL

\* idempotency.interceptor.ts:34: a mark keeps out whoever looks up the key
\* later, for as long as the handler is at work and nothing took it away.
THEOREM MarksKeepOut == Spec => MarksKeepOthersOut
<1>1. ASSUME IInv, [Next]_vars,
             NEW r \in Requests, pc[r] = "received", pc'[r] = "marking"
      PROVE  spoiled \/ \A s \in marked : pc[s] \notin {"handling", "responding"}
  <2>1. ASSUME NEW q \in Requests, Serve(q) \/ Failure(q)
        PROVE  LookupFree(r)
    <3>1. \/ LookupFree(q)
          \/ pc' = pc
          \/ \E step \in {"handling", "responding", "failing", "done"} :
               pc' = [pc EXCEPT ![q] = step]
      BY <2>1 DEF Serve, Failure, PassThrough, Lookup, LookupCompleted, LookupProcessing,
                  Mark, MarkUnacknowledged, CacheFails, Handle, HandlerThrows, Respond,
                  Store, StoreFails, RecordFailure, Goto, Answer
    <3>2. LookupFree(q)
      BY <1>1, <3>1 DEF IInv, TypeOK
    <3>3. q = r
      BY <1>1, <3>2 DEF LookupFree, Goto, IInv, TypeOK
    <3> QED
      BY <3>2, <3>3
  <2>2. ~Expire /\ ~Crash /\ ~UNCHANGED vars
    BY <1>1 DEF Expire, Crash, vars, serverVars, IInv, TypeOK
  <2>3. LookupFree(r)
    BY <1>1, <2>1, <2>2 DEF Next
  <2>4. ~spoiled => Protected = {}
    BY <1>1, <2>3 DEF LookupFree, IInv, Guarded
  <2> QED
    BY <2>4 DEF Protected
<1>2. IInv /\ [Next]_vars =>
        [\A r \in Requests : pc[r] = "received" /\ pc'[r] = "marking" =>
           spoiled \/ \A s \in marked : pc[s] \notin {"handling", "responding"}]_vars
  BY <1>1
<1> QED
  BY <1>2, Invariance, PTL DEF Spec, MarksKeepOthersOut

------------------------------------------------------------------------------
(* The interceptor implements OnceByKey.                                   *)

\* The outcomes of the requests with the key, as OnceByKey sees them.
Outcomes == [r \in Keyed |-> Outcome(r)]

\* Who has not been answered has no outcome.
LEMMA NoOutcome ==
  ASSUME NEW r \in Keyed, reply[r] = None
  PROVE  Outcomes[r] = None
  BY DEF Outcomes, Outcome

\* Outcomes only change with answers to requests that have the key.
LEMMA SameOutcomes ==
  ASSUME \A s \in Keyed : reply'[s] = reply[s]
  PROVE  Outcomes' = Outcomes
<1>1. \A s \in Keyed : Outcome(s)' = Outcome(s)
  BY DEF Outcome
<1> QED BY <1>1 DEF Outcomes

LEMMA KeptReplies ==
  ASSUME UNCHANGED reply
  PROVE  Outcomes' = Outcomes
  BY SameOutcomes

\* The outcome an answer is.
LEMMA NewOutcome ==
  ASSUME IInv, NEW r \in Keyed, NEW code \in Codes, NEW data \in Requests \cup {None},
         pc[r] # "done", Answer(r, code, data)
  PROVE  /\ Outcomes[r] = None
         /\ Outcomes' = [Outcomes EXCEPT ![r] =
              [kind |-> IF code = "conflict" THEN "refused"
                        ELSE IF code = "error" THEN "failed"
                        ELSE IF code = "lost" THEN "lost"
                        ELSE IF data = r THEN "ran" ELSE "replayed",
               from |-> data]]
<1>1. r \in Requests /\ TypeOK /\ reply[r] = None
  BY KeyedAssumption DEF IInv, Paced
<1>2. /\ reply'[r] = [code |-> code, data |-> data]
      /\ \A s \in Requests : s # r => reply'[s] = reply[s]
  BY <1>1, Moves
<1>3. \A s \in Keyed : s # r => Outcome(s)' = Outcome(s)
  BY <1>2, KeyedAssumption DEF Outcome
<1>4. reply'[r] # None
  BY <1>2, EntriesAssumption
<1>5. Outcome(r)' = [kind |-> IF code = "conflict" THEN "refused"
                             ELSE IF code = "error" THEN "failed"
                             ELSE IF code = "lost" THEN "lost"
                             ELSE IF data = r THEN "ran" ELSE "replayed",
                    from |-> data]
  BY <1>2, <1>4 DEF Outcome
<1> QED BY <1>1, <1>3, <1>5, NoOutcome DEF Outcomes

LEMMA InitRefines == Init => Promise!Init
<1> SUFFICES ASSUME Init PROVE Promise!Init
  OBVIOUS
<1>1. ran \cap Keyed = {} /\ marked = {}
  BY DEF Init
<1>2. \A r \in Keyed : Outcome(r) = None
  BY KeyedAssumption DEF Init, Outcome
<1> QED BY <1>1, <1>2 DEF Promise!Init

\* A request comes in.
LEMMA LookupRefines ==
  ASSUME IInv, NEW r \in Requests, PassThrough(r) \/ Lookup(r)
  PROVE  Promise!Next \/ UNCHANGED Promise!vars
<1> USE DEF historyVars
<1>1. CASE PassThrough(r) \/ LookupFree(r)
  BY <1>1, KeptReplies DEF PassThrough, LookupFree, Goto, Outcomes, Promise!vars
<1>2. CASE LookupCompleted(r)
  <2>1. PICK s \in Keyed : entry = Completed(s) /\ entry.data = s
    BY <1>2, ReplayableEntry DEF LookupCompleted, IInv
  <2>2. /\ s \in Requests /\ s # r /\ s \in ran /\ r \notin marked
        /\ pc[r] # "done" /\ r \in Keyed
    BY <1>2, <2>1, KeyedAssumption DEF LookupCompleted, IInv, Stored, Paced
  <2>3. Answer(r, "ok", s) /\ UNCHANGED <<ran, marked>>
    BY <1>2, <2>1 DEF LookupCompleted
  <2>4. /\ Outcomes[r] = None
        /\ Outcomes' = [Outcomes EXCEPT ![r] = [kind |-> "replayed", from |-> s]]
    BY <2>2, <2>3, NewOutcome DEF Codes
  <2>5. Promise!Replay(r)
    BY <2>1, <2>2, <2>3, <2>4 DEF Promise!Replay, Promise!End, Outcomes
  <2> QED BY <2>2, <2>5 DEF Promise!Next
<1>3. CASE LookupProcessing(r)
  <2>1. /\ r \notin marked /\ marked # {} /\ pc[r] # "done" /\ r \in Keyed
        /\ Answer(r, "conflict", None) /\ UNCHANGED <<ran, marked>>
    BY <1>3 DEF LookupProcessing, IInv, Stored, Paced, Blocked
  <2>2. /\ Outcomes[r] = None
        /\ Outcomes' = [Outcomes EXCEPT ![r] = [kind |-> "refused", from |-> None]]
    BY <2>1, NewOutcome DEF Codes
  <2>3. Promise!Refuse(r)
    BY <2>1, <2>2 DEF Promise!Refuse, Promise!End, Outcomes
  <2> QED BY <2>1, <2>3 DEF Promise!Next
<1> QED BY <1>1, <1>2, <1>3 DEF Lookup

\* An error is an error for OnceByKey too, whether or not it comes with the key.
LEMMA ErrorRefines ==
  ASSUME IInv, NEW r \in Keyed, pc[r] # "done", Answer(r, "error", None),
         marked' \in {marked, marked \cup {r}}, UNCHANGED ran
  PROVE  Promise!Next
<1>1. /\ Outcomes[r] = None
      /\ Outcomes' = [Outcomes EXCEPT ![r] = [kind |-> "failed", from |-> None]]
  BY NewOutcome DEF Codes
<1>2. Promise!Fail(r)
  BY <1>1 DEF Promise!Fail, Promise!End, Outcomes
<1> QED BY <1>2 DEF Promise!Next

LEMMA MarkRefines ==
  ASSUME IInv, NEW r \in Requests, Mark(r) \/ MarkUnacknowledged(r) \/ CacheFails(r)
  PROVE  Promise!Next \/ UNCHANGED Promise!vars
<1> USE DEF historyVars
<1>1. CASE Mark(r)
  <2>1. /\ r \in Keyed /\ reply[r] = None
        /\ marked' = marked \cup {r} /\ UNCHANGED <<ran, reply>>
    BY <1>1 DEF Mark, PutMark, Goto, IInv, Paced
  <2>2. Promise!Claim(r)
    BY <2>1, NoOutcome, KeptReplies DEF Promise!Claim, Outcomes
  <2> QED BY <2>1, <2>2 DEF Promise!Next
<1>2. CASE MarkUnacknowledged(r)
  BY <1>2, ErrorRefines DEF MarkUnacknowledged, PutMark, IInv, Paced
<1>3. CASE CacheFails(r)
  BY <1>3, ErrorRefines DEF CacheFails
<1> QED BY <1>1, <1>2, <1>3

\* The handler of a request with the key is a run of the key.
LEMMA RunRefines ==
  ASSUME IInv, NEW r \in Keyed, pc[r] = "handling", ran' = ran \cup {r},
         UNCHANGED <<marked, reply>>
  PROVE  Promise!Next
<1>1. r \in marked /\ r \notin ran /\ reply[r] = None
  BY KeyedAssumption DEF IInv, Paced
<1>2. Promise!Run(r)
  BY <1>1, NoOutcome, KeptReplies DEF Promise!Run, Outcomes
<1> QED BY <1>2 DEF Promise!Next

\* Requests without the key leave no trace.
LEMMA OthersRefine ==
  ASSUME NEW r \in Requests, r \notin Keyed, TypeOK,
         ran' \in {ran, ran \cup {r}}, UNCHANGED marked,
         \A s \in Requests : s # r => reply'[s] = reply[s]
  PROVE  UNCHANGED Promise!vars
<1>1. Outcomes' = Outcomes
  BY SameOutcomes, KeyedAssumption
<1>2. (ran \cap Keyed)' = ran \cap Keyed
  OBVIOUS
<1> QED BY <1>1, <1>2 DEF Outcomes, Promise!vars

LEMMA HandlerRefines ==
  ASSUME IInv, NEW r \in Requests, Handle(r) \/ HandlerThrows(r)
  PROVE  Promise!Next \/ UNCHANGED Promise!vars
<1> USE DEF historyVars
<1>1. /\ pc[r] = "handling" /\ UNCHANGED marked
      /\ ran' \in {ran, ran \cup {r}} /\ TypeOK
  BY DEF Handle, HandlerThrows, IInv
<1>2. CASE r \in Keyed
  <2>1. UNCHANGED reply
    BY <1>2 DEF Handle, HandlerThrows, Goto
  <2>2. CASE ran' = ran \cup {r}
    BY <1>1, <1>2, <2>1, <2>2, RunRefines
  <2>3. CASE ran' = ran
    BY <1>1, <2>1, <2>3, KeptReplies DEF Outcomes, Promise!vars
  <2> QED BY <1>1, <2>2, <2>3
<1>3. CASE r \notin Keyed
  <2>1. \A s \in Requests : s # r => reply'[s] = reply[s]
    BY <1>1, <1>3, Moves DEF Handle, HandlerThrows, Goto, Codes
  <2> QED BY <1>1, <1>3, <2>1, OthersRefine
<1> QED BY <1>2, <1>3

LEMMA RespondRefines ==
  ASSUME IInv, NEW r \in Requests, Respond(r)
  PROVE  Promise!Next \/ UNCHANGED Promise!vars
<1>1. /\ pc[r] = "responding" /\ Answer(r, "ok", r) /\ UNCHANGED <<ran, marked>>
      /\ r \in ran /\ TypeOK
  BY DEF Respond, historyVars, IInv, Paced
<1>2. CASE r \in Keyed
  <2>1. /\ Outcomes[r] = None
        /\ Outcomes' = [Outcomes EXCEPT ![r] = [kind |-> "ran", from |-> r]]
    BY <1>1, <1>2, NewOutcome DEF Codes
  <2>2. Promise!AnswerOwn(r)
    BY <1>1, <1>2, <2>1 DEF Promise!AnswerOwn, Promise!End, Outcomes
  <2> QED BY <1>2, <2>2 DEF Promise!Next
<1>3. CASE r \notin Keyed
  <2>1. \A s \in Requests : s # r => reply'[s] = reply[s]
    BY <1>1, Moves DEF Codes
  <2> QED BY <1>1, <1>3, <2>1, OthersRefine
<1> QED BY <1>2, <1>3

\* What happens to the entry alone.
LEMMA EntryRefines ==
  ASSUME UNCHANGED <<reply, ran, marked>>
  PROVE  UNCHANGED Promise!vars
  BY KeptReplies DEF Outcomes, Promise!vars

LEMMA CrashRefines ==
  ASSUME IInv, Crash
  PROVE  Promise!Next
<1> DEFINE S == {r \in Keyed : Running(r)}
<1>1. /\ reply' = [r \in Requests |->
                     IF Running(r) THEN [code |-> "lost", data |-> None] ELSE reply[r]]
      /\ UNCHANGED <<ran, marked>>
  BY DEF Crash, historyVars
<1>2. S \in SUBSET {r \in Keyed : Outcomes[r] = None}
  BY KeyedAssumption, NoOutcome DEF Running, IInv, Paced
<1>3. \A r \in S : Outcome(r)' = Promise!Lost
  <2> TAKE r \in S
  <2>1. reply'[r] = [code |-> "lost", data |-> None]
    BY <1>1, KeyedAssumption
  <2>2. reply'[r] # None
    BY <2>1, EntriesAssumption DEF Codes
  <2> QED BY <2>1, <2>2 DEF Outcome, Promise!Lost
<1>4. \A r \in Keyed : r \notin S => Outcome(r)' = Outcome(r)
  BY <1>1, KeyedAssumption DEF Outcome
<1>5. Outcomes' = [r \in Keyed |-> IF r \in S THEN Promise!Lost ELSE Outcomes[r]]
  BY <1>3, <1>4 DEF Outcomes
<1>6. Promise!Lose
  BY <1>1, <1>2, <1>5 DEF Promise!Lose, Outcomes
<1> QED BY <1>6 DEF Promise!Next

LEMMA NextRefines == IInv /\ [Next]_vars => [Promise!Next]_(Promise!vars)
<1> SUFFICES ASSUME IInv, [Next]_vars PROVE Promise!Next \/ UNCHANGED Promise!vars
  OBVIOUS
<1>1. ASSUME NEW r \in Requests, Serve(r) \/ Failure(r)
      PROVE  Promise!Next \/ UNCHANGED Promise!vars
  <2>1. CASE RecordFailure(r)
    BY <2>1, ErrorRefines DEF RecordFailure, IInv, Paced
  <2>2. CASE Store(r) \/ StoreFails(r)
    BY <2>2, EntryRefines DEF Store, StoreFails, historyVars
  <2> QED BY <1>1, <2>1, <2>2, LookupRefines, MarkRefines, HandlerRefines, RespondRefines
      DEF Serve, Failure
<1>2. CASE Expire
  BY <1>2, EntryRefines DEF Expire, serverVars
<1>3. CASE Crash
  BY <1>3, CrashRefines
<1>4. CASE UNCHANGED vars
  BY <1>4, EntryRefines DEF vars, serverVars, historyVars
<1> QED BY <1>1, <1>2, <1>3, <1>4 DEF Next

\* The interceptor implements the promise of OnceByKey: a claim is a mark that
\* reached the cache, a run a call of the handler.
THEOREM Refinement == Spec => ImplementsOnceByKey
<1> QED
  BY InitRefines, NextRefines, Invariance, PTL DEF Spec, ImplementsOnceByKey, Promise!Spec
=============================================================================
