------------------------------ MODULE OnceByKey ------------------------------
(***************************************************************************)
(* What an idempotency layer promises for the requests that carry one key: *)
(* each is answered from its own run of the handler, from the run of       *)
(* another, or not at all, and one that is replayed or refused has not     *)
(* run.  How often the handler runs is left to the layer.                  *)
(***************************************************************************)
CONSTANTS Requests, None

VARIABLES
  claimed,  \* requests that have taken the key
  ran,      \* requests whose handler has had its effect
  outcome   \* request -> its answer, None before

vars == <<claimed, ran, outcome>>

Lost == [kind |-> "lost", from |-> None]

Init ==
  /\ claimed = {}
  /\ ran = {}
  /\ outcome = [r \in Requests |-> None]

Claim(r) ==
  /\ outcome[r] = None
  /\ claimed' = claimed \cup {r}
  /\ UNCHANGED <<ran, outcome>>

Run(r) ==
  /\ r \in claimed /\ r \notin ran
  /\ outcome[r] = None
  /\ ran' = ran \cup {r}
  /\ UNCHANGED <<claimed, outcome>>

End(r, kind, from) ==
  /\ outcome[r] = None
  /\ outcome' = [outcome EXCEPT ![r] = [kind |-> kind, from |-> from]]
  /\ UNCHANGED ran

\* The answer of the request's own run.
AnswerOwn(r) == r \in ran /\ End(r, "ran", r) /\ UNCHANGED claimed

\* The answer of another run of the key.
Replay(r) ==
  /\ r \notin claimed
  /\ \E s \in ran : End(r, "replayed", s)
  /\ UNCHANGED claimed

\* 409, because of another request that has taken the key.
Refuse(r) ==
  /\ r \notin claimed
  /\ claimed # {}
  /\ End(r, "refused", None)
  /\ UNCHANGED claimed

\* An error tells nothing of what was done; it may come with the claim.
Fail(r) == End(r, "failed", None) /\ claimed' \in {claimed, claimed \cup {r}}

\* The server goes away with the answers of some requests.
Lose ==
  /\ \E S \in SUBSET {r \in Requests : outcome[r] = None} :
       outcome' = [r \in Requests |-> IF r \in S THEN Lost ELSE outcome[r]]
  /\ UNCHANGED <<claimed, ran>>

Next ==
  \/ \E r \in Requests : \/ Claim(r) \/ Run(r) \/ AnswerOwn(r)
                         \/ Replay(r) \/ Refuse(r) \/ Fail(r)
  \/ Lose

Spec == Init /\ [][Next]_vars
=============================================================================
