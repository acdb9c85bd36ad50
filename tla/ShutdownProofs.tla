---------------------------- MODULE ShutdownProofs ----------------------------
(***************************************************************************)
(* What holds of the shutdown for any number of requests, signals and      *)
(* errors: the invariants of the run, by one inductive invariant, and the  *)
(* safety that ShutdownEnds rests on.                                      *)
(***************************************************************************)
EXTENDS Shutdown, TLAPS

\* Past its first step a close has stopped the server, and stopped it stays:
\* one close of the two is enough.
Stopped ==
  /\ \A c \in Closers :
       closer[c] \in {"draining", "disconnecting", "closed"} => ~listening
  /\ ~database => ~listening

\* Once one close has seen the requests off, the other one finds none either.
SeenOff ==
  /\ \A c \in Closers :
       Running /\ closer[c] \in {"disconnecting", "closed"} => InFlight = {}
  /\ Running /\ ~database => InFlight = {}

\* A request is cut by the end of the process alone, and that by force.
CutAtTheEnd == \A r \in Requests : req[r] = "cut" => ~Running /\ forced

\* A shutdown that goes on has its timer.
Timed == Running /\ shuttingDown => timer

IInv == TypeOK /\ Stopped /\ SeenOff /\ CutAtTheEnd /\ Timed

\* The end of the process cuts what is in flight and leaves the rest.
LEMMA EndCuts ==
  ASSUME TypeOK, CutAtTheEnd, Running,
         NEW how \in Exits, NEW force \in BOOLEAN, End(how, force),
         force \/ InFlight = {}
  PROVE  /\ req' \in [Requests -> {"outside", "inFlight", "answered", "cut"}]
         /\ exit' \in Exits /\ ~Running' /\ forced' \in BOOLEAN
         /\ CutAtTheEnd'
  BY NoneAssumption DEF TypeOK, CutAtTheEnd, Running, End, InFlight

\* What a close that begins, and one that goes on, does to the stages.
LEMMA ClosersMove ==
  ASSUME TypeOK
  PROVE  /\ \A S : BeginClosing(S) =>
              /\ closer' \in [Closers -> Stages]
              /\ \A d \in Closers : closer'[d] \in {closer[d], "closing"}
         /\ \A c \in Closers :
              \A step \in {"draining", "disconnecting", "closed", "rejected"} :
                Advance(c, step) =>
                  /\ closer' \in [Closers -> Stages]
                  /\ closer'[c] = step
                  /\ \A d \in Closers \ {c} : closer'[d] = closer[d]
  BY DEF TypeOK, Stages, BeginClosing, Advance

\* The process goes on, and so do its requests, server and database.
LEMMA QuietStep ==
  ASSUME IInv, TypeOK', Stays, UNCHANGED <<listening, database>>,
         \A c \in Closers : closer'[c] \in {closer[c], "closing", "rejected"},
         Timed'
  PROVE  IInv'
<1>1. Stopped'
  BY DEF IInv, Stopped
<1>2. Running' = Running /\ InFlight' = InFlight
  BY DEF Stays, Running, InFlight
<1>3. SeenOff'
  BY <1>2 DEF IInv, SeenOff
<1>4. CutAtTheEnd'
  BY <1>2 DEF IInv, CutAtTheEnd, Stays
<1> QED BY <1>1, <1>3, <1>4 DEF IInv

\* An orderly end finds no request in flight.
LEMMA EndStep ==
  ASSUME IInv, Running,
         NEW how \in Exits, NEW force \in BOOLEAN, End(how, force),
         force \/ \E c \in Closers : closer[c] = "closed",
         UNCHANGED <<installed, once, shuttingDown, closer, listening, database>>,
         timer' \in BOOLEAN, events' \in 0 .. MaxEvents
  PROVE  IInv'
<1>1. force \/ InFlight = {}
  BY DEF IInv, SeenOff
<1>2. /\ req' \in [Requests -> {"outside", "inFlight", "answered", "cut"}]
      /\ exit' \in Exits /\ ~Running' /\ forced' \in BOOLEAN
      /\ CutAtTheEnd'
  BY <1>1, EndCuts DEF IInv
<1>3. TypeOK'
  BY <1>2 DEF IInv, TypeOK
<1>4. Stopped'
  BY DEF IInv, Stopped
<1>5. SeenOff' /\ Timed'
  BY <1>2 DEF SeenOff, Timed
<1> QED BY <1>2, <1>3, <1>4, <1>5 DEF IInv

\* The events counted stay within their bound.
LEMMA Counting ==
  /\ 0 \in 0 .. MaxEvents
  /\ TypeOK /\ Happens => events' \in 0 .. MaxEvents
<1>1. events \in 0 .. MaxEvents /\ Happens => events' \in 0 .. MaxEvents
  BY MaxEventsAssumption DEF Happens
<1> QED BY <1>1, MaxEventsAssumption DEF TypeOK

\* Nothing has begun to end at first.
LEMMA InitInv == Init => IInv
<1> SUFFICES ASSUME Init PROVE IInv
  OBVIOUS
<1>1. TypeOK
  BY Counting DEF Init, TypeOK, Stages
<1>2. Stopped /\ SeenOff /\ CutAtTheEnd /\ Timed
  BY DEF Init, Stopped, SeenOff, CutAtTheEnd, Timed
<1> QED BY <1>1, <1>2 DEF IInv

\* No event, no step of a close and no request breaks the invariant.
LEMMA InductiveStep == IInv /\ [Next]_vars => IInv'
<1> SUFFICES ASSUME IInv, [Next]_vars PROVE IInv'
  OBVIOUS
<1>1. TypeOK
  BY DEF IInv
<1>2. CASE Install
  <2>1. TypeOK' /\ Timed'
    BY <1>1, <1>2 DEF Install, Stays, TypeOK, Handled, IInv, Timed, Running
  <2> QED BY <1>2, <2>1, QuietStep DEF Install
<1>3. ASSUME NEW r \in Requests, Arrive(r)
      PROVE  IInv'
  <2>1. TypeOK' /\ Timed' /\ Stopped' /\ CutAtTheEnd'
    BY <1>1, <1>3
    DEF Arrive, handlerVars, TypeOK, IInv, Timed, Stopped, CutAtTheEnd, Running
  <2>2. SeenOff'
    BY <1>1, <1>3 DEF Arrive, IInv, Stopped, SeenOff
  <2> QED BY <2>1, <2>2 DEF IInv
<1>4. ASSUME NEW r \in Requests, Respond(r)
      PROVE  IInv'
  <2>1. TypeOK' /\ Timed' /\ Stopped' /\ CutAtTheEnd'
    BY <1>1, <1>4
    DEF Respond, handlerVars, TypeOK, IInv, Timed, Stopped, CutAtTheEnd, Running
  <2>2. InFlight' \subseteq InFlight /\ Running
    BY <1>1, <1>4 DEF Respond, InFlight, TypeOK
  <2>3. SeenOff'
    BY <1>4, <2>2 DEF Respond, IInv, SeenOff
  <2> QED BY <2>1, <2>3 DEF IInv
<1>5. ASSUME Running, Happens, DefaultAction("signal") \/ DefaultAction("1")
      PROVE  IInv'
  <2>1. events' \in 0 .. MaxEvents /\ timer' \in BOOLEAN
    BY <1>1, <1>5, Counting DEF DefaultAction, handlerVars, TypeOK
  <2> QED BY <1>5, <2>1, EndStep DEF DefaultAction, handlerVars, Exits
<1>6. ASSUME Happens, NEW e, NEW S, Handle(e, S)
      PROVE  IInv'
  <2>1. \A d \in Closers : closer'[d] \in {closer[d], "closing"}
    BY <1>1, <1>6, ClosersMove DEF Handle
  <2>2. TypeOK'
    <3>1. /\ closer' \in [Closers -> Stages]
          /\ events' \in 0 .. MaxEvents
      BY <1>1, <1>6, ClosersMove, Counting DEF Handle
    <3>2. shuttingDown' \in BOOLEAN /\ timer' \in BOOLEAN /\ once' \subseteq Handled
      BY <1>1, <1>6 DEF Handle, BeginShutdown, TypeOK
    <3> QED BY <1>1, <1>6, <3>1, <3>2 DEF Handle, Stays, TypeOK
  <2>3. Timed'
    BY <1>6 DEF IInv, Timed, Handle, BeginShutdown, Stays, Running
  <2> QED BY <1>6, <2>1, <2>2, <2>3, QuietStep DEF Handle
<1>7. ASSUME NEW s \in Signals, SignalToNest(s)
      PROVE  IInv'
  <2>1. \A d \in Closers : closer'[d] \in {closer[d], "closing"}
    BY <1>1, <1>7, ClosersMove DEF SignalToNest
  <2>2. TypeOK'
    BY <1>1, <1>7, ClosersMove, Counting
    DEF SignalToNest, handlerVars, Stays, TypeOK
  <2>3. Timed'
    BY <1>7 DEF IInv, Timed, SignalToNest, handlerVars, Stays, Running
  <2> QED BY <1>7, <2>1, <2>2, <2>3, QuietStep DEF SignalToNest
<1>8. CASE Killer
  <2>1. events' \in 0 .. MaxEvents /\ timer' \in BOOLEAN
    BY <1>1, <1>8 DEF Killer, TypeOK
  <2> QED BY <1>8, <2>1, EndStep DEF Killer, Exits
<1>9. ASSUME NEW c \in Closers, StopListening(c)
      PROVE  IInv'
  <2>1. /\ closer'[c] = "draining"
        /\ \A d \in Closers \ {c} : closer'[d] = closer[d]
    BY <1>1, <1>9, ClosersMove DEF StopListening
  <2>2. TypeOK' /\ Timed' /\ CutAtTheEnd'
    BY <1>1, <1>9, ClosersMove
    DEF StopListening, Stays, handlerVars, TypeOK, IInv, Timed, CutAtTheEnd, Running
  <2>3. Stopped'
    BY <1>9 DEF StopListening, Stopped
  <2>4. SeenOff'
    BY <1>9, <2>1 DEF StopListening, IInv, SeenOff, Stays, Running, InFlight
  <2> QED BY <2>2, <2>3, <2>4 DEF IInv
<1>10. ASSUME NEW c \in Closers, Drained(c) \/ Disconnect(c)
       PROVE  IInv'
  <2>1. /\ closer'[c] \in {"disconnecting", "closed"}
        /\ \A d \in Closers \ {c} : closer'[d] = closer[d]
    BY <1>1, <1>10, ClosersMove DEF Drained, Disconnect
  <2>2. TypeOK' /\ Timed' /\ CutAtTheEnd'
    <3>1. closer' \in [Closers -> Stages]
      BY <1>1, <1>10, ClosersMove DEF Drained, Disconnect
    <3>2. database' \in BOOLEAN
      BY <1>1, <1>10 DEF Drained, Disconnect, TypeOK
    <3>3. UNCHANGED <<handlerVars, listening, req, exit, forced, events>>
      BY <1>10 DEF Drained, Disconnect, Stays
    <3>4. TypeOK'
      BY <1>1, <3>1, <3>2, <3>3 DEF TypeOK, handlerVars
    <3> QED BY <3>3, <3>4 DEF IInv, Timed, CutAtTheEnd, Running, handlerVars
  <2>3. ~listening /\ InFlight = {}
    BY <1>10 DEF Drained, Disconnect, IInv, Stopped, SeenOff
  <2>4. ~listening' /\ InFlight' = {}
    BY <1>10, <2>3 DEF Drained, Disconnect, Stays, InFlight
  <2>5. Stopped' /\ SeenOff'
    BY <2>4 DEF Stopped, SeenOff
  <2> QED BY <2>2, <2>5 DEF IInv
<1>11. ASSUME NEW c \in Closers, CloseRejects(c)
       PROVE  IInv'
  <2>1. \A d \in Closers : closer'[d] \in {closer[d], "rejected"}
    BY <1>1, <1>11, ClosersMove DEF CloseRejects
  <2>2. TypeOK' /\ Timed'
    BY <1>1, <1>11, ClosersMove
    DEF CloseRejects, Stays, handlerVars, TypeOK, IInv, Timed, Running
  <2> QED BY <1>11, <2>1, <2>2, QuietStep DEF CloseRejects
<1>12. CASE Finally
  <2>1. events' \in 0 .. MaxEvents /\ timer' \in BOOLEAN
    BY <1>1, <1>12 DEF Finally, TypeOK
  <2>2. closer["app"] = "rejected" \/ \E c \in Closers : closer[c] = "closed"
    BY <1>12 DEF Finally, Closers
  <2> QED BY <1>12, <2>1, <2>2, EndStep DEF Finally, Exits
<1>13. CASE NestEnds
  <2>1. events' \in 0 .. MaxEvents /\ timer' \in BOOLEAN
    BY <1>1, <1>13 DEF NestEnds, handlerVars, TypeOK
  <2>2. CASE closer["nest"] = "closed" /\ End("signal", FALSE)
    BY <1>13, <2>1, <2>2, EndStep DEF NestEnds, handlerVars, Exits, Closers
  <2>3. CASE closer["nest"] = "rejected" /\ End("1", TRUE)
    BY <1>13, <2>1, <2>3, EndStep DEF NestEnds, handlerVars, Exits
  <2> QED BY <1>13, <2>2, <2>3 DEF NestEnds
<1>14. CASE UNCHANGED vars
  BY <1>14 DEF vars, handlerVars, IInv, TypeOK, Stopped, SeenOff, CutAtTheEnd,
               Timed, Running, InFlight
<1>15. ASSUME NEW s \in Signals, SignalEarly(s) \/ SignalHandled(s)
       PROVE  IInv'
  BY <1>5, <1>6, <1>15 DEF SignalEarly, SignalHandled
<1>16. ASSUME NEW e \in Errors, ErrorHandled(e) \/ ErrorUnhandled(e)
       PROVE  IInv'
  BY <1>5, <1>6, <1>16 DEF ErrorHandled, ErrorUnhandled
<1>17. CASE RejectionAgain
  BY <1>6, <1>17 DEF RejectionAgain
<1> QED
  BY <1>2, <1>3, <1>4, <1>7, <1>8, <1>9, <1>10, <1>11, <1>12, <1>13, <1>14, <1>15,
     <1>16, <1>17
  DEF Next, Close

\* So it always holds.
LEMMA Invariance == Spec => []IInv
  BY InitInv, InductiveStep, PTL DEF Spec

\* Handlers, flag, timer and the stages of both closes keep their values.
THEOREM TypeCorrect == Spec => []TypeOK
<1>1. IInv => TypeOK
  BY DEF IInv
<1> QED BY <1>1, Invariance, PTL

\* However signals and errors come and however the two closes interleave, an
\* orderly end cuts no request.
THEOREM OrderlyEndsCutNobody == Spec => []CutOnlyByForce
<1>1. IInv => CutOnlyByForce
  BY DEF IInv, CutAtTheEnd, CutOnlyByForce
<1> QED BY <1>1, Invariance, PTL

\* Neither close takes the database away from a request that still works,
\* although each waits for the requests on its own.
THEOREM RequestsKeepTheirDatabase == Spec => []DatabaseOutlivesRequests
<1>1. IInv => DatabaseOutlivesRequests
  BY DEF IInv, SeenOff, DatabaseOutlivesRequests
<1> QED BY <1>1, Invariance, PTL

\* The safety under ShutdownEnds: no event, no second close and no failure of
\* a close stops the timer of a shutdown while the process runs.
THEOREM ShutdownsAreTimed == Spec => [](Running /\ shuttingDown => timer)
<1>1. IInv => (Running /\ shuttingDown => timer)
  BY DEF IInv, Timed
<1> QED BY <1>1, Invariance, PTL
=============================================================================
