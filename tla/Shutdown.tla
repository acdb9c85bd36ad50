------------------------------- MODULE Shutdown -------------------------------
(***************************************************************************)
(* bootstrap/shutdown.ts: the handlers of signals and of unhandled errors, *)
(* their common shutdown, its timer, and the requests in flight meanwhile. *)
(* app.enableShutdownHooks gives NestJS listeners of its own, which close  *)
(* the application a second time, beside the shutdown, and then raise the  *)
(* signal again.  NestJS and Node.js are modelled from how the code uses   *)
(* them: close stops listening, waits for the requests in flight and then  *)
(* closes the database; a handler installed with once is gone after one    *)
(* event; an event without a handler ends the process.                     *)
(***************************************************************************)
EXTENDS Integers

CONSTANTS
  Requests,   \* requests that may reach the server
  MaxEvents,  \* bound on signals and errors
  None

ASSUME MaxEventsAssumption == MaxEvents \in Nat

\* The process ends with a code or by the default action of a signal.
Exits == {"0", "1", "signal"}

ASSUME NoneAssumption == None \notin Exits

Signals == {"SIGINT", "SIGTERM", "SIGHUP"}
Errors  == {"unhandledRejection", "uncaughtException"}

\* The events installGracefulShutdown has a handler for.
Handled == {"SIGINT", "SIGTERM"} \cup Errors

\* Who calls close: the shutdown of the source, and the listeners of NestJS.
Closers == {"app", "nest"}

\* How far a close gets.
Stages == {"idle", "closing", "draining", "disconnecting", "closed", "rejected"}

VARIABLES
  installed,     \* installGracefulShutdown has run
  once,          \* events whose process.once handler is still there
  shuttingDown,  \* the flag of the source
  timer,         \* the timer is running
  closer,        \* how far each close is
  listening,     \* the server accepts connections
  database,      \* the database connections are open
  req,           \* where each request is
  exit,          \* how the process ended, None while it runs
  forced,        \* it was not an orderly end
  events         \* signals and errors so far

handlerVars == <<installed, once, shuttingDown, timer>>
vars == <<handlerVars, closer, listening, database, req, exit, forced, events>>

\* main.ts listens first and installs the handlers after that.
Init ==
  /\ installed = FALSE
  /\ once = {}
  /\ shuttingDown = FALSE
  /\ timer = FALSE
  /\ closer = [c \in Closers |-> "idle"]
  /\ listening = TRUE
  /\ database = TRUE
  /\ req = [r \in Requests |-> "outside"]
  /\ exit = None
  /\ forced = FALSE
  /\ events = 0

Running == exit = None

InFlight == {r \in Requests : req[r] = "inFlight"}

\* The process ends; requests in flight are cut.
End(how, force) ==
  /\ exit' = how
  /\ forced' = force
  /\ req' = [r \in Requests |-> IF r \in InFlight THEN "cut" ELSE req[r]]

Stays == UNCHANGED <<req, exit, forced>>

------------------------------------------------------------------------------

\* A faulty variant: a handler for every signal, those of NestJS included.
InstallAllSignals ==
  /\ Running /\ ~installed
  /\ installed' = TRUE
  /\ once' = Signals \cup Errors
  /\ UNCHANGED <<shuttingDown, timer, closer, listening, database, events>>
  /\ Stays

\* installGracefulShutdown, once the server listens.
Install ==
  /\ Running /\ ~installed
  /\ installed' = TRUE
  /\ once' = Handled
  /\ UNCHANGED <<shuttingDown, timer, closer, listening, database, events>>
  /\ Stays

Arrive(r) ==
  /\ Running /\ listening
  /\ req[r] = "outside"
  /\ req' = [req EXCEPT ![r] = "inFlight"]
  /\ UNCHANGED <<handlerVars, closer, listening, database, exit, forced, events>>

Respond(r) ==
  /\ Running
  /\ r \in InFlight
  /\ req' = [req EXCEPT ![r] = "answered"]
  /\ UNCHANGED <<handlerVars, closer, listening, database, exit, forced, events>>

------------------------------------------------------------------------------
(* The shutdown, and the events that begin it.                             *)

\* A faulty variant: no timer.
ShutdownUntimed ==
  IF shuttingDown
    THEN UNCHANGED <<shuttingDown, timer>>
    ELSE /\ shuttingDown' = TRUE
         /\ UNCHANGED timer

\* The flag, the timer, and app.close begins.
BeginShutdown ==
  IF shuttingDown
    THEN UNCHANGED <<shuttingDown, timer>>
    ELSE /\ shuttingDown' = TRUE
         /\ timer' = TRUE

\* A close that begins, out of those of some closers.
BeginClosing(S) ==
  closer' = [c \in Closers |-> IF c \in S /\ closer[c] = "idle" THEN "closing"
                                                               ELSE closer[c]]

Happens == events < MaxEvents /\ events' = events + 1

\* A handler of the source runs, and is gone.
Handle(event, alsoNest) ==
  /\ once' = once \ {event}
  /\ BeginShutdown
  /\ BeginClosing({"app"} \cup alsoNest)
  /\ UNCHANGED <<installed, listening, database>>
  /\ Stays

\* Nobody handles the event: Node.js ends the process.
DefaultAction(how) ==
  /\ End(how, TRUE)
  /\ UNCHANGED <<handlerVars, closer, listening, database>>

SignalEarly(s) ==
  /\ Running /\ Happens
  /\ ~installed
  /\ DefaultAction("signal")

SignalHandled(s) ==
  /\ Running /\ Happens
  /\ s \in once
  /\ Handle(s, {"nest"})

\* A signal again, or one only NestJS listens to.
SignalToNest(s) ==
  /\ Running /\ Happens
  /\ installed /\ s \notin once
  /\ BeginClosing({"nest"})
  /\ UNCHANGED <<handlerVars, listening, database>>
  /\ Stays

ErrorHandled(e) ==
  /\ Running /\ Happens
  /\ e \in once
  /\ Handle(e, {})

\* A rejection without a handler is an uncaught exception.
RejectionAgain ==
  /\ Running /\ Happens
  /\ "unhandledRejection" \notin once /\ "uncaughtException" \in once
  /\ Handle("uncaughtException", {})

ErrorUnhandled(e) ==
  /\ Running /\ Happens
  /\ once \cap {e, "uncaughtException"} = {}
  /\ DefaultAction("1")

\* process.exit(1) ten seconds after the shutdown began.
Killer ==
  /\ Running
  /\ timer
  /\ End("1", TRUE)
  /\ timer' = FALSE
  /\ UNCHANGED <<installed, once, shuttingDown, closer, listening,
                 database, events>>

------------------------------------------------------------------------------
(* close, by either closer.                                                *)

Advance(c, step) == closer' = [closer EXCEPT ![c] = step]

\* A faulty variant: the server goes on listening.
StopLate(c) ==
  /\ Running
  /\ closer[c] = "closing"
  /\ Advance(c, "draining")
  /\ UNCHANGED <<handlerVars, listening, database, events>>
  /\ Stays

StopListening(c) ==
  /\ Running
  /\ closer[c] = "closing"
  /\ listening' = FALSE
  /\ Advance(c, "draining")
  /\ UNCHANGED <<handlerVars, database, events>>
  /\ Stays

\* A faulty variant: nobody waits for the requests in flight.
DrainedAtOnce(c) ==
  /\ Running
  /\ closer[c] = "draining"
  /\ Advance(c, "disconnecting")
  /\ UNCHANGED <<handlerVars, listening, database, events>>
  /\ Stays

Drained(c) ==
  /\ Running
  /\ closer[c] = "draining"
  /\ InFlight = {}
  /\ Advance(c, "disconnecting")
  /\ UNCHANGED <<handlerVars, listening, database, events>>
  /\ Stays

Disconnect(c) ==
  /\ Running
  /\ closer[c] = "disconnecting"
  /\ database' = FALSE
  /\ Advance(c, "closed")
  /\ UNCHANGED <<handlerVars, listening, events>>
  /\ Stays

CloseRejects(c) ==
  /\ Running
  /\ closer[c] \in {"closing", "draining", "disconnecting"}
  /\ Advance(c, "rejected")
  /\ UNCHANGED <<handlerVars, listening, database, events>>
  /\ Stays

\* finally: the timer is cleared and the process ends with 0, whether close
\* succeeded or not.
Finally ==
  /\ Running
  /\ closer["app"] \in {"closed", "rejected"}
  /\ timer' = FALSE
  /\ End("0", closer["app"] = "rejected")
  /\ UNCHANGED <<installed, once, shuttingDown, closer, listening,
                 database, events>>

\* NestJS removes its listeners and raises the signal again, or gives up.
NestEnds ==
  /\ Running
  /\ \/ closer["nest"] = "closed" /\ End("signal", FALSE)
     \/ closer["nest"] = "rejected" /\ End("1", TRUE)
  /\ UNCHANGED <<handlerVars, closer, listening, database, events>>

Close(c) == StopListening(c) \/ Drained(c) \/ Disconnect(c) \/ CloseRejects(c)

Next ==
  \/ Install
  \/ \E r \in Requests : Arrive(r) \/ Respond(r)
  \/ \E s \in Signals : SignalEarly(s) \/ SignalHandled(s) \/ SignalToNest(s)
  \/ \E e \in Errors : ErrorHandled(e) \/ ErrorUnhandled(e)
  \/ RejectionAgain
  \/ Killer
  \/ \E c \in Closers : Close(c)
  \/ Finally
  \/ NestEnds

Spec == Init /\ [][Next]_vars

\* The timer fires.  Nothing is assumed of requests, which may hang, nor of
\* close.
FairSpec == Spec /\ WF_vars(Killer)

------------------------------------------------------------------------------

TypeOK ==
  /\ installed \in BOOLEAN /\ shuttingDown \in BOOLEAN /\ timer \in BOOLEAN
  /\ once \subseteq Handled
  /\ closer \in [Closers -> Stages]
  /\ listening \in BOOLEAN /\ database \in BOOLEAN
  /\ req \in [Requests -> {"outside", "inFlight", "answered", "cut"}]
  /\ exit \in Exits \cup {None}
  /\ forced \in BOOLEAN
  /\ events \in 0 .. MaxEvents

\* However signals and errors come, and although two closes run side by side,
\* a request is cut only by force: the timer, a close that failed, an error
\* nobody handles any more, or a signal before the handlers were installed.
CutOnlyByForce == (\E r \in Requests : req[r] = "cut") => forced

\* No request works on while one of the closes has taken its database away.
DatabaseOutlivesRequests == Running /\ ~database => InFlight = {}

\* Once begun, the shutdown ends the process, even if a request or the close
\* never ends.
ShutdownEnds == shuttingDown ~> ~Running
=============================================================================
