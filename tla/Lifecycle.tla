------------------------------ MODULE Lifecycle ------------------------------
(***************************************************************************)
(* The life of the process: the HTTP server (godaddy/server.mjs) and the   *)
(* application it owns (godaddy/application-runtime.ts).  The listener is  *)
(* live before the application starts; a signal stops new connections,     *)
(* drains the handlers a while, destroys the sockets that are left, and    *)
(* then stops consultation, providers and the database pool in this order, *)
(* each before one common deadline; a timer ends the process if all of     *)
(* that takes too long.  The server's close event stops the application    *)
(* too, as a failed bind does.                                             *)
(*                                                                         *)
(* Time counts from the signal, in units of the program's bounds.  A timer *)
(* fires before time goes on; everything else may take any time, or hang.  *)
(* What the handlers and the startup do is in the other modules.           *)
(***************************************************************************)
EXTENDS Naturals

CONSTANTS
  Requests,        \* requests that may arrive
  Drain,           \* httpDrainTimeoutMs
  Grace,           \* forceCloseGraceMs
  StopBound,       \* shutdownTimeoutMs of the application
  HardExit         \* the timer armed by the signal

ASSUME LifecycleAssumption ==
  /\ {Drain, Grace, StopBound, HardExit} \subseteq Nat \ {0}
  /\ Drain + Grace + StopBound < HardExit

VARIABLES
  server,          \* "binding", "listening", "closing", "closed" or "failed"
  sockets,         \* "kept", or "destroyed" by closeAllConnections
  handler,         \* the handler of each request; "late" if begun after the signal
  waiter,          \* the drain's waitForIdle: "none", "waiting", or "idle" once resolved
  onClose,         \* the listener of the close event: "armed", "waiting" or "fired"
  start,           \* the progress of start()
  service,         \* the consultation service; "late" if made after stop() had begun
  providers,       \* "open" or "closed"
  pool,            \* "open" or "ended"
  stop,            \* the progress of stop(), and its deadline
  shutdown,        \* the progress of shutdownGodaddyServer
  time,            \* since the signal
  exited           \* "no", "clean", "hard" or "unbound"

vars == <<server, sockets, handler, waiter, onClose, start, service, providers, pool, stop,
          shutdown, time, exited>>

http == <<server, sockets, handler, waiter>>
app == <<start, service, providers, pool>>

Init ==
  /\ server = "binding"
  /\ sockets = "kept"
  /\ handler = [r \in Requests |-> "none"]
  /\ waiter = "none"
  /\ onClose = "armed"
  /\ start = "idle"
  /\ service = "none"
  /\ providers = "open"
  /\ pool = "open"
  /\ stop = [at |-> "idle", deadline |-> 0]
  /\ shutdown = "idle"
  /\ time = 0
  /\ exited = "no"

-----------------------------------------------------------------------------
\* activeRequests = 0: no handler is between its begin() and its end().
IsBusy(r) == handler[r] \in {"running", "late"}
IsIdle == \A r \in Requests : ~IsBusy(r)

IsSignalled == shutdown # "idle"

\* stop(): begun once, its deadline set for all it does.
BeginsStop ==
  stop' = IF stop.at = "idle" THEN [at |-> "consultation", deadline |-> time + StopBound] ELSE stop

-----------------------------------------------------------------------------
\* The port is bound, and start() called without waiting for it.
Listens ==
  /\ server = "binding"
  /\ server' = "listening"
  /\ start' = "importing"
  /\ UNCHANGED <<sockets, handler, waiter, onClose, service, providers, pool, stop, shutdown, time, exited>>

\* The bind fails: what was constructed is stopped.
BindFails ==
  /\ server = "binding"
  /\ server' = "failed"
  /\ BeginsStop
  /\ UNCHANGED <<sockets, handler, waiter, onClose, app, shutdown, time, exited>>

\* ... and the error is thrown on, whatever stop() came to.
BindErrorThrown ==
  /\ server = "failed" /\ stop.at \in {"stopped", "failed"} /\ exited = "no"
  /\ exited' = "unbound"
  /\ UNCHANGED <<http, onClose, app, stop, shutdown, time>>

\* A handler begins.  A connection accepted before the signal may still bring one
\* after it.
RequestArrives(r) ==
  /\ handler[r] = "none"
  /\ \/ server = "listening" /\ handler' = [handler EXCEPT ![r] = "running"]
     \/ server = "closing" /\ sockets = "kept" /\ handler' = [handler EXCEPT ![r] = "late"]
  /\ UNCHANGED <<server, sockets, waiter, onClose, app, stop, shutdown, time, exited>>

\* Answered, refused or failed; a destroyed socket does not end its handler.  The
\* last one to end resolves the waiter, for good.
RequestEnds(r) ==
  /\ IsBusy(r)
  /\ handler' = [handler EXCEPT ![r] = "done"]
  /\ waiter' = IF waiter = "waiting" /\ \A q \in Requests \ {r} : ~IsBusy(q) THEN "idle" ELSE waiter
  /\ UNCHANGED <<server, sockets, onClose, app, stop, shutdown, time, exited>>

-----------------------------------------------------------------------------
StartFails ==
  /\ start \in {"importing", "initializing", "recovering"}
  /\ start' = "failed"
  /\ UNCHANGED <<http, onClose, service, providers, pool, stop, shutdown, time, exited>>

KeyImported ==
  /\ start = "importing"
  /\ start' = "initializing"
  /\ UNCHANGED <<http, onClose, service, providers, pool, stop, shutdown, time, exited>>

\* The instructions are there: the service is made, and its recovery begins.
\* Nothing asks whether stop() was called meanwhile.
ServiceMade ==
  /\ start = "initializing" /\ pool = "open"
  /\ start' = "recovering"
  /\ service' = IF stop.at = "idle" THEN "open" ELSE "late"
  /\ UNCHANGED <<http, onClose, providers, pool, stop, shutdown, time, exited>>

Recovered ==
  /\ start = "recovering" /\ pool = "open"
  /\ start' = "started"
  /\ UNCHANGED <<http, onClose, service, providers, pool, stop, shutdown, time, exited>>

-----------------------------------------------------------------------------
\* SIGTERM or SIGINT, once: the hard exit is armed, the server closed, and the
\* drain asks whether the handlers are idle, now and not again.
Signal ==
  /\ server = "listening" /\ shutdown = "idle"
  /\ shutdown' = "draining"
  /\ server' = "closing"
  /\ waiter' = IF IsIdle THEN "idle" ELSE "waiting"
  /\ UNCHANGED <<sockets, handler, onClose, app, stop, time, exited>>

\* The last connection ends, answered, destroyed or hung up by its client: the close
\* event.
ServerCloses ==
  /\ server = "closing"
  /\ server' = "closed"
  /\ onClose' = "waiting"
  /\ UNCHANGED <<sockets, handler, waiter, app, stop, shutdown, time, exited>>

\* Mutant: the close event stops the application under its last handlers.
CloseListenerStops_AtOnce ==
  /\ onClose = "waiting"
  /\ onClose' = "fired"
  /\ BeginsStop
  /\ UNCHANGED <<http, app, shutdown, time, exited>>

\* The listener asks at the close event, after which no handler begins.
CloseListenerStops ==
  /\ onClose = "waiting" /\ IsIdle
  /\ onClose' = "fired"
  /\ BeginsStop
  /\ UNCHANGED <<http, app, shutdown, time, exited>>

\* Mutant: the drain waits for the sockets only.
Drained_OnlySockets ==
  /\ shutdown \in {"draining", "forcing"} /\ server = "closed"
  /\ shutdown' = "stopping"
  /\ BeginsStop
  /\ UNCHANGED <<http, onClose, app, time, exited>>

\* drainOperation: the sockets are gone, the waiter was resolved, and stop() is called.
Drained ==
  /\ shutdown \in {"draining", "forcing"} /\ server = "closed" /\ waiter = "idle"
  /\ shutdown' = "stopping"
  /\ BeginsStop
  /\ UNCHANGED <<http, onClose, app, time, exited>>

DrainTimesOut ==
  /\ shutdown = "draining" /\ time >= Drain
  /\ shutdown' = "forcing"
  /\ sockets' = "destroyed"
  /\ UNCHANGED <<server, handler, waiter, onClose, app, stop, time, exited>>

\* A handler is still running: the application is not stopped.
GraceTimesOut ==
  /\ shutdown = "forcing" /\ time >= Drain + Grace
  /\ shutdown' = "failed"
  /\ UNCHANGED <<http, onClose, app, stop, time, exited>>

-----------------------------------------------------------------------------
StopsAt(stage) == stop.at = stage /\ time < stop.deadline

\* Mutant: each operation has the whole bound.
ConsultationCloses_OwnDeadline ==
  /\ StopsAt("consultation")
  /\ stop' = [at |-> "providers", deadline |-> time + StopBound]
  /\ service' = IF service = "open" THEN "closed" ELSE service
  /\ UNCHANGED <<http, onClose, start, providers, pool, shutdown, time, exited>>

\* The service that exists is closed; one that is still to be made is not waited for.
ConsultationCloses ==
  /\ StopsAt("consultation")
  /\ stop' = [stop EXCEPT !.at = "providers"]
  /\ service' = IF service = "open" THEN "closed" ELSE service
  /\ UNCHANGED <<http, onClose, start, providers, pool, shutdown, time, exited>>

\* settings.close(): the running operations, the mutation in progress, the app-server.
ProvidersClose ==
  /\ StopsAt("providers")
  /\ stop' = [stop EXCEPT !.at = "database"]
  /\ providers' = "closed"
  /\ UNCHANGED <<http, onClose, start, service, pool, shutdown, time, exited>>

PoolEnds ==
  /\ StopsAt("database")
  /\ stop' = [stop EXCEPT !.at = "stopped"]
  /\ pool' = "ended"
  /\ UNCHANGED <<http, onClose, start, service, providers, shutdown, time, exited>>

\* Mutant: the deadline of one operation does not keep the next from its turn.
StopFails_GoesOn ==
  /\ stop.at \in {"consultation", "providers", "database"}
  /\ stop' = [stop EXCEPT !.at = CASE @ = "consultation" -> "providers"
                                   [] @ = "providers" -> "database"
                                   [] OTHER -> "stopped"]
  /\ pool' = IF stop.at = "database" THEN "ended" ELSE pool
  /\ UNCHANGED <<http, onClose, start, service, providers, shutdown, time, exited>>

\* completeBeforeDeadline: an operation rejects, or the deadline passes.  What comes
\* after it is left open.
StopFails ==
  /\ stop.at \in {"consultation", "providers", "database"}
  /\ stop' = [stop EXCEPT !.at = "failed"]
  /\ UNCHANGED <<http, onClose, app, shutdown, time, exited>>

\* shutdownGodaddyServer returns: the hard exit is disarmed; or it throws.
ShutdownEnds ==
  /\ shutdown = "stopping" /\ stop.at \in {"stopped", "failed"}
  /\ shutdown' = IF stop.at = "stopped" THEN "clean" ELSE "failed"
  /\ UNCHANGED <<http, onClose, app, stop, time, exited>>

\* With nothing left open the process ends by itself.
CleanExit ==
  /\ shutdown = "clean" /\ exited = "no"
  /\ exited' = "clean"
  /\ UNCHANGED <<http, onClose, app, stop, shutdown, time>>

\* Mutant: the timer is cleared also when the teardown has failed.
HardExits_NotOnFailure ==
  /\ IsSignalled /\ shutdown \notin {"clean", "failed"} /\ time >= HardExit /\ exited = "no"
  /\ exited' = "hard"
  /\ UNCHANGED <<http, onClose, app, stop, shutdown, time>>

HardExits ==
  /\ IsSignalled /\ shutdown # "clean" /\ time >= HardExit /\ exited = "no"
  /\ exited' = "hard"
  /\ UNCHANGED <<http, onClose, app, stop, shutdown, time>>

\* A timer that is due.
IsDue ==
  \/ shutdown = "draining" /\ time >= Drain
  \/ shutdown = "forcing" /\ time >= Drain + Grace
  \/ stop.at \in {"consultation", "providers", "database"} /\ time >= stop.deadline
  \/ shutdown = "stopping" /\ stop.at \in {"stopped", "failed"}

Tick ==
  /\ IsSignalled /\ ~IsDue /\ time < HardExit
  /\ time' = time + 1
  /\ UNCHANGED <<http, onClose, app, stop, shutdown, exited>>

-----------------------------------------------------------------------------
Works ==
  \/ Listens \/ BindFails \/ BindErrorThrown
  \/ \E r \in Requests : RequestArrives(r) \/ RequestEnds(r)
  \/ StartFails \/ KeyImported \/ ServiceMade \/ Recovered
  \/ Signal \/ ServerCloses \/ CloseListenerStops \/ Drained \/ DrainTimesOut \/ GraceTimesOut
  \/ ConsultationCloses \/ ProvidersClose \/ PoolEnds \/ StopFails
  \/ ShutdownEnds \/ CleanExit \/ HardExits \/ Tick

\* Nothing happens in a process that has ended.
Next == exited = "no" /\ Works

Spec == Init /\ [][Next]_vars

\* Timers fire and time goes on; nothing else is certain to end.
FairSpec ==
  /\ Spec
  /\ WF_vars(exited = "no" /\ (DrainTimesOut \/ GraceTimesOut \/ ShutdownEnds))
  /\ WF_vars(exited = "no" /\ StopFails /\ time >= stop.deadline)
  /\ WF_vars(exited = "no" /\ (CleanExit \/ HardExits))
  /\ WF_vars(exited = "no" /\ Tick)

-----------------------------------------------------------------------------
\* Consultation, providers and pool are not torn down under a request that was being
\* handled when the signal came: not by the shutdown, not by the close event of a
\* socket that was destroyed or hung up under its handler, not when the drain has
\* failed.  And whatever fails or times out on the way, the pool does not end before
\* the providers, nor the providers close before the service they work for.
TeardownInOrder ==
  /\ stop.at # "idle" => \A r \in Requests : handler[r] # "running"
  /\ pool = "ended" => providers = "closed"
  /\ providers = "closed" => service # "open"

\* What the comments promise of every handler, the late ones included: nothing is torn
\* down under it.
NoHandlerIsCut == stop.at # "idle" => IsIdle

\* The hard exit is not armed any more only when everything is closed, and it never
\* cuts a shutdown that is within its bounds: together they fit into its time.
HardExitIsTheLastResort ==
  /\ shutdown = "clean" => pool = "ended" /\ providers = "closed" /\ server = "closed"
  /\ exited = "hard" => shutdown = "failed"

\* A process that is told to end does, whatever hangs.
SignalEndsProcess == IsSignalled ~> exited # "no"

\* The pool is ended when nothing uses it any more, the startup included.
PoolEndsLast == pool = "ended" => service # "late" /\ start \notin {"initializing", "recovering"}
=============================================================================
