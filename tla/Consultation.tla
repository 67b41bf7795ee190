---------------------------- MODULE Consultation ----------------------------
(***************************************************************************)
(* The browser consultation service                                        *)
(* (src/godaddy/browser-consultation-service.ts) and the leadership lock   *)
(* (src/godaddy/consultation-leadership.ts), over the Registrar: how a     *)
(* request is admitted, executed, stopped, and recovered after a restart.  *)
(*                                                                         *)
(* The service runs in one process.  Each call in progress is a flow, and  *)
(* each await of the code ends a step of its flow, so that the steps of    *)
(* submissions, executions, stops and the recovery at start-up interleave. *)
(* Flows keep the copy of the request's record their code holds in a local *)
(* variable, which may be stale when it is written back.  The process may  *)
(* die between any two steps; what is left then is the database.           *)
(*                                                                         *)
(* Abstracted: intake, the consilium and the archive are calls that take   *)
(* any time and succeed or fail; a successful consultation publishes one   *)
(* answer, whose event id is made of the request and of what it says.      *)
(* Records keep status and generation.  The latest-request row is written  *)
(* with every record and read only to display it.  At most MaxFaults calls *)
(* reject: the code's catch blocks are the Fault actions.                  *)
(***************************************************************************)
EXTENDS Registrar, FiniteSets

CONSTANTS
  Bodies,          \* what an answer may say
  Handlers,        \* HTTP handlers, each serving one call at a time
  Stoppable,       \* requests whose owner may press Stop
  Retried,         \* requests that may be sent again while the service has not
                   \* answered their first submission
  Early,           \* requests that may be submitted while the service recovers
  Rejecting,       \* whose database and intake calls may reject
  MaxFaults,       \* bound on the calls that reject
  MaxRestarts      \* bound on the times the process is started again

ASSUME AnswerAssumption == SessionIds \X Bodies \subseteq Events
ASSUME StopAssumption == Stoppable \subseteq SessionIds

ASSUME RetryAssumption == Retried \subseteq SessionIds
ASSUME EarlyAssumption == Early \subseteq SessionIds

ASSUME FaultAssumption ==
  MaxFaults \in Nat /\ MaxRestarts \in Nat /\ Rejecting \subseteq {"submit", "run", "stop"}

VARIABLES
  request,         \* request records, by request id
  activeRequest,   \* the "active" row: a request id or None
  running,         \* the running map: the execution last begun, by request id
  flow,            \* calls in progress, by handler, execution or recovery
  locked,          \* this process holds a connection that owns the lock
  admitting,       \* the admission flag
  closing,         \* the service is being closed
  up,              \* the process is running
  restarts,        \* how often it was started again
  faults           \* how many calls rejected

durableVars == <<request, activeRequest>>
processVars == <<running, locked, admitting, closing, up, restarts, faults>>
serviceVars == <<durableVars, processVars, flow>>
allVars == <<vars, serviceVars>>

\* A request's session id is made of its id.
Requests == SessionIds

\* The event id of an answer to request r.
Answer(r, body) == <<r, body>>
Statuses == {"preparing", "planning", "running", "completed", "failed", "stopped"}
Finished(status) == status \in {"completed", "failed", "stopped"}

Run(g) == <<"run", g>>
Recovery == <<"recovery">>
NewRecord == [status |-> "preparing", generation |-> 0]

\* A call in progress.  released: the execution has already given back the lock.
NewFlow(r, record, step) ==
  [request |-> r, record |-> record, step |-> step, aborted |-> FALSE, released |-> FALSE]

\* The HTTP listener is live before the service has recovered.
Starting == Put(NoRows, Recovery, NewFlow(None, NewRecord, "read"))

ServiceInit ==
  /\ Init
  /\ request = NoRows
  /\ activeRequest = None
  /\ running = NoRows
  /\ flow = Starting
  /\ locked = FALSE
  /\ admitting = FALSE
  /\ closing = FALSE
  /\ up = TRUE
  /\ restarts = 0
  /\ faults = 0

-----------------------------------------------------------------------------
\* Flow f is about to take the named step.
At(f, step) == f \in DOMAIN flow /\ flow[f].step = step

Goto(f, step) == flow' = [flow EXCEPT ![f].step = step]
GotoHolding(f, step, record) == flow' = [flow EXCEPT ![f].step = step, ![f].record = record]
Without(rows, key) == [k \in DOMAIN rows \ {key} |-> rows[k]]
End(f) == flow' = Without(flow, f)

\* save: one transaction writes the record, and whether it is the active one.
Save(r, record) ==
  /\ request' = Put(request, r, record)
  /\ activeRequest' = IF Finished(record.status) THEN None ELSE r

\* update of the record the flow holds.
Update(f, status) == Save(flow[f].request, [flow[f].record EXCEPT !.status = status])

Abort(executions) ==
  [f \in DOMAIN flow |-> IF f \in executions THEN [flow[f] EXCEPT !.aborted = TRUE]
                         ELSE flow[f]]

-----------------------------------------------------------------------------
\* submit: the request id is new.  (A known one is answered with its record.)
SubmitArrives(h, r) ==
  /\ up /\ ~closing
  /\ h \notin DOMAIN flow
  /\ r \notin DOMAIN request
  /\ r \in Early \/ Recovery \notin DOMAIN flow
  /\ r \in Retried \/ \A f \in DOMAIN flow : flow[f].request # r
  /\ flow' = Put(flow, h, NewFlow(r, NewRecord, "admit"))
  /\ UNCHANGED <<vars, durableVars, processVars>>

SubmitAdmits(h) ==
  /\ At(h, "admit")
  /\ \/ admitting /\ End(h) /\ UNCHANGED admitting
     \/ ~admitting /\ admitting' = TRUE /\ Goto(h, "check")
  /\ UNCHANGED <<vars, durableVars, running, locked, closing, up, restarts, faults>>

IsBusy == activeRequest # None /\ ~Finished(request[activeRequest].status)

SubmitChecks(h) ==
  /\ At(h, "check")
  /\ \/ IsBusy /\ End(h) /\ admitting' = FALSE
     \/ ~IsBusy /\ Goto(h, "lead") /\ UNCHANGED admitting
  /\ UNCHANGED <<vars, durableVars, running, locked, closing, up, restarts, faults>>

\* leadership.acquire: take the lock, or find it taken by this very process.  It
\* is refused while another connection has it, one being released included.
SubmitLeads(h) ==
  /\ At(h, "lead")
  /\ \/ locked' = TRUE /\ Goto(h, "save") /\ UNCHANGED admitting
     \/ admitting' = FALSE /\ End(h) /\ UNCHANGED locked
  /\ UNCHANGED <<vars, durableVars, running, closing, up, restarts, faults>>

SubmitSaves(h) ==
  /\ At(h, "save")
  /\ Update(h, "preparing")
  /\ Goto(h, "prepare")
  /\ UNCHANGED <<vars, processVars>>

\* Mutant: a rejected request keeps the lock.
Reject_KeepsLock(h) ==
  /\ Update(h, "failed")
  /\ admitting' = FALSE
  /\ End(h)
  /\ UNCHANGED <<running, locked, closing, up, restarts, faults>>

\* The request fails before it has a session.
Reject(h) ==
  /\ Update(h, "failed")
  /\ locked' = FALSE
  /\ admitting' = FALSE
  /\ End(h)
  /\ UNCHANGED <<running, closing, up, restarts, faults>>

\* prepareSnapshot pins settings and instructions, or cannot.
SubmitPrepares(h) ==
  /\ At(h, "prepare")
  /\ \/ Goto(h, "start") /\ UNCHANGED <<durableVars, processVars>>
     \/ Reject(h)
  /\ UNCHANGED vars

\* registrar.startSession: a new session, the one this request already has, or
\* a refusal because of another one.
SubmitStarts(h) ==
  LET r == flow[h].request
      isActive == active # None /\ active.phase = "active"
      bound(g) == [flow[h].record EXCEPT !.generation = g]
  IN  /\ At(h, "start")
      /\ \/ /\ \E p \in Providers : StartSession(r, p)
            /\ GotoHolding(h, "bind", bound(generation + 1))
            /\ UNCHANGED <<durableVars, processVars>>
         \/ /\ isActive /\ active.sessionId = r
            /\ GotoHolding(h, "bind", bound(active.generation))
            /\ UNCHANGED <<vars, durableVars, processVars>>
         \/ /\ isActive /\ active.sessionId # r
            /\ Reject(h)
            /\ UNCHANGED vars

\* The record gets its generation, ...
SubmitBinds(h) ==
  /\ At(h, "bind")
  /\ Update(h, "preparing")
  /\ Goto(h, "launch")
  /\ UNCHANGED <<vars, processVars>>

\* ... and its execution begins.  A bound that is not in the code: a retry does not begin
\* a second execution of a generation beside the first, of which flow would need two.
SubmitLaunches(h) ==
  LET r == flow[h].request
      g == flow[h].record.generation
  IN  /\ At(h, "launch")
      /\ Run(g) \notin DOMAIN flow
      /\ running' = Put(running, r, g)
      /\ admitting' = FALSE
      /\ flow' = Put(Without(flow, h), Run(g), NewFlow(r, flow[h].record, "begin"))
      /\ UNCHANGED <<vars, durableVars, locked, closing, up, restarts, faults>>

\* A call rejects during admission.  The record has no generation for the catch
\* block yet: it is left as it is, and the lock is released whoever uses it.
SubmitFaults(h) ==
  /\ \E step \in {"check", "lead", "save", "prepare", "start", "bind"} : At(h, step)
  /\ "submit" \in Rejecting /\ faults < MaxFaults
  /\ faults' = faults + 1
  /\ locked' = FALSE
  /\ admitting' = FALSE
  /\ End(h)
  /\ UNCHANGED <<vars, durableVars, running, closing, up, restarts>>

-----------------------------------------------------------------------------
\* Mutant: the execution keeps the lock.
GivesBack_KeepsLock(g) ==
  /\ running' = Without(running, flow[Run(g)].request)
  /\ UNCHANGED locked

\* The finally block of execute.
GivesBack(g) ==
  /\ running' = Without(running, flow[Run(g)].request)
  /\ locked' = FALSE

\* execute returns fail(...) and does not wait for it: the finally block runs first,
\* while fail reads the record.
ReturnsFail(g) ==
  /\ GivesBack(g)
  /\ flow' = [flow EXCEPT ![Run(g)].step = "fail", ![Run(g)].released = TRUE]

RunBegins(g) ==
  /\ At(Run(g), "begin")
  /\ Update(Run(g), "planning")
  /\ GotoHolding(Run(g), "plan", [flow[Run(g)].record EXCEPT !.status = "planning"])
  /\ UNCHANGED <<vars, processVars>>

\* executor.plan: nothing usable, an answer (or a question) of the head alone,
\* or a consilium.
RunPlans(g) ==
  /\ At(Run(g), "plan")
  /\ \/ ReturnsFail(g)
     \/ /\ ~flow[Run(g)].aborted
        /\ Goto(Run(g), "publish") \/ Goto(Run(g), "enlist")
        /\ UNCHANGED <<running, locked>>
  /\ UNCHANGED <<vars, durableVars, admitting, closing, up, restarts, faults>>

RunEnlists(g) ==
  /\ At(Run(g), "enlist")
  /\ Update(Run(g), "running")
  /\ GotoHolding(Run(g), "publish", [flow[Run(g)].record EXCEPT !.status = "running"])
  /\ UNCHANGED <<vars, processVars>>

\* The answer is appended, found already appended to this generation, or
\* refused; a consilium may end without one.
RunPublishes(g) ==
  /\ At(Run(g), "publish")
  /\ \E body \in Bodies :
       LET e == Answer(flow[Run(g)].request, body)
           refused == IF e \in DOMAIN event THEN event[e].message.generation # g
                      ELSE ~IsCurrent(g, {"active"})
       IN  \/ /\ AppendMessage(g, e, None)
              /\ Goto(Run(g), "close")
              /\ UNCHANGED <<generation, revision, criticVars, task, running, locked>>
           \/ /\ e \in DOMAIN event /\ ~refused
              /\ Goto(Run(g), "close")
              /\ UNCHANGED <<vars, running, locked>>
           \/ /\ refused \/ flow[Run(g)].record.status = "running"
              /\ ReturnsFail(g)
              /\ UNCHANGED vars
  /\ UNCHANGED <<durableVars, admitting, closing, up, restarts, faults>>

\* Mutant: a refused close counts as success.
RunCloses_IgnoresRefusal(g) ==
  /\ At(Run(g), "close")
  /\ \/ CloseSession(g) /\ Goto(Run(g), "complete")
     \/ UNCHANGED vars /\ Goto(Run(g), "complete")
  /\ UNCHANGED <<durableVars, processVars>>

\* The archive is committed, then the session is closed; either may be refused.
RunCloses(g) ==
  /\ At(Run(g), "close")
  /\ \/ CloseSession(g) /\ Goto(Run(g), "complete") /\ UNCHANGED <<running, locked>>
     \/ ReturnsFail(g) /\ UNCHANGED vars
  /\ UNCHANGED <<durableVars, admitting, closing, up, restarts, faults>>

RunCompletes(g) ==
  /\ At(Run(g), "complete")
  /\ IF flow[Run(g)].aborted /\ flow[Run(g)].record.status = "running"
     THEN ReturnsFail(g) /\ UNCHANGED durableVars
     ELSE Update(Run(g), "completed") /\ Goto(Run(g), "finish") /\ UNCHANGED <<running, locked>>
  /\ UNCHANGED <<vars, admitting, closing, up, restarts, faults>>

\* A call of the execution rejects: the catch block awaits fail, so that it still has
\* the lock.  Or one of fail itself: the fence and the archive are attempted only.
RunFaults(g) ==
  LET f == Run(g)
      executing == \E step \in {"begin", "plan", "enlist", "publish", "close", "complete"} :
                     At(f, step)
  IN  /\ executing \/ At(f, "fence")
      /\ "run" \in Rejecting /\ faults < MaxFaults
      /\ faults' = faults + 1
      /\ Goto(f, IF executing THEN "fail" ELSE "mark")
      /\ UNCHANGED <<vars, durableVars, running, locked, admitting, closing, up, restarts>>

RunFinishes(g) ==
  /\ At(Run(g), "finish")
  /\ GivesBack(g)
  /\ End(Run(g))
  /\ UNCHANGED <<vars, durableVars, admitting, closing, up, restarts, faults>>

-----------------------------------------------------------------------------
\* stopSession, whose refusal of a fenced or replaced session is ignored.
FenceSession(g) ==
  IF IsCurrent(g, {"active"}) THEN StopSession(g, FALSE) ELSE UNCHANGED vars

\* fail returns: to nobody, when its execution has returned before it.
FailReturns(f) == IF flow[f].released THEN End(f) ELSE Goto(f, "finish")

\* fail, of an execution or of the recovery: read the record again, ...
FailReads(f) ==
  LET current == request[flow[f].request]
  IN  /\ At(f, "fail")
      /\ IF Finished(current.status) THEN FailReturns(f)
         ELSE GotoHolding(f, IF current.generation = 0 THEN "mark" ELSE "fence", current)
      /\ UNCHANGED <<vars, durableVars, processVars>>

\* Mutant: the session is left open.
FailFences_Not(f) ==
  /\ At(f, "fence")
  /\ Goto(f, "mark")
  /\ UNCHANGED <<vars, durableVars, processVars>>

\* ... fence the session if the record has one, ...
FailFences(f) ==
  /\ At(f, "fence")
  /\ FenceSession(flow[f].record.generation)
  /\ Goto(f, "mark")
  /\ UNCHANGED <<durableVars, processVars>>

\* ... and mark the record failed.
FailMarks(f) ==
  /\ At(f, "mark")
  /\ Update(f, "failed")
  /\ FailReturns(f)
  /\ UNCHANGED <<vars, processVars>>

\* Mutant: only an execution that had begun is recovered.
RecoveryReads_OnlyRunning ==
  /\ At(Recovery, "read")
  /\ IF IsBusy /\ request[activeRequest].status # "preparing"
     THEN flow' = [flow EXCEPT ![Recovery] =
                     NewFlow(activeRequest, request[activeRequest], "fail")]
     ELSE End(Recovery)
  /\ UNCHANGED <<vars, durableVars, processVars>>

\* start: the request the active row names, if unfinished, failed with the
\* process that executed it.
RecoveryReads ==
  /\ At(Recovery, "read")
  /\ IF IsBusy THEN flow' = [flow EXCEPT ![Recovery] =
                               NewFlow(activeRequest, request[activeRequest], "fail")]
     ELSE End(Recovery)
  /\ UNCHANGED <<vars, durableVars, processVars>>

RecoveryFinishes ==
  /\ At(Recovery, "finish")
  /\ locked' = FALSE
  /\ End(Recovery)
  /\ UNCHANGED <<vars, durableVars, running, admitting, closing, up, restarts, faults>>

-----------------------------------------------------------------------------
\* stop: the request is known and unfinished.
StopReads(h, r) ==
  /\ up
  /\ h \notin DOMAIN flow
  /\ r \in Stoppable \cap DOMAIN request
  /\ ~Finished(request[r].status)
  /\ flow' = Put(flow, h, NewFlow(r, request[r], "abort"))
  /\ UNCHANGED <<vars, durableVars, processVars>>

StopAborts(h) ==
  LET r == flow[h].request
      next == IF flow[h].record.generation = 0 THEN "write" ELSE "halt"
  IN  /\ At(h, "abort")
      /\ flow' = [Abort(IF r \in DOMAIN running THEN {Run(running[r])} ELSE {})
                    EXCEPT ![h].step = next]
      /\ UNCHANGED <<vars, durableVars, processVars>>

StopHalts(h) ==
  /\ At(h, "halt")
  /\ FenceSession(flow[h].record.generation)
  /\ Goto(h, "write")
  /\ UNCHANGED <<durableVars, processVars>>

StopWrites(h) ==
  /\ At(h, "write")
  /\ Update(h, "stopped")
  /\ End(h)
  /\ UNCHANGED <<vars, processVars>>

\* A call of stop rejects: the fence is attempted only, the rest of stop is not
\* made up for.
StopFaults(h) ==
  /\ \/ At(h, "halt") /\ Goto(h, "write")
     \/ At(h, "write") /\ End(h)
  /\ "stop" \in Rejecting /\ faults < MaxFaults
  /\ faults' = faults + 1
  /\ UNCHANGED <<vars, durableVars, running, locked, admitting, closing, up, restarts>>

-----------------------------------------------------------------------------
\* The process ends: its memory is gone and its connections' lock is released.
ProcessEnds ==
  /\ up' = FALSE
  /\ flow' = NoRows
  /\ running' = NoRows
  /\ locked' = FALSE
  /\ admitting' = FALSE
  /\ closing' = FALSE
  /\ UNCHANGED <<vars, durableVars, restarts>>

Crash ==
  /\ up
  /\ restarts < MaxRestarts
  /\ ProcessEnds
  /\ UNCHANGED faults

\* A call of fail rejects, and with it the execution, which nobody waits for: the
\* process ends with an unhandled rejection.  (While close waits for the execution
\* it would end a little later.)
RunRejects(g) ==
  /\ At(Run(g), "fail") \/ At(Run(g), "mark")
  /\ "run" \in Rejecting /\ faults < MaxFaults
  /\ faults' = faults + 1
  /\ ProcessEnds

\* close: abort what runs, whatever late HTTP handlers still do, ...
CloseService ==
  /\ up /\ ~closing
  /\ restarts < MaxRestarts
  /\ closing' = TRUE
  /\ flow' = Abort({Run(running[r]) : r \in DOMAIN running})
  /\ UNCHANGED <<vars, durableVars, running, locked, admitting, up, restarts, faults>>

\* ... and wait until it has ended.  (Not for an execution that had already given back
\* its entry, or was launched since: an end under one of these is a Crash.)
Exit ==
  /\ closing
  /\ \A g \in 1..MaxGeneration : Run(g) \notin DOMAIN flow
  /\ ProcessEnds
  /\ UNCHANGED faults

Restart ==
  /\ ~up
  /\ restarts < MaxRestarts
  /\ up' = TRUE
  /\ restarts' = restarts + 1
  /\ flow' = Starting
  /\ UNCHANGED <<vars, durableVars, running, locked, admitting, closing, faults>>

-----------------------------------------------------------------------------
SubmitSteps(h) ==
  \/ SubmitAdmits(h) \/ SubmitChecks(h) \/ SubmitLeads(h) \/ SubmitSaves(h)
  \/ SubmitPrepares(h) \/ SubmitStarts(h) \/ SubmitBinds(h) \/ SubmitLaunches(h)

StopSteps(h) == StopAborts(h) \/ StopHalts(h) \/ StopWrites(h)

FailSteps(f) == FailReads(f) \/ FailFences(f) \/ FailMarks(f)

RunSteps(g) ==
  \/ RunBegins(g) \/ RunPlans(g) \/ RunEnlists(g) \/ RunPublishes(g) \/ RunCloses(g)
  \/ RunCompletes(g) \/ FailSteps(Run(g)) \/ RunFinishes(g)

RecoverySteps == RecoveryReads \/ FailSteps(Recovery) \/ RecoveryFinishes

StopCalls == \E h \in Handlers, r \in Requests : StopReads(h, r)

ServiceNext ==
  \/ \E h \in Handlers : SubmitSteps(h) \/ StopSteps(h)
  \/ \E h \in Handlers, r \in Requests : SubmitArrives(h, r)
  \/ StopCalls
  \/ \E g \in 1..MaxGeneration : RunSteps(g)
  \/ RecoverySteps
  \/ \E h \in Handlers : SubmitFaults(h) \/ StopFaults(h)
  \/ \E g \in 1..MaxGeneration : RunFaults(g) \/ RunRejects(g)
  \/ Crash \/ CloseService \/ Exit \/ Restart

ServiceSpec == ServiceInit /\ [][ServiceNext]_allVars

\* Every flow continues: database, intake and consilium calls return (each has
\* a timeout), and a dead process is started again.
Fairness ==
  /\ \A h \in Handlers : WF_allVars(SubmitSteps(h)) /\ WF_allVars(StopSteps(h))
  /\ \A g \in 1..MaxGeneration : WF_allVars(RunSteps(g))
  /\ WF_allVars(RecoverySteps)
  /\ WF_allVars(Exit) /\ WF_allVars(Restart)

FairServiceSpec == ServiceSpec /\ Fairness

-----------------------------------------------------------------------------
Records == [status : Statuses, generation : 0..MaxGeneration]
Flows == Handlers \cup {Run(g) : g \in 1..MaxGeneration} \cup {Recovery}
Steps == {"admit", "check", "lead", "save", "prepare", "start", "bind", "launch",
          "begin", "plan", "enlist", "publish", "close", "complete", "finish",
          "fail", "fence", "mark", "read", "abort", "halt", "write"}

\* Records, the running map and the calls in progress have their declared
\* types, and the active row names a request that has a record.
ServiceTypeOK ==
  /\ TypeOK
  /\ DOMAIN request \subseteq Requests
  /\ \A r \in DOMAIN request : request[r] \in Records
  /\ activeRequest = None \/ activeRequest \in DOMAIN request
  /\ DOMAIN running \subseteq Requests
  /\ \A r \in DOMAIN running : Run(running[r]) \in DOMAIN flow
  /\ DOMAIN flow \subseteq Flows
  /\ \A f \in DOMAIN flow :
       flow[f] \in [request : Requests \cup {None}, record : Records, step : Steps,
                    aborted : BOOLEAN, released : BOOLEAN]
  /\ {locked, admitting, closing, up} \subseteq BOOLEAN
  /\ restarts \in 0..MaxRestarts
  /\ faults \in 0..MaxFaults

\* Reported success is real: a completed request has its answer in the
\* transcript of its own generation, and that session was closed, never
\* stopped, however the completion raced stops, crashes and the recovery.
CompletedIsPublished ==
  \A r \in DOMAIN request :
    request[r].status = "completed" =>
      LET g == request[r].generation
      IN  /\ g \in DOMAIN session
          /\ session[g].phase = "closed" /\ ~session[g].stopped
          /\ \E body \in Bodies : /\ Answer(r, body) \in DOMAIN event
                                 /\ event[Answer(r, body)].message.generation = g

\* A finished request hears no agent any more: whichever of completion, failure,
\* Stop and recovery wrote its last status, its session was fenced before.  (A
\* call that rejects may be the fence itself, whose rejection is ignored.)
FinishedIsFenced ==
  \A r \in DOMAIN request :
    faults = 0 /\ Finished(request[r].status) /\ request[r].generation # 0 =>
      session[request[r].generation].phase # "active"

\* Nothing keeps the leadership lock after the calls that use it: it is held only while
\* a submission, an execution that has not yet returned or the recovery is in progress,
\* not for the fail that goes on when its execution has returned.
LockNotLeaked ==
  locked => \E f \in DOMAIN flow :
              /\ flow[f].step \notin {"admit", "check", "lead", "abort", "halt", "write", "read"}
              /\ ~flow[f].released

\* The executions that may still act, but for letting go of the lock.
Executions ==
  {f \in DOMAIN flow : f \notin Handlers /\ f # Recovery /\ flow[f].step # "finish"}

\* An execution has the leadership lock from its first step to its last, so
\* that no other process of the same database admits a consultation beside it.
ExecutionHoldsLock == Executions # {} => locked

\* Stop wins: a request recorded as stopped is not reported completed after all,
\* when its execution, or a submission of it, writes the copy it holds.
StopWins ==
  [][\A r \in DOMAIN request :
       request[r].status = "stopped" => request'[r].status # "completed"]_allVars

\* A service at rest can serve: when no call is in progress and no request is
\* unfinished, no session is left active, which would refuse every new one.
NoOrphanSession ==
  up /\ flow = NoRows /\ ~IsBusy => ~(active # None /\ active.phase = "active")

\* Every admitted request is finished in the end and stays so, though the
\* process crash: none waits for an execution that no longer exists.
EveryRequestFinishes ==
  \A r \in Requests :
    r \in DOMAIN request ~> [](r \in DOMAIN request /\ Finished(request[r].status))

\* The recovery fails a request that its own process is serving.
RecoveryTakesOwn ==
  /\ Recovery \in DOMAIN flow
  /\ \E f \in DOMAIN flow \ {Recovery} : flow[f].request = flow[Recovery].request

\* ... which it is unless a recovery, whose first read races the first submissions of its
\* process, fails a request of that process: start reads the active row at every start.
RecoveredRequestsFinish == []~RecoveryTakesOwn => EveryRequestFinishes
=============================================================================
