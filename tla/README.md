# Verification of the personal consulting group

TLA+ models, TLC runs and TLAPS proofs for the server in `src/`: a Node process
behind which one owner asks questions, a consilium of model-driven agents
discusses them, and MySQL keeps what was said. Paths below are those of the
repository (`src/session/...` is the implementation's own `src` directory).

Contents: the system (1); the modules, and module by module how state and actions
correspond to the code (2); the runs, their bounds and what they show, fairness
(3); the proofs (4); what was observed (5); what is not modelled (6); the plan (7).

## 1. The system's parts

| Part | Code | State it keeps | Operations |
| --- | --- | --- | --- |
| Registrar | `session/registrar-do.ts` | generation counter, active-session row, session rows, message rows, event ledger, private control sequences, revision rows, critic rows, review receipts, task bindings | start, new task, append, notice, close, revise, stop, designate critic, record review, initialize / reserve / confirm consensus, reads |
| Consensus ledger | `session/consensus-ledger.ts`, `consilium/consensus-contract.ts` | one consensus state per task; one reservation per turn | initialize, carry over, reserve, confirm |
| Key-value storage | `godaddy/mysql-storage.ts` | rows of a namespace | get, put, transaction that locks the namespace's rows |
| Browser consultation service | `godaddy/browser-consultation-service.ts` | request records, active and latest rows; in memory the running map, admission flag, abort controllers | submit, execute, fail, stop, start (recovery), close |
| Leadership | `godaddy/consultation-leadership.ts` | one connection that owns an advisory lock | acquire, release |
| Archive | `archive/*`, `godaddy/mysql-archive-storage.ts` | archive rows (staged, committed), tombstone rows | seal, commit, export, delete |
| Consensus router | `consilium/consensus-router.ts` | none of its own: everything is in the ledger | rounds of positions, proposal, reviews, outcome; sealing and closing |
| Phased consilium | `consilium/router.ts`, `a2a.ts`, `final-recommendation.ts`, `resumable-finalization.ts`, `runtime/codex-head-synthesizer.ts` | none of its own: everything is in the Registrar | positions, critique, revisions; synthesis, publication; resumed synthesis |
| Consilium runtime | `godaddy/consilium-runtime.ts`, `consilium/session-launcher.ts` | operations in progress with their abort controllers; threads, workspaces and commands of each | consult, plan, translate, transcribe, resume, close |
| JSON-RPC and threads | `runtime/json-rpc-client.ts`, `codex-thread-client.ts` | pending requests with timers; turns in progress | request, start thread, take turn, interrupt, release |
| Provider processes | `godaddy/codex-app-server-process.ts`, `claude-code-process.ts`, `runtime-credential-vault.ts` | the cached child, its recovery gate, credential epoch and queue; a command's directory and timers | probe, take a client, reset authorization, close; run a command |
| Capability catalogue | `godaddy/runtime-bootstrap.ts`, `runtime/capability-catalog.ts`, `settings/catalog.ts` | receipt row and its copy in memory; lease rows | load, refresh, reset, renew for a selection |
| Owner settings | `settings/owner-settings-do.ts`, `settings/snapshot.ts` | revisioned document, audit records, idempotency ledger (64 entries, 24 h) | initialize, save, reset, read, prepare a snapshot |
| Owner authentication | `godaddy/owner-google-auth.ts` | one row: owner, sessions, sign-in transactions, revocation counter, configuration | start, finish, sign out, revoke, authorize |
| Process lifecycle | `godaddy/application-runtime.ts`, `server.mjs` | requests in progress; the progress of start and stop | start, serve, drain, shut down |
| Instruction documents | `instructions/*` | encrypted versions, revision pointer | initialize, save, restore |

### How the parts interact

The HTTP listener calls the consultation service. A submission passes an
admission flag and the leadership lock, writes a request record, has the
Registrar open a session under a new generation number, and launches the
execution without waiting for it. The execution asks intake for a plan; a direct
answer is appended to the transcript by the service, a consilium appends its
turns through the consensus ledger, which runs inside the Registrar's
transactions. Then the close gate seals the archive of the transcript and closes
the session, and the record is marked completed. Stop, failure and the recovery
at start-up take the other way out: fence the generation, archive what there is,
mark the record.

The consilium runtime acquires what an operation needs (threads in the shared
Codex child process, a workspace, a Claude command), runs the router, and lets
everything go. The settings runtime pins each new consultation to a snapshot of
the owner's settings, proved by a receipt of the catalogue. The application
creates all of them, and the server's signal handler takes them down in order.

Everything durable is in MySQL, and each method of the Registrar is one
transaction that locks its namespace. The service on the other hand spreads each
of its flows over many transactions with an `await` between any two, and the
flows share the active row, the running map, the admission flag and the lock.

### What is hard in this code

* **Stale copies.** `stop`, `execute` and `fail` carry the record they read (or
  were given) across awaits and write it back whole. A snapshot is made of
  settings and a receipt read in different transactions.
* **Interleaving flows of one process.** Submissions, executions, stops and
  recovery overlap at every await; an aborted execution still runs its tail.
  Several callers share one launch of the Codex process, which may be reset,
  retired or closed while they wait for it.
* **What nobody waits for.** An execution returns `fail(...)` without awaiting it:
  its `finally` block gives back the lock while `fail` still reads, fences and
  writes.
* **Half-done sequences.** Starting the session and recording its generation are
  two transactions; staging and committing an archive are two statements;
  preparing an operation acquires one thing after another and may be aborted
  between any two.
* **Retries.** Every Registrar call can be repeated with the same event id,
  revision id or session id, after any number of other calls; a settings request
  with its idempotency key, even after the key was forgotten; the identity
  provider's callback.
* **Late answers.** A turn is reserved, a model thinks for minutes, and the
  answer is confirmed against a state that has moved on. A turn's notifications
  come before, after or instead of the answer that names it; a request that timed
  out was served all the same.
* **Continue.** A revised generation inherits part of a task's consensus and all
  of its spent allowance.
* **Revocation** around a sign-in that is waiting for the identity provider, or a
  credential that is being persisted.
* **Start and end.** The listener is live before recovery has run, so that a
  recovery and the first submissions race; the shutdown asks once for the handlers
  in progress, has a deadline at each of its steps and a timer that ends the
  process.

`PROJECT.json` lists the hazards at their lines, with the properties that watch
them.

### What makes each part correct

* Registrar: one generation at a time hears agents; a fence is final; a
  transcript has no gap and no repetition; a retry returns what the first attempt
  did; revisions form chains; a review can be proved from the rows.
* Ledger: nobody is counted as agreeing to something they were not shown; the
  critic's allowance is kept over the task's whole life; an outcome stands.
* Routers: what a run returns is what the rows show; a run ends, with nothing of
  it going on; a completed session is archived and its final recommendation
  follows complete phases.
* Consultation service: success that is reported is real; what is finished hears
  nobody; the lock is let go; every request ends; Stop wins (the last two not
  always, section 5).
* Archive: a closed session is archived whole; an archive is immutable; a
  deleted one does not come back.
* Runtime, processes and clients: what an operation acquired is let go, whenever
  it is aborted; no turn and no child process runs that nobody owns; what a process
  of an earlier epoch writes is never stored over a reset (what a process launched
  during the reset has read may be, section 5).
* Settings: a retried write is applied once and answered with its own outcome; a
  consultation is pinned to settings that a receipt proves.
* Authentication: a revoked owner is not let in by a sign-in that was waiting.
* Lifecycle: the process ends when it is told to, and nothing is taken down under
  a request that was being handled then (one that begins later may be cut, section
  5).

## 2. The modules

```
KeyValue ──── Registrar ──(refines)── TranscriptLog
                │   ├── Consultation      extends Registrar: the service calls it
                │   └── PhasedConsilium   extends Registrar: three phases over it
                │         └── RegistrarProofs      theorems about the three
KeyValue ──── ConsensusLedger
                └── ConsensusRouter       extends the ledger: adaptive rounds over it
                      └── ConsensusLedgerProofs   theorems about the two
Catalogue ──── OwnerSettings ──── SessionSnapshot ──── SessionSnapshotProofs
Archive ──── ArchiveProofs             CodexServer ──── CodexServerProofs
Execution ──── ExecutionProofs         OwnerAccess ──── OwnerAccessProofs
Lifecycle ──── LifecycleProofs
MC...        the instances for TLC
```

| Module | Models |
| --- | --- |
| `KeyValue` | a namespace of MySQL rows as a function from keys to values; a transaction is one action, because it locks all rows of its namespace |
| `TranscriptLog` | abstract specification: one append-only log per generation, at most one generation that hears agents |
| `Registrar` | the Registrar's rows and every operation that writes them |
| `ConsensusLedger` | consensus states and reservations, over the few session rows the ledger reads |
| `ConsensusRouter` | runs of the adaptive consultation over the ledger: turns in parallel, their failures, archive and closing, relaunch |
| `PhasedConsilium` | the three-phase consilium and its finalization over the Registrar's rows |
| `Consultation` | the consultation service and leadership lock, one action per stretch between two awaits, over `Registrar` |
| `Archive` | seal, commit and deletion of one session's archive, statement by statement |
| `CodexServer` | the shared child process, its credential and everybody who uses it |
| `Execution` | one operation of the consilium runtime with its threads, turns, requests and commands |
| `Catalogue`, `OwnerSettings`, `SessionSnapshot` | receipts and leases; the settings document and its idempotency ledger; what a consultation is pinned to |
| `OwnerAccess` | sign-in, sessions, revocation, and two processes with their configurations |
| `Lifecycle` | start-up, requests, signal, shutdown and its deadlines |
| `RegistrarProofs` | theorems about `Registrar`, its refinement of `TranscriptLog`, and its callers `Consultation` and `PhasedConsilium` |
| `ConsensusLedgerProofs` | theorems about `ConsensusLedger`, and about the runs of `ConsensusRouter` over it |
| `ArchiveProofs`, `CodexServerProofs`, `ExecutionProofs`, `SessionSnapshotProofs`, `OwnerAccessProofs`, `LifecycleProofs` | theorems about the module each extends, for all values of its constants |

### Registrar

Each variable is one family of storage keys (`registrar-do.ts:9-20`). `active` is
the active-session row, which the code keeps as a *copy* of the latest session
row; that the two never disagree is an obligation, not an assumption.
`WriteActive` writes both, as every operation of the code does.

| Action | Method |
| --- | --- |
| `StartSession`, `StartNewTask`, `Create` | `startSession`, `startNewTask`, `#createSession` |
| `AppendConfirmedMessage` / `AppendMessage` / `WriteMessage` | `appendConfirmedMessage`, `#appendConfirmedMessage` |
| `AppendControlNotice` (`NoticeOfSession`, `NoticeBeforeSessions`) | `appendControlNotice`, including the generation it reserves before any session exists |
| `CloseSession`, `StopSession`, `ReviseSession` | the methods of these names |
| `DesignateCritic`, `RecordCriticReview` | the methods of these names |
| `BindTask` | the rows of the Registrar that `initializeConsensus` writes |
| `ConfirmConsensusMessage` | `confirmConsensusMessage`: the message of a task-bound generation that the ledger lets through |

A refused call and a replayed one write nothing and are stuttering steps.
`concluded` in `ReviseSession` is the outcome the operation reads from the ledger
and is any Boolean here, and any new message of a bound generation may be confirmed;
`ConsensusLedger` decides both. `appendControlNotice` and
Stop with a control notice have no caller in production at this commit, but are
part of the class and are modelled.

### ConsensusLedger

The variables are the rows `consensus-ledger.ts` reads and writes, and of the
sessions only which one is open, what it revises and which task it is bound to.
Sessions open, are fenced and are revised at any time, which is more than the
Registrar allows, so a safety result here holds under the real Registrar too.

| Action | Code |
| --- | --- |
| `Initialize`, `CarryOver` (`Carried`) | `initializeConsensusState`, first time and for a revised generation |
| `Reserve` (`MayDispatch`, `CriticAllows`) | `reserveConsensusMessage`, with `dispatchState` |
| `Confirm` (`Accepts`, `Updated`, `MayHandOff`) | `prepareConsensusConfirmation`, with `dispatchState` again |
| `HasConsensus` | `hasConsensus` of the contract |

The dispatch id is a tuple of what the router puts into its text form. A body
stands for its digest. A position is its revision number: equal digests of all
positions mean equal revisions, as every new position raises one.

### Consultation

`flow` holds every call in progress: by HTTP handler, by execution (`Run(g)`), or
the recovery. A flow has the next step, the request, the *local copy of the
record* the code holds at that point, and whether its abort controller fired.
Each action is the code between two awaits; that two flows interleave only there
is what JavaScript guarantees.

| Actions | Code |
| --- | --- |
| `SubmitArrives` ... `SubmitLaunches`, `Reject`, `SubmitFaults` | `submit`, with `leadership.acquire` |
| `RunBegins` ... `RunCompletes`, `RunFaults`, `RunFinishes` (`ReturnsFail`, `GivesBack`) | `execute` and its catch and finally |
| `FailReads`, `FailFences`, `FailMarks` (`FailReturns`), `RunRejects` | `fail`, of an execution or of the recovery |
| `StopReads`, `StopAborts`, `StopHalts`, `StopWrites`, `StopFaults` | `stop` |
| `RecoveryReads`, `RecoveryFinishes` | `start` |
| `CloseService`, `Exit`, `Crash`, `Restart` | `close`, shutdown, the death and start of the process |

The Registrar's actions are used as they are. Intake, the consilium and the
archive are calls that take any time and succeed or fail. `SubmitFaults`,
`RunFaults`, `RunRejects` and `StopFaults` are rejecting calls: the code's catch
blocks, or their absence. `Rejecting` and `MaxFaults` bound them. A rejecting call
has had no effect here.

Where `execute` says `return fail(...)`, it does not wait for it: `ReturnsFail` gives
back the running entry and the lock, and the flow goes on as a `fail` that has been
`released` of both and ends by itself. Only the catch block awaits `fail`, so there
they are given back after it (`RunFinishes`). The recovery is in progress at every
start of the process, the first one included (`Starting`), beside the submissions of
the requests in `Early`. An answer's event id is made of the request and of what it
says (`Answer`).

### Archive

One session (no operation relates the archives of two). `call` holds the calls in
progress, which are the execution (first at the gate, later in its `fail`) and
handlers that stop or delete. Sealing reads the session row, then the messages,
the tombstone, the archive row, and then inserts, commits and verifies, each a
statement of its own as in `ArchiveService.seal`; deletion is one transaction
after two reads. Only the length of the transcript is kept: transcripts grow at
the end, so within a session equal lengths are equal digests.

### ConsensusRouter

The router keeps nothing between two reads of the ledger: what it does next is
the function `NextTurns` of the state it has read. `run` has the runs by
generation, `turn` the turns in progress by dispatch id, each with the body and
positions the router read when it dispatched it.

| Action | Code |
| --- | --- |
| `Launch`, `Return` | entry and exit of `ConsensusRouter.run`, under `launch` of the runtime |
| `Begin` (`NextTurns`, `Batch`) | one turn of the loop, with `#batches` |
| `ReserveNext`, `Answer`, `AnswerUndelivered`, `Refused`, `Fail` | the inner `run` and `confirm`: reserved, put to the model, confirmed; `Promise.allSettled` lets the others of a batch finish |
| `Seal`, `Close`, `CloseRefused` | the end of `confirm`, for an outcome or a crisis |
| `Outside` | Stop at any time; New task or Continue once no run is in progress |

### PhasedConsilium

`job` is the operation of each generation with its phase and step, `turn` what
each agent is doing. Messages are rows of the Registrar; `delivered`, `archived`
and `completed` are what the outside has got.

| Actions | Code |
| --- | --- |
| `Launches` ... `AssignmentRefused` | `ConsiliumRouter.run` up to the turns, `routeHeadAssignment` |
| `Confirms`, `Reviews`, `Delivers`, `Fails` | one turn: `routeA2AEnvelope` and the failures around it |
| `Settled`, `BatchEnds` | `#runBatches`: a batch is over when all of it has settled |
| `ResumeBegins` (`IsComplete`) | `resumeFinalization`, `readResumableFinalization` |
| `Synthesizes`, `Publishes` ... `Closes` | `CodexHeadSynthesizer.synthesize`, `CriticGatedFinalizer.publish` |
| `OwnerActs`, `ProcessCrashes` | Stop and New task at any time; the process dies with every run |

### CodexServer

`child` lists the processes launched with the epoch, credential and state of
each; `active` is the cached promise, `recovering` the recovery gate; `queue` the
credential operations, one at a time. Credentials are numbered as the provider
issues them.

| Actions | Code |
| --- | --- |
| `Enter` ... `Finish` | a probe, a sign-in or a turn that asks for the process: `getActive`, `getThreadClient` |
| `LaunchReads`, `LaunchEnds`, `LaunchFails`, `Dies`, `Kill` | the launch and the launcher's child |
| `CredentialArrives`, `Prepare`, `VaultChanges`, `VaultFails` | `persist` and the credential queue |
| `Reset...` | `resetAuthorization` |
| `CloseSettles`, `CloseBegins` ... `CloseEnds` | `closeActive`, `close` |

`Retirement` is history: whether a process was retired when no older one was still
closing. Two processes of one epoch may persist one after the other, and only the
order of the queue decides which credential stays. Probes, turns and sign-ins are
not serialized with a reset, so a process may be launched while one is under way:
it has the new epoch and the credential it found (`IsRelic`).

### Execution

One operation from `Launch` to `Return`. Every request may be answered in time,
late or never, and what it asked for may have been done in each case: `remote` is
what really runs in the app-server, `turn` what the client knows of it.

| Actions | Code |
| --- | --- |
| `Launch`, `ConsiliumChecked`, `PlanChecked`, `UtilityChecked`, `Abort`, `Close` | `consilium-runtime.ts` |
| `Starting`, `Started`, `NotStarted`, `Prepared`, `StopRuntimes`, `Routed`, `Return` | `ConsiliumSessionLauncher.prepare`, `executePreparedConsilium` |
| `ReleaseInterrupts`, `Released` | `releaseThread` |
| `TurnBegins` ... `Interrupted`, `RemoteBegins`, `RemoteEnds` | `runTextTurn`, and the server's side of it |
| `CritiqueBegins`, `CommandSpawns`, `CommandTerminates`, `ChildCloses` | `ClaudeCodeCriticRuntime.run`, `runClaudeCommand` |

### Catalogue, OwnerSettings, SessionSnapshot

`Catalogue` numbers receipts; those up to `expired` have expired. Refreshes,
resets and renewals take turns (`serializeMutation`); a load does not, and reads
the row and sets the copy in two steps. `OwnerSettings` has the document, the
idempotency ledger, which may forget any key at any time (`Forget`: 64 entries, 24
hours), and as history what was in force at each revision (`inForce`; the audit
records, which hold no settings, are left out). A request may be received, carried
out, its answer lost, and sent again. `SessionSnapshot` follows
`prepareConsultationSnapshot` step by step (`ReadSaved`, `TakeReceipt`,
`ReadAgain`, `Resolve`), with everything else in between, and the second check
of the runtime (`Check`, `Checked`).

### OwnerAccess

`row` is the stored state. `callback` holds what a callback request has claimed
while it talks to Google; the transactions before and after are `Claim` and
`Grant` / `Refuse`. `flow` and `epoch` are history. Two processes with different
configurations share the row: `StateFor` is the head of `transact`, which
replaces the row of another configuration if this process may activate its own.

### Lifecycle

`time` counts from the signal in the program's units (drain 5 s, grace 1 s, stop
12 s, hard exit 20 s); a timer fires before time goes on (`Tick`), everything
else may take any time or hang. `handler` are the requests in progress,
`sockets` is what `closeAllConnections` destroys under them, `stop` the progress
of the application's `stop`, `onClose` the second way into it. A connection
accepted before the signal may bring a request after it, whose handler is *late*.
`waiter` is the one call of `waitForIdle` that the drain makes, at the signal: it
resolves at once if no handler runs then, or else when the last one ends, and is
not asked again. The close event asks for itself.

## 3. The runs

| Run | Instance | What it checks |
| --- | --- | --- |
| `registrar` | 2 sessions, 2 events, 2 revisions, 1 critic, 2 providers, 3 generations, 2 messages each; 1.5 M states | the rows agree with each other (`OneActiveGeneration`, `RevisionLineage`, `AuthenticReview`), a stop is never undone (`StopNeverUndone`, `FenceIsFinal`), and the module implements `TranscriptLog`: transcripts without gap, repetition, loss or stray rows |
| `ledger` | 1 specialist, every kind of turn and decision, 2 turns pending, 2 generations, allowance 1, 7 reservations; 1.9 M states | `InformedConsent`, `BooksBalance`, `OutcomeStands` over the whole life of a task, Continue included |
| `router` | 2 specialists side by side, allowance 2, 2 runs: of one generation or of one that continues it, calls failing in one of them; 0.6 M states | `ResultIsTrue`: a run fails only for a cause outside of it, and an outcome it reports is published, archived whole and closed; `EveryRunEnds` (liveness) |
| `phased` | 3 specialists two at a time, a critic, 3 runs or resumptions of a generation, a second session; 145 k states | `EveryPhaseIsHeard`, `NoTurnIsOrphaned`, `CompletedIsKept`, `EveryRunReturns` (liveness) |
| `consultation` | 2 requests and 2 handlers, 2 answers, one request that may be stopped at any time and be submitted during the recovery, the other sent twice at once, one call that rejects anywhere; 2.1 M states | `CompletedIsPublished`, `FinishedIsFenced`, `LockNotLeaked` |
| `recovery` | 2 requests, both of which may be submitted during a recovery, two crashes or shutdowns, fair; 0.35 M states | `RecoveredRequestsFinish` (liveness): every admitted request is finished in the end, if no recovery fails a request of its own process |
| `archive` | the execution, 2 handlers, 2 messages, one rejecting call, one crash, fair | `ClosedIsArchived`, `ArchiveIsWhole`, `FencedIsArchived` (liveness) |
| `codex` | a prober and a turn, one credential beside the stored one, one loss of any kind, a reset, a close; 0.8 M states | `EveryChildIsOwned`, `ResetForgets`, `RetirementKeepsCredential`, `EverythingReturns` (liveness) |
| `execution` | 2 roles and a critic's command, 3 turns, an abort at any moment; 150 k states | `EverythingReleased`, `NoOrphanTurn`, `NoCompletionMissed`, `OperationReturns` (liveness) |
| `snapshot` | 2 models, 1 request key sent at will, 3 revisions, 2 receipts, one change of what is offered; 8.9 M states | `AppliedOnce`, `RetryGetsItsOutcome`, `SnapshotIsBacked` |
| `access` | 3 browsers, 2 accounts, 2 callbacks, 2 processes of two configurations with one owner's address, 3 sign-ins, 3 epochs; 150 k states | `RevocationIsTotal`, `VerifierUsedOnce`, `OneOwner` |
| `lifecycle` | 2 requests, the program's bounds in seconds; 226 k states | `TeardownInOrder`, `HardExitIsTheLastResort`, `SignalEndsProcess` (liveness) |

Every property has a mutant in `PROJECT.json`: a plausible slip in the code (a
dropped guard, a missing reset, a skipped fence) under which TLC finds the
property violated with the same bounds. The mutants stand next to the definitions
they change.

### Why the bounds are enough to be interesting

* *Registrar.* A generation can be fenced, then revised or replaced, then that
  one again (three generations); two events can be retried and collide in one or
  two generations; two revision ids give the retry of an earlier revision after a
  later one; two providers let a critic be of the wrong one. Sessions, events and
  revisions are interchangeable and used symmetrically.
* *Ledger and router.* An approval goes stale by a position or a candidate
  changing between reservation and confirmation, which takes two turns pending.
  Seven reservations take one specialist from its position to a published answer
  with one to spare. In `router`, which takes turns only in the code's order, two
  specialists run whole consultations: with the allowance at 2 a first candidate
  is revised and a second one fails or is agreed. The code's 7 repeats the round.
  There the decision *unresolved* is left to `ledger`; disagreement ends by the
  allowance. A second run resumes what the first has left.
* *PhasedConsilium.* Three specialists two at a time make two batches, the second
  of which must not start after a failure in the first. Three attempts are a run
  that fails, its repetition, and a resumption.
* *Consultation.* Every race in this service is between an execution (or its
  tail), one other submission and a stop: two requests, one of which is stopped,
  and two handlers. One rejecting call: a second one meets the same code. Two
  restarts: the recovery of the second process meets what the first one, with its
  own recovery and submissions at once, has left. A retry does not begin a second
  execution of a generation beside the first (the bound in `SubmitLaunches`, as
  `flow` has one execution per generation).
* *Archive.* Two concurrent seals and a deletion need the execution and two
  handlers; two messages distinguish a partial archive from a whole one.
* *CodexServer.* A probe that probes again and a turn wait for one launch; one
  loss makes a retirement or a relaunch, beside the launches that reset and
  retirement make; one new credential distinguishes old from new.
* *Execution.* Two roles are a thread being started while another runs; three
  turns let a thread take a second one.
* *Settings.* Three revisions: the one a request was made for, its own, and one
  in between or after. Two receipts: one found and one that replaces it.
* *Access.* Three sign-ins give one before, one across and one after a
  revocation; two accounts that show the owner's address test who is the owner.

`CHECK_DEADLOCK FALSE` in every configuration: the systems come to rest (all
requests served, all identifiers used), and the bounds end the counters.

### Fairness

Safety runs need none. In the others a step of a call in progress is taken in the
end: an await on MySQL, a provider or a child process returns or rejects, as each
has a timeout (seconds for a request to the app-server, minutes for a turn and for a
command, SIGKILL after SIGTERM), and Node runs every ready continuation.

* `recovery`: each call in progress, the recovery included, `Exit`, and `Restart`,
  as the host starts a dead process again. Nothing about the outcome of a step, the order of flows, or
  anyone pressing Stop or submitting.
* `router`, `phased`: the steps of each run, taken together. Which step is not
  said: the model may fail or answer at will.
* `archive`: its calls, and nothing of the owner, of crashes or rejecting calls;
  `FencedIsArchived` excepts behaviours with those, because a seal that dies
  between its two writes is not repeated by the code.
* `codex`: each caller, process, the queue, a reset and a close, once begun.
* `execution`: the operation, its requests, which are answered or time out, and
  its command, whose child closes once it is being killed. An aborted turn is not
  assumed to end in the server.
* `lifecycle`: timers and the clock only. Requests, start-up and every resource
  may hang for ever.

## 4. What is proved

Each theorem holds for all values of the constants: any sets of sessions, events,
agents, requests, processes or models, any bound. "Property" is the definition the
runs check on a small instance.

| Module | Theorem | Property: what it says |
| --- | --- | --- |
| `RegistrarProofs` | `TypeCorrect` | `TypeOK`: every row has its declared type |
| | `OneGeneration` | `OneActiveGeneration`: one generation hears agents, and the active-session row names it |
| | `FenceStands` | `FenceIsFinal`: no operation reopens a fenced row or forgets a stop |
| | `StopStands` | `StopNeverUndone`: no generation continues a stopped one |
| | `RevisionsFormChains` | `RevisionLineage`: chains of one session with one snapshot, and revision rows that name the continuation |
| | `ReviewsStayAuthentic` | `AuthenticReview`: a recorded review stays provable from the rows it names |
| | `RegistrarImplementsLog` | `ImplementsTranscriptLog`: the refinement of `TranscriptLog` |
| | `ServiceKeepsRegistrar` | `ServiceSpec => Spec`: below the consultation service all of the above holds |
| | `CompletedStaysPublished` | `CompletedIsPublished`: a completed request has its answer in a closed, never stopped session |
| | `FinishedStaysFenced` | `FinishedIsFenced`: a finished record names a fenced session, until a call rejects |
| | `LockIsReleased` | `LockNotLeaked`: whoever has the leadership lock is still there to let it go, and not merely in a `fail` that nobody waits for |
| | `PhasedKeepsRegistrar` | `PhasedSpec => Spec`: and below the three-phase consilium |
| | `PhasesAreHeard` | `EveryPhaseIsHeard`: a reviewed critique has heard every position, a final every revision after the critique |
| | `NoTurnLeftBehind` | `NoTurnIsOrphaned`: an agent that takes its turn is in the batch its run waits for |
| | `CompletedStaysKept` | `CompletedIsKept`: a completed session has its final delivered and everything copied |
| `ConsensusLedgerProofs` | `ConsentIsInformed` | `InformedConsent`: everybody agreed to the candidate, shown the positions it is built from |
| | `OutcomeIsFinal` | `OutcomeStands`: a concluded task and its turns are never changed |
| | `BooksAlwaysBalance` | `BooksBalance`: counts, allowances and versions are what the dispatch rows say |
| | `ResultsAreTrue` | `ResultIsTrue`: an outcome that a run returns is kept, and, while the budget lasts, a run fails only for a cause outside of it |
| `ArchiveProofs` | `ClosedMeansArchived` | `ClosedIsArchived`: a closed session has its whole archive, or its tombstone |
| | `ArchivesAreWhole` | `ArchiveIsWhole`: a committed archive of a fenced session is whole, until a call rejects |
| `CodexServerProofs` | `ChildrenAreOwned` | `EveryChildIsOwned`: a process that runs is cached or being closed; none outlives `close` |
| | `ResetIsForgetful` | `ResetForgets`: after a reset the vault has nothing a process of the old epoch wrote, and an old credential only by a process launched during the reset |
| | `RetirementIsSafe` | `RetirementKeepsCredential`: the next process starts with the retired one's credential or a newer one |
| `ExecutionProofs` | `NoTurnIsLeft` | `NoOrphanTurn`: a turn that has returned does not run on in the server |
| | `AllIsReleased` | `EverythingReleased`: an operation that has returned holds nothing |
| | `CompletionsAreSeen` | `NoCompletionMissed`: no turn waits for a completion that has come |
| `SessionSnapshotProofs` | `RequestsApplyOnce` | `AppliedOnce`: a settings request brings about one revision at most |
| | `RetriesAreReplayed` | `RetryGetsItsOutcome`: a retry gets the revision of the first attempt |
| | `SnapshotsAreBacked` | `SnapshotIsBacked`: a snapshot was in force at its revision, and its receipt covers it |
| `OwnerAccessProofs` | `RevocationTotal` | `RevocationIsTotal`: nothing is accepted that comes from a sign-in begun before the last revocation |
| | `VerifierOnce` | `VerifierUsedOnce`: a sign-in's verifier goes to the identity provider once |
| | `OneOwnerHolds` | `OneOwner`: all sessions belong to one account |
| `LifecycleProofs` | `TeardownIsInOrder` | `TeardownInOrder`: nothing is torn down under a request that the signal found in progress, or out of order |
| | `HardExitIsLast` | `HardExitIsTheLastResort`: only a shutdown that failed is cut |

### Assumptions

The named `ASSUME`s of the modules, which TLC evaluates in the runs, and no others:

* bounds are natural numbers (`BoundAssumption`, `ArchiveAssumption`,
  `CodexAssumption`, `ExecutionAssumption`, `CatalogueAssumption`,
  `SettingsAssumption`, ...), and the default model is a model;
* absent values are no values (`NoneAssumption`, `NoSessionAssumption`,
  `NoArchiveAssumption`, `NoRequestAssumption`), the event id Stop makes is no
  caller's, a probe is no turn, the execution is no handler, the head and the
  critic are no specialists, the result of a run is never absent
  (`ResultAssumption`);
* the specialists of a roster are finitely many, and a batch has room for one turn
  at least (`RouterAssumption`);
* a critic has one provider, a process one configuration;
* the lifecycle's bounds fit into each other: drain, grace and stop add up to less
  than the hard exit (`LifecycleAssumption`), as the program's constants do;
* an answer's id, of a request and what it says, is an event id
  (`AnswerAssumption`); the requests that may be stopped, retried or submitted early
  are requests (`StopAssumption`, `RetryAssumption`, `EarlyAssumption`), and any of
  them may be all three;
* the ids that the three-phase consilium makes are event ids
  (`TurnEventAssumption`). That all ids of turns are new is in the model: they
  carry the number of their attempt.

Two theorems have a hypothesis of their own:

* `OneOwnerHolds` is about sites all of whose configurations name one owner's
  address (`OneIdentity`), as the change of that address is meant to admit another
  owner;
* the second half of `ResultsAreTrue` is about states in which no task has spent
  its reservations (`BudgetLeft`; 512 in the code, `consensus-ledger.ts:146`). A run
  that meets the limit is refused, and fails, because the code means it to. What a
  run returns as an outcome is kept in any case. The run `router` never comes near
  the limit, so there the property is checked without the hypothesis.

### The arguments

`TypeOK` of `Registrar` is inductive as it stands; no other property here is. Each proof module begins with
the strengthening that is (named in brackets), which TLC has checked on the
instance of the component's run, and then has one lemma or step per action.

**Registrar (`SessionInv`, `Lineage`, `TranscriptInv`, `ReviewInv`).** The
properties speak of all session rows, while every operation looks only at the
active-session row. `SessionInv` closes the gap: that row is a copy of the row of
the latest generation (`LatestIsActive`), and every row below the latest is fenced
(`EarlierAreFenced`). `StepKinds` reduces the operations to three kinds: the
session rows stay (`Waits`), the active session is rewritten within what a fence
allows (`Rewrites`), or a session is installed over a closed or fenced predecessor
(`Installs`); preservation is proved by kind. The subtle case is a new task after
a stop, which relabels the stopped session *closed*: the phase alone would then
let it be revised, and the proof needs that the relabelled session is no longer
the latest. `Lineage` adds that whatever a generation continues is an earlier,
closed, never stopped one of the same session and provider, continued by no other.

The refinement maps the message rows of each generation to its log.
`TranscriptInv` says that these rows are numbered without a gap, that each has the
event that wrote it and each event its row, and that private notices have numbers
of their own; so the mapped log is a sequence (`TranscriptSequences`), and a step
that writes a row appends exactly one entry to one log. The proof goes through the
kinds of log steps (append, open, fence, nothing): every operation is shown to be
one of them, and each of them to be a step of `TranscriptLog` or a stutter.

**Consultation service (`ServiceInv`).** Everything depends on what a flow's copy
of the record is still worth when it writes it back. `CallOK` says so for each
step: before *start* a copy has no generation; at *close* the answer is in the
transcript; at *complete* the session is closed and was never stopped; at *mark*
and *write* its session is fenced, unless a call rejected. These facts survive
the steps of all other flows because the Registrar's rows only grow and a fence is
final (`RecordKept`, `CallKept`, over `RowsStay`), so stale copies are harmless
exactly there. `LockInv` says which steps hold the leadership lock, and that a
`fail` whose execution has returned is not among them; a dead process has neither
calls nor the lock.

**Three phases (`PhasedInv`).** The rows show what was said in a generation; the job
is only in memory, gone with every crash, while a later attempt may run or resume
in the same generation. What ties the rows to one attempt is the first assignment:
its event id is fixed by the generation, so a second run is refused it, and every
position, critique and revision of the transcript carries the number of the one
attempt that has it (`SaidInOneRun`, with the attempt as a witness that outlives
the job). `SaidInOrder` relates their sequence numbers; `PhaseInv` says for each
phase and batch of a job what the transcript already holds, so that the step that
speaks next finds it there. A resumption has no such history of its own: what
`IsComplete` reads from the rows is shown to be as much (`CompleteIsRevised`, with
the cardinalities of positions and revisions). `LastSteps` and `CompletedInv` follow
the final to the delivery, the copy and the fence, after which nothing can be said
that the copy lacks.

**Ledger (`LedgerInv`).** Per task, every recorded review is of the current
candidate by an agent who was shown the positions it is built from; no generation
continues a concluded task (`ConcludedInv`). `BooksBalance` counts sets of
dispatch rows; its proof follows what each operation adds to these sets, over
`Continue`, which moves the task to a new generation but not its turns.

**Router (`RunInv`, `Healthy`).** That an outcome a run returns is kept needs
`RunInv`: only the latest generation has a run in progress; a turn at the gate
carries the outcome already written in the state, and a closing one has every
message of the generation sealed; a review that leaves an issue open has marked the
state as disputed. That a run fails only for a cause outside is about what the
ledger could refuse. `Healthy` speaks of the open generation in which no call
failed. Its turns are those the state still calls for (`IsDue`, over
`NextTurnsDue`, which goes through the branches of `NextTurns`), and are held by
reservations made for the very candidate and positions the run has read (`IsHeld`).
Every turn confirmed before is spent (`IsSpent`): its number lies below what the
state calls for next, so its id cannot be asked for again. The subtle part is the
batch: a confirmation changes the state under the other turns of its batch, and the
proof needs that they stay due (`DueKept`) and that what was spent stays spent
(`SpentStays`). Then the ledger has no reason left to refuse (`NotRefused`) but its
budget. A repeated run is in a generation with a failed call, and a continued one
starts in a generation that has no dispatch rows.

**Archive (`ArchiveInv`).** A transcript cannot grow once the session is fenced or
its execution has left publishing (`Frozen`). The execution counts its messages
after it has left, a handler after its fence, so what they count stays true while
they stage and commit it, however the statements interleave.

**CodexServer (`ServerInv`).** The cached process is the last one launched and the
only one that nobody closes; everyone else who is not over has somebody waiting
for its end (`ChildInv`). Only the first operation of the credential queue has
begun, and past the clearing of the vault what has begun is of the new epoch
(`QueueInv`, `EpochInv`). What a reset forgets is followed through processes, queue
and vault (`ForgetInv`): as long as no process of the new epoch has started with an
old credential, none has one, none is on its way to the vault, and past the
clearing none is in it. A retired process's newest credential waits in the queue
or is stored, with nothing older on its way (`RetireInv`), and the recovery gate
stays shut until then.

The proof attempt found that `RetirementKeepsCredential` did not hold as it was
first stated, which the bounds of the run had hidden: with two probes, two losses
and two new credentials an older process found unresponsive can still be closing
when the next one is retired, and its late persist overwrites the newer
credential, because `persist` compares epochs, which are the same
(`codex-app-server-process.ts:183`). The history value `Retirement` tells a
process retired while no older one is left from one whose credential is so
contested, and the property speaks of the former.

**Execution (`ExecutionInv`).** `RemoteInv` relates what the client knows of a turn
to what runs in the app-server: an idle one does not run while the connection is
open, and a completion that came before the answer is kept with the turn.
`ThreadInv` and `RouterInv` say in which phase of the operation a thread, a turn or
a command may exist at all; the release of each is then a matter of its own steps.

**Settings (`SettingsInv`).** `If-Match` fixes the one revision a request can bring
about, before and after the ledger forgets its key (`RequestOK`). What a
preparation has read was in force (`IsPast`), which no later write changes, and
receipts are issued but never rewritten (`ReceiptsGrow`), so a snapshot joined from
two transactions stays true.

**OwnerAccess (`AccessInv`, `OwnerInv`).** What the row keeps was begun in the
present epoch, one transaction to a flow, unspent while pending; a process that
finds the row of another configuration starts from an empty one.

**Lifecycle (`LifecycleInv`).** The server leads: only a closed or a failed one
lets `stop` begin, after the waiter of the signal has resolved or, at the close
event, when no handler runs; so no handler that the signal found runs from then on
(`ServerInv`), while a late one may; how far `stop`
has come says what it has closed (`StageInv`); time is within the sum of the
bounds of the stages gone through (`TimeInv`).

### Only model-checked

* Liveness (`RecoveredRequestsFinish`, `FencedIsArchived`, `EveryRunEnds`,
  `EveryRunReturns`, `EverythingReturns`, `OperationReturns`,
  `SignalEndsProcess`): fairness is beyond the prover.
* What recursive definitions compute, as `FoldFunction` in the bound of
  `ConsensusRouter`: induction over data is out of the prover's reach.

## 5. What was observed

The code contradicts what the repository says of it in eight places. The property
that states the promise is kept in the module, and no run expects it to hold; a
configuration with the constants given here and that property shows the
behaviour.

* **A stop can lose** (`StopWins` of `Consultation`, the constants of
  `MCConsultation.cfg` with `MaxFaults = 0`, `Retried = {}` and
  `SPECIFICATION FairServiceSpec`). `stop` marks the record *stopped*; an
  execution of a direct answer that is closing its session writes its own copy
  over it as *completed* (`browser-consultation-service.ts:238`).
  `docs/qa-checklist.md:17`: "Stop wins races with late provider completion."
* **A stop during admission orphans the session** (`NoOrphanSession`, the same
  instance). The stop read the record before it had a generation, so it fences
  nothing; the aborted execution finds the record finished and skips its own
  fence. The session stays active and refuses every later request.
  `docs/architecture.md:45`: "On stop or process recovery, fence the generation".
* **A request that runs for ever** (`EveryRequestFinishes`, the constants of
  `MCRecovery.cfg`). The listener is live before the recovery, which fails the
  request the active row names, be it of its own process
  (`application-runtime.ts:121`). The recovery's late write clears the active row, so
  another request is admitted, while the submission it has failed goes on and writes
  its own copy back: two records are unfinished. When one of them is finished, that
  clears the active row; if the process dies then, the next recovery finds no request
  to fail, and the other record is unfinished for good. Without such a recovery, and
  without stops, every request does finish (`RecoveredRequestsFinish`).
  `docs/prd.md:14`: "Restart recovery marks uncertain in-flight
  provider work failed and never silently replays it."
* **An execution without the lock** (`ExecutionHoldsLock`, the constants of
  `MCRecovery.cfg` with `MaxRestarts = 0`). A `fail` that is returned fences,
  archives and writes after the lock is given back
  (`browser-consultation-service.ts:109`, `:159`). And an execution that completes
  finishes its record, which admits the next submission, before it releases the
  lock: the new execution's acquisition finds the lock its own, and the first one's
  release, or that of a recovery (`:247`), takes it away.
  `docs/architecture.md:56`: "concurrent requests cannot share one acquired lock".
* **A deleted archive can come back** (`TombstoneIsFinal` of `Archive`, the
  constants of `MCArchive.cfg` with no faults and no restarts). Insert and commit
  do not look at the tombstone table (`mysql-archive-storage.ts:121`).
  `docs/qa-checklist.md:35`: "Tombstones prevent deleted archives from being
  recreated."
* **A reset credential can come back** (`CredentialStaysCleared` of `CodexServer`,
  the constants of `MCCodex.cfg`). A reset raises the epoch first and clears the
  vault last (`codex-app-server-process.ts:323`, `:337`). Between the two a status
  request, a turn or a sign-in, none of which is serialized with it
  (`runtime-bootstrap.ts:253-268`), launches a process that has the new epoch and
  reads the old credential (`:239`); when it persists after the clearing, the
  credential is stored again, though the reset reports success.
  `codex-app-server-process.ts:331`: "The persistent credential is cleared below even
  when the old child process cannot respond, so a restart cannot revive it."; the
  owner is told that the sign-in has been cleared (`settings-runtime.ts:279`).
* **A late request is cut** (`NoHandlerIsCut` of `Lifecycle`, the constants of
  `MCLifecycle.cfg`). The drain asks `waitForIdle` once, at the signal
  (`server.mjs:271-274`), and it answers for the handlers of that moment (`:102-103`).
  A request that begins after it, on a connection already accepted, is not waited for
  when the connection ends before its handler does: the application is stopped under
  it. `server.mjs:209-210`: "A force-closed socket can emit `close` while its async
  handler is still executing. Never tear providers or MySQL down under that handler.";
  `:260`: "Forced socket closure is preferable to closing MySQL under a live request."
* **Two revisions in a row break Continue** (`ContinueCanResume` of
  `ConsensusLedger`, the constants of `MCLedger.cfg` with 3 generations). The
  second is bound to the task but revises a generation that never initialized it
  (`consensus-ledger.ts:91`). `test/consensus-workflow.test.ts:154`: "explicit
  Continue into a revised generation resumes adaptive consensus without repeating
  confirmed turns".

Seen while modelling, with no text of the repository to hold against them:

* *Consultation.* With stops, a new execution can be admitted while the stopped
  one is still in its tail (`OneExecution` does not hold with them). A crash
  between the session's start and the recording of its generation leaves an
  active session that the recovery does not fence, as the record has no
  generation (`FinishedIsFenced` speaks of records that have one). A stop or
  failure whose fence rejects finishes the record over an active session
  (`FinishedIsFenced` excepts rejecting calls). A call of a `fail` that is not
  awaited and rejects is an unhandled rejection, which ends the process
  (`RunRejects`). A request id sent twice before the first record is saved may be
  executed twice, one after the other, or, when a stop or a recovery lets the second
  submission in, twice at once. A stop that writes late clears the active row of the
  next request, which no recovery finds then (`recovery` runs without stops). A call that rejects during admission leaves a *preparing* record that
  blocks later requests until it is stopped or the process restarts.
* *PhasedConsilium.* A crash between the final message and the closing leaves a
  complete generation, which a later resumption finalizes again: the session then
  has two final recommendations (`OneFinal`, with the constants of
  `MCPhased.cfg`).
* *Archive.* An archive whose fence was rejected may be partial, and one whose
  process died between staging and committing stays staged (`ArchiveIsWhole` and
  `FencedIsArchived` except these).
* *OwnerAccess.* A process that has never written the row may still put back its
  older configuration when it starts a sign-in, after a newer process has taken
  over. `RevocationIsTotal` counts that as a change of configuration.
* *Catalogue.* A load that has read the row before a reset or a refresh puts the
  old receipt back into memory afterwards. It serves until it expires.
* *CodexServer.* A process found unresponsive may still be closing while the next
  one is launched, refreshes the credential and is retired. The older one's late
  persist then overwrites the newer credential: both are of one epoch
  (`codex-app-server-process.ts:183`). `RetirementKeepsCredential` excepts it.
* *Lifecycle.* A stop that overtakes start-up leaves a consultation service made
  after the stop looked for one; it ends with the process.

## 6. What is not modelled, and why

* *Cryptography, formatting, prompts, parsing of model answers beyond their
  outcome, the UI, cost reports and scripts*: no protocol of their own. Hashes
  appear as equality.
* *MySQL itself*: a transaction is atomic and isolated, and a committed one stays.
* *Several server processes on one database*: `OwnerAccess` has two. For
  consultations the lock excludes a second executor, and section 5 says where it
  fails to; the second process itself is left out.
* *Time*: a timeout is a call that rejects, at any moment; lifetimes end at any
  moment. Only `Lifecycle` counts it, because its property is about bounds that
  must fit into each other.
* *Instruction documents*: each operation is one transaction over a pointer and
  the version it points to, with nothing between that a test would not reach.
* *Intake, preflight, capability checks, content policy*: pure decisions before a
  consultation; their failure is an outcome in the models.
* *Routes, gateway, cookies, action tokens, rate limits*: one request, one answer.
* *The archive's read-only export*: it changes nothing.

## 7. Plan

Done: the modules above with their runs, and the theorems of section 4.

Every safety invariant and action property of the runs is proved. Next: an
abstract specification of a consultation (one outcome, never revised), with
`Consultation` shown to implement it as far as section 5 allows.
