--------------------------- MODULE ExecutionProofs ---------------------------
(***************************************************************************)
(* Theorems about one operation of the consilium runtime, for any number   *)
(* of roles and turns.                                                     *)
(***************************************************************************)
EXTENDS Execution, TLAPS

-----------------------------------------------------------------------------
(***************************************************************************)
(* The inductive invariant.                                                *)
(***************************************************************************)
Run ==
  [at : {"idle", "checking", "preparing", "routing", "cleaning", "returned"},
   kind : {"none", "consilium", "plan", "utility"}, aborted : BOOLEAN, cleaning : BOOLEAN,
   closing : BOOLEAN]

ThreadState ==
  [at : {"none", "starting", "held", "failed", "interrupting", "unsubscribing", "gone"},
   workspace : BOOLEAN, released : BOOLEAN]

TurnState ==
  [at : {"idle", "staging", "starting", "waiting", "interrupting"}, buffered : BOOLEAN,
   cancelled : BOOLEAN,
   result : {"none", "ok", "turn_failed", "turn_cancelled", "transport_error"}]

CommandState ==
  [at : {"idle", "spawning", "running", "terminating"}, step : {"none", "inspect", "critique"},
   directory : BOOLEAN]

TypeInv ==
  /\ run \in Run
  /\ conn \in {"open", "retired", "dead"}
  /\ thread \in [Threads -> ThreadState]
  /\ turn \in [Threads -> TurnState]
  /\ remote \in [Threads -> {"none", "running", "stopped", "ended"}]
  /\ command \in CommandState

\* There is no thread before the operation prepares, and none when it has returned; a
\* thread that is not there has no workspace.
ThreadInv ==
  \A i \in Threads :
    /\ run.at \in {"idle", "checking"} => thread[i].at = "none"
    /\ run.at = "returned" => thread[i].at \in {"none", "failed", "gone"}
    /\ thread[i].at \in {"none", "failed", "gone"} => ~thread[i].workspace

\* Turns and commands are taken only while the router runs, and a command that is over
\* has left no directory.
RouterInv ==
  /\ run.at # "routing" => (\A i \in Threads : ~IsBusy(i)) /\ command.at = "idle"
  /\ command.at = "idle" => ~command.directory

\* What the client knows of a turn, and what really runs.  A completion that has come
\* before the answer is kept with the turn.
RemoteInv ==
  \A i \in Threads :
    /\ turn[i].at = "idle" /\ conn = "open" => remote[i] # "running"
    /\ turn[i].at = "staging" => remote[i] = "none" /\ ~turn[i].buffered
    /\ turn[i].at = "starting" => (turn[i].buffered <=> remote[i] = "ended")
    /\ turn[i].at = "waiting" => remote[i] # "ended"

ExecutionInv == TypeInv /\ ThreadInv /\ RouterInv /\ RemoteInv

-----------------------------------------------------------------------------
(***************************************************************************)
(* The steps that change one part of the state, or none.                   *)
(***************************************************************************)
\* The threads are let go, with their workspaces until they are gone.
LEMMA CleanedUpThreads ==
  ASSUME thread \in [Threads -> ThreadState]
  PROVE  /\ CleanedUp \in [Threads -> ThreadState]
         /\ \A i \in Threads :
              /\ CleanedUp[i].workspace = thread[i].workspace
              /\ CleanedUp[i].at = thread[i].at
                 \/ (thread[i].at = "held" /\ CleanedUp[i].at \in {"interrupting", "unsubscribing"})
<1>1. ASSUME NEW i \in Threads
      PROVE  /\ CleanedUp[i] \in ThreadState
             /\ CleanedUp[i].workspace = thread[i].workspace
             /\ CleanedUp[i].at = thread[i].at
                \/ (thread[i].at = "held" /\ CleanedUp[i].at \in {"interrupting", "unsubscribing"})
  <2>1. thread[i] \in ThreadState
    BY <1>1
  <2>2. CASE thread[i].at # "held"
    BY <2>1, <2>2 DEF CleanedUp
  <2>3. CASE thread[i].at = "held"
    <3> DEFINE r == [thread[i] EXCEPT !.released = TRUE,
                       !.at = IF IsKnown(i) THEN "interrupting" ELSE "unsubscribing"]
    <3>1. CleanedUp[i] = r
      BY <2>3 DEF CleanedUp
    <3>2. r \in ThreadState /\ r.workspace = thread[i].workspace
          /\ r.at \in {"interrupting", "unsubscribing"}
      BY <2>1 DEF ThreadState
    <3> QED
      BY <2>3, <3>1, <3>2
  <2> QED
    BY <2>2, <2>3
<1>2. CleanedUp \in [Threads -> ThreadState]
  <2>1. CleanedUp = [i \in Threads |-> CleanedUp[i]]
    BY DEF CleanedUp
  <2> QED
    BY <1>1, <2>1
<1> QED
  BY <1>1, <1>2

\* A step of the operation: its progress changes, threads may be let go.
LEMMA RunStep ==
  ASSUME ExecutionInv, NEW r \in Run, run' = r,
         UNCHANGED <<conn, turn, remote, command>>,
         thread' = thread \/ thread' = CleanedUp,
         r.at \in {"idle", "checking"} => run.at \in {"idle", "checking"} /\ thread' = thread,
         r.at = "returned" =>
           /\ thread' = thread
           /\ \A i \in Threads : thread[i].at \in {"none", "failed", "gone"},
         r.at # "routing" => (\A i \in Threads : ~IsBusy(i)) /\ command.at = "idle"
  PROVE  ExecutionInv'
<1>0. TypeInv /\ ThreadInv /\ RouterInv /\ RemoteInv
  BY DEF ExecutionInv
<1>1. /\ thread' \in [Threads -> ThreadState]
      /\ \A i \in Threads :
           /\ thread'[i].workspace = thread[i].workspace
           /\ thread'[i].at = thread[i].at
              \/ (thread[i].at = "held" /\ thread'[i].at \in {"interrupting", "unsubscribing"})
  BY <1>0, CleanedUpThreads DEF TypeInv
<1>2. TypeInv'
  BY <1>0, <1>1 DEF TypeInv
<1>3. ThreadInv'
  BY <1>0, <1>1 DEF ThreadInv
<1>4. RouterInv'
  BY <1>0 DEF RouterInv, IsBusy
<1>5. RemoteInv'
  BY <1>0 DEF RemoteInv
<1> QED
  BY <1>2, <1>3, <1>4, <1>5 DEF ExecutionInv

\* A step of one thread while it is started or released.
LEMMA ThreadStep ==
  ASSUME ExecutionInv, NEW i \in Threads, NEW r \in ThreadState,
         thread' = [thread EXCEPT ![i] = r],
         UNCHANGED <<run, turn, command>>,
         conn' \in {"open", "retired", "dead"}, conn' = "open" => conn = "open",
         \/ UNCHANGED remote
         \/ remote' = [remote EXCEPT ![i] = IF @ = "running" THEN "stopped" ELSE @],
         run.at \notin {"idle", "checking"},
         run.at = "returned" => r.at \in {"none", "failed", "gone"},
         r.at \in {"none", "failed", "gone"} => ~r.workspace
  PROVE  ExecutionInv'
<1>0. TypeInv /\ ThreadInv /\ RouterInv /\ RemoteInv
  BY DEF ExecutionInv
<1>1. /\ thread' \in [Threads -> ThreadState] /\ thread'[i] = r
      /\ \A j \in Threads : j # i => thread'[j] = thread[j]
  BY <1>0 DEF TypeInv
<1>2. /\ remote' \in [Threads -> {"none", "running", "stopped", "ended"}]
      /\ \A j \in Threads :
           \/ remote'[j] = remote[j]
           \/ remote[j] = "running" /\ remote'[j] = "stopped"
  BY <1>0 DEF TypeInv
<1>3. TypeInv'
  BY <1>0, <1>1, <1>2 DEF TypeInv
<1>4. ThreadInv'
  BY <1>0, <1>1 DEF ThreadInv
<1>5. RouterInv'
  BY <1>0 DEF RouterInv, IsBusy
<1>6. RemoteInv'
  <2> SUFFICES ASSUME NEW j \in Threads
               PROVE  /\ turn[j].at = "idle" /\ conn' = "open" => remote'[j] # "running"
                      /\ turn[j].at = "staging" => remote'[j] = "none" /\ ~turn[j].buffered
                      /\ turn[j].at = "starting" => (turn[j].buffered <=> remote'[j] = "ended")
                      /\ turn[j].at = "waiting" => remote'[j] # "ended"
    BY DEF RemoteInv
  <2>1. CASE remote'[j] = remote[j]
    BY <1>0, <2>1 DEF RemoteInv
  <2>2. CASE remote[j] = "running" /\ remote'[j] = "stopped"
    BY <1>0, <2>2 DEF RemoteInv
  <2> QED
    BY <1>2, <2>1, <2>2
<1> QED
  BY <1>3, <1>4, <1>5, <1>6 DEF ExecutionInv

\* A step of one turn, in the client or in the server, while the router runs.
LEMMA TurnStep ==
  ASSUME ExecutionInv, NEW i \in Threads, NEW r \in TurnState,
         NEW far \in {"none", "running", "stopped", "ended"},
         turn' = [turn EXCEPT ![i] = r], remote' = [remote EXCEPT ![i] = far],
         UNCHANGED <<run, thread, command>>,
         conn' \in {"open", "retired", "dead"}, conn' = "open" => conn = "open",
         r.at # "idle" => run.at = "routing",
         r.at = "idle" /\ conn' = "open" => far # "running",
         r.at = "staging" => far = "none" /\ ~r.buffered,
         r.at = "starting" => (r.buffered <=> far = "ended"),
         r.at = "waiting" => far # "ended"
  PROVE  ExecutionInv'
<1>0. TypeInv /\ ThreadInv /\ RouterInv /\ RemoteInv
  BY DEF ExecutionInv
<1>1. /\ turn' \in [Threads -> TurnState] /\ turn'[i] = r
      /\ \A j \in Threads : j # i => turn'[j] = turn[j]
  BY <1>0 DEF TypeInv
<1>2. /\ remote' \in [Threads -> {"none", "running", "stopped", "ended"}] /\ remote'[i] = far
      /\ \A j \in Threads : j # i => remote'[j] = remote[j]
  BY <1>0 DEF TypeInv
<1>3. TypeInv'
  BY <1>0, <1>1, <1>2 DEF TypeInv
<1>4. ThreadInv'
  BY <1>0 DEF ThreadInv
<1>5. RouterInv'
  BY <1>0, <1>1 DEF RouterInv, IsBusy
<1>6. RemoteInv'
  <2> SUFFICES ASSUME NEW j \in Threads
               PROVE  /\ turn'[j].at = "idle" /\ conn' = "open" => remote'[j] # "running"
                      /\ turn'[j].at = "staging" => remote'[j] = "none" /\ ~turn'[j].buffered
                      /\ turn'[j].at = "starting" => (turn'[j].buffered <=> remote'[j] = "ended")
                      /\ turn'[j].at = "waiting" => remote'[j] # "ended"
    BY DEF RemoteInv
  <2>1. CASE j = i
    BY <1>1, <1>2, <2>1
  <2>2. CASE j # i
    BY <1>0, <1>1, <1>2, <2>2 DEF RemoteInv
  <2> QED
    BY <2>1, <2>2
<1> QED
  BY <1>3, <1>4, <1>5, <1>6 DEF ExecutionInv

\* A step of the critic's command.
LEMMA CommandStep ==
  ASSUME ExecutionInv, command' \in CommandState,
         UNCHANGED <<run, conn, thread, turn, remote>>,
         run.at # "routing" => command'.at = "idle",
         command'.at = "idle" => ~command'.directory
  PROVE  ExecutionInv'
BY DEF ExecutionInv, TypeInv, ThreadInv, RouterInv, RemoteInv, IsBusy

-----------------------------------------------------------------------------
(***************************************************************************)
(* The actions of the operation.                                           *)
(***************************************************************************)
\* Launch and the checks before anything is started.
LEMMA CheckSteps ==
  ASSUME ExecutionInv, Launch \/ ConsiliumChecked \/ PlanChecked \/ UtilityChecked
  PROVE  ExecutionInv'
<1>0. TypeInv /\ ThreadInv /\ RouterInv
  BY DEF ExecutionInv
<1>1. run' \in Run /\ run'.at \in {"checking", "preparing", "returned"} /\ run.at \in {"idle", "checking"}
  BY <1>0 DEF TypeInv, Run, Launch, ConsiliumChecked, PlanChecked, UtilityChecked, Checked
<1>2. UNCHANGED <<conn, thread, turn, remote, command>>
  BY DEF Launch, ConsiliumChecked, PlanChecked, UtilityChecked, Checked
<1> QED
  BY <1>0, <1>1, <1>2, RunStep DEF ThreadInv, RouterInv

\* Every role has its thread, or the launcher gives up.
LEMMA PreparedStep ==
  ASSUME ExecutionInv, Prepared
  PROVE  ExecutionInv'
<1>0. TypeInv /\ ThreadInv /\ RouterInv
  BY DEF ExecutionInv
<1>1. run' \in Run /\ run'.at \in {"routing", "cleaning"} /\ run.at = "preparing"
  BY <1>0 DEF TypeInv, Run, Prepared
<1>2. UNCHANGED <<conn, turn, remote, command>> /\ (thread' = thread \/ thread' = CleanedUp)
  BY DEF Prepared
<1> QED
  BY <1>0, <1>1, <1>2, RunStep DEF RouterInv

\* The signal of the operation is aborted, by its owner, the runtime or a crisis.
LEMMA AbortSteps ==
  ASSUME ExecutionInv, Abort \/ Close \/ StopRuntimes
  PROVE  ExecutionInv'
<1>0. TypeInv /\ ThreadInv /\ RouterInv
  BY DEF ExecutionInv
<1>1. run' \in Run /\ run'.at = run.at
  BY <1>0 DEF TypeInv, Run, Abort, Close, StopRuntimes, Aborts
<1>2. UNCHANGED <<conn, turn, remote, command>>
  BY DEF Abort, Close, StopRuntimes, Aborts
<1>3. thread' = thread \/ (thread' = CleanedUp /\ run.at = "routing")
  BY DEF Abort, Close, StopRuntimes, Aborts
<1> QED
  BY <1>0, <1>1, <1>2, <1>3, RunStep DEF ThreadInv, RouterInv

\* The router has returned, every turn and command with it.
LEMMA RoutedStep ==
  ASSUME ExecutionInv, Routed
  PROVE  ExecutionInv'
<1>0. TypeInv
  BY DEF ExecutionInv
<1>1. run' \in Run /\ run'.at = "cleaning"
  BY <1>0 DEF TypeInv, Run, Routed
<1>2. UNCHANGED <<conn, turn, remote, command>> /\ (thread' = thread \/ thread' = CleanedUp)
  BY DEF Routed
<1> QED
  BY <1>1, <1>2, RunStep DEF Routed

\* The operation returns when every thread is gone.
LEMMA ReturnStep ==
  ASSUME ExecutionInv, Return
  PROVE  ExecutionInv'
<1>0. TypeInv /\ RouterInv
  BY DEF ExecutionInv
<1>1. run' \in Run /\ run'.at = "returned"
  BY <1>0 DEF TypeInv, Run, Return
<1> QED
  BY <1>0, <1>1, RunStep DEF Return, RouterInv

\* The process dies.
LEMMA DiesStep ==
  ASSUME ExecutionInv, Dies
  PROVE  ExecutionInv'
BY DEF ExecutionInv, TypeInv, ThreadInv, RouterInv, RemoteInv, IsBusy, Dies

-----------------------------------------------------------------------------
(***************************************************************************)
(* The actions of a thread and of a turn.                                  *)
(***************************************************************************)
\* What an answer and a rejection do to the connection.
LEMMA Connections ==
  ASSUME TypeInv, Answered \/ Rejected
  PROVE  /\ conn' \in {"open", "retired", "dead"}
         /\ conn' = "open" => Answered /\ conn = "open"
BY DEF TypeInv, Answered, Rejected

\* A thread is started, in a workspace of its own.
LEMMA OpeningSteps ==
  ASSUME ExecutionInv, NEW i \in Threads, Opening(i)
  PROVE  ExecutionInv'
<1>0. TypeInv /\ ThreadInv /\ thread[i] \in ThreadState
  BY DEF ExecutionInv, TypeInv
<1>1. CASE Starting(i)
  <2> DEFINE r == [thread[i] EXCEPT !.at = "starting", !.workspace = TRUE]
  <2>1. r \in ThreadState /\ r.at = "starting" /\ thread' = [thread EXCEPT ![i] = r]
    BY <1>0, <1>1 DEF Starting, ThreadState
  <2> HIDE DEF r
  <2> QED
    BY <1>0, <1>1, <2>1, ThreadStep DEF Starting, TypeInv
<1>2. CASE Started(i)
  <2> DEFINE r == [thread[i] EXCEPT !.at = "held"]
  <2>1. r \in ThreadState /\ r.at = "held" /\ thread' = [thread EXCEPT ![i] = r]
    BY <1>0, <1>2 DEF Started, ThreadState
  <2>2. run.at \notin {"idle", "checking", "returned"}
    BY <1>0, <1>2 DEF Started, ThreadInv
  <2> HIDE DEF r
  <2> QED
    BY <1>0, <1>2, <2>1, <2>2, Connections, ThreadStep DEF Started
<1>3. CASE NotStarted(i)
  <2> DEFINE r == [thread[i] EXCEPT !.at = "failed", !.workspace = FALSE]
  <2>1. r \in ThreadState /\ r.at = "failed" /\ ~r.workspace /\ thread' = [thread EXCEPT ![i] = r]
    BY <1>0, <1>3 DEF NotStarted, ThreadState
  <2>2. run.at \notin {"idle", "checking", "returned"}
    BY <1>0, <1>3 DEF NotStarted, ThreadInv
  <2> HIDE DEF r
  <2> QED
    BY <1>0, <1>3, <2>1, <2>2, Connections, ThreadStep DEF NotStarted
<1> QED
  BY <1>1, <1>2, <1>3 DEF Opening

\* It is released: its turn is interrupted, and its workspace removed.
LEMMA ReleasingSteps ==
  ASSUME ExecutionInv, NEW i \in Threads, Releasing(i)
  PROVE  ExecutionInv'
<1>0. TypeInv /\ ThreadInv /\ thread[i] \in ThreadState
  BY DEF ExecutionInv, TypeInv
<1>1. thread[i].at \in {"interrupting", "unsubscribing"}
  BY DEF Releasing, ReleaseInterrupts, Released
<1>2. run.at \notin {"idle", "checking", "returned"}
  BY <1>0, <1>1 DEF ThreadInv
<1>3. CASE ReleaseInterrupts(i)
  <2> DEFINE r == [thread[i] EXCEPT !.at = "unsubscribing"]
  <2>1. r \in ThreadState /\ r.at = "unsubscribing" /\ thread' = [thread EXCEPT ![i] = r]
    BY <1>0, <1>3 DEF ReleaseInterrupts, ThreadState
  <2> HIDE DEF r
  <2>2. conn' \in {"open", "retired", "dead"} /\ (conn' = "open" => conn = "open")
    BY <1>0, <1>3, Connections DEF ReleaseInterrupts
  <2>3. \/ UNCHANGED remote
        \/ remote' = [remote EXCEPT ![i] = IF @ = "running" THEN "stopped" ELSE @]
    BY <1>3 DEF ReleaseInterrupts
  <2> QED
    BY <1>2, <1>3, <2>1, <2>2, <2>3, ThreadStep DEF ReleaseInterrupts
<1>4. CASE Released(i)
  <2> DEFINE r == [thread[i] EXCEPT !.at = "gone", !.workspace = FALSE]
  <2>1. r \in ThreadState /\ r.at = "gone" /\ ~r.workspace /\ thread' = [thread EXCEPT ![i] = r]
    BY <1>0, <1>4 DEF Released, ThreadState
  <2> HIDE DEF r
  <2> QED
    BY <1>0, <1>2, <1>4, <2>1, ThreadStep DEF Released, TypeInv
<1> QED
  BY <1>3, <1>4 DEF Releasing

\* A turn that ends leaves nothing running in the server, or a connection given up.
LEMMA EndsStep ==
  ASSUME ExecutionInv, NEW i \in Threads,
         NEW result \in {"ok", "turn_failed", "turn_cancelled", "transport_error"},
         NEW far \in {"none", "running", "stopped", "ended"},
         Ends(i, result), remote' = [remote EXCEPT ![i] = far],
         UNCHANGED <<run, thread, command>>,
         conn' \in {"open", "retired", "dead"}, conn' = "open" => conn = "open" /\ far # "running"
  PROVE  ExecutionInv'
<1> DEFINE r == [NoTurn EXCEPT !.result = result]
<1>1. r \in TurnState /\ r.at = "idle" /\ turn' = [turn EXCEPT ![i] = r]
  BY DEF Ends, NoTurn, TurnState
<1> HIDE DEF r
<1> QED
  BY <1>1, TurnStep

\* A turn begins, once the one before on its thread has ended.
LEMMA BeginsStep ==
  ASSUME ExecutionInv, NEW i \in Threads, TurnBegins(i)
  PROVE  ExecutionInv'
<1> DEFINE r == [NoTurn EXCEPT !.at = "staging"]
<1>1. r \in TurnState /\ r.at = "staging" /\ ~r.buffered /\ turn' = [turn EXCEPT ![i] = r]
  BY DEF TurnBegins, NoTurn, TurnState
<1> HIDE DEF r
<1> QED
  BY <1>1, TurnStep DEF TurnBegins, ExecutionInv, TypeInv

\* The steps of a turn in the client.
LEMMA TurningSteps ==
  ASSUME ExecutionInv, NEW i \in Threads, Turning(i)
  PROVE  ExecutionInv'
<1>0. /\ TypeInv /\ RouterInv /\ RemoteInv /\ turn[i] \in TurnState
      /\ remote[i] \in {"none", "running", "stopped", "ended"}
      /\ UNCHANGED <<run, thread, command>>
      /\ turn[i].at # "idle"
  BY DEF ExecutionInv, TypeInv, Turning, Staged, TurnStarted, TurnNotStarted, Cancel, Interrupted
<1>1. run.at = "routing"
  BY <1>0 DEF RouterInv, IsBusy
<1>2. remote = [remote EXCEPT ![i] = remote[i]]
  BY <1>0 DEF TypeInv
<1>3. CASE Staged(i)
  <2>0. remote[i] = "none" /\ remote' = remote /\ turn[i].at = "staging"
    BY <1>0, <1>3 DEF Staged, RemoteInv
  <2>1. CASE Ends(i, "turn_cancelled") /\ UNCHANGED conn
    BY <1>0, <1>2, <2>0, <2>1, EndsStep DEF TypeInv
  <2>2. CASE turn' = [turn EXCEPT ![i].at = "starting"] /\ UNCHANGED conn
    <3> DEFINE r == [turn[i] EXCEPT !.at = "starting"]
    <3>1. r \in TurnState /\ r.at = "starting" /\ turn' = [turn EXCEPT ![i] = r] /\ r.buffered = turn[i].buffered
      BY <1>0, <2>2 DEF TurnState
    <3>2. ~r.buffered
      BY <1>0, <2>0, <3>1 DEF RemoteInv
    <3>3. remote' = [remote EXCEPT ![i] = "none"] /\ conn' \in {"open", "retired", "dead"} /\ conn' = conn
      BY <1>0, <1>2, <2>0, <2>2 DEF TypeInv
    <3> HIDE DEF r
    <3> QED
      BY <1>0, <1>1, <3>1, <3>2, <3>3, TurnStep
  <2>3. CASE Ends(i, "transport_error") /\ Rejected
    BY <1>0, <1>2, <2>0, <2>3, Connections, EndsStep
  <2> QED
    BY <1>3, <2>1, <2>2, <2>3 DEF Staged
<1>4. CASE TurnStarted(i)
  <2>0. /\ remote' = remote /\ conn' = conn /\ conn = "open" /\ turn[i].at = "starting"
        /\ (turn[i].buffered <=> remote[i] = "ended")
    BY <1>0, <1>4 DEF TurnStarted, Answered, RemoteInv
  <2>1. CASE turn' = [turn EXCEPT ![i].at = "interrupting", ![i].cancelled = TRUE]
    <3> DEFINE r == [turn[i] EXCEPT !.at = "interrupting", !.cancelled = TRUE]
    <3>1. r \in TurnState /\ r.at = "interrupting" /\ turn' = [turn EXCEPT ![i] = r]
      BY <1>0, <2>1 DEF TurnState
    <3> HIDE DEF r
    <3> QED
      BY <1>0, <1>1, <1>2, <2>0, <3>1, TurnStep
  <2>2. CASE ~turn[i].buffered /\ turn' = [turn EXCEPT ![i].at = "waiting"]
    <3> DEFINE r == [turn[i] EXCEPT !.at = "waiting"]
    <3>1. r \in TurnState /\ r.at = "waiting" /\ turn' = [turn EXCEPT ![i] = r]
      BY <1>0, <2>2 DEF TurnState
    <3> HIDE DEF r
    <3> QED
      BY <1>0, <1>1, <1>2, <2>0, <2>2, <3>1, TurnStep
  <2>3. CASE turn[i].buffered /\ \E result \in {"ok", "turn_failed"} : Ends(i, result)
    BY <1>0, <1>2, <2>0, <2>3, EndsStep
  <2> QED
    BY <1>4, <2>1, <2>2, <2>3 DEF TurnStarted
<1>5. CASE TurnNotStarted(i)
  <2>1. remote' = remote /\ Ends(i, "transport_error") /\ Rejected
    BY <1>5 DEF TurnNotStarted
  <2>2. conn' \in {"retired", "dead"}
    BY <1>0, <2>1 DEF Rejected, TypeInv
  <2> QED
    BY <1>0, <1>2, <2>1, <2>2, EndsStep
<1>6. CASE Cancel(i)
  <2> DEFINE r == [turn[i] EXCEPT !.cancelled = TRUE,
                     !.at = IF turn[i].at = "waiting" THEN "interrupting" ELSE turn[i].at]
  <2>1. /\ r \in TurnState /\ r.at \in {"starting", "interrupting"} /\ turn' = [turn EXCEPT ![i] = r]
        /\ r.at = "starting" => turn[i].at = "starting" /\ r.buffered = turn[i].buffered
    BY <1>0, <1>6 DEF Cancel, TurnState
  <2>2. remote' = remote /\ conn' = conn
    BY <1>6 DEF Cancel
  <2> HIDE DEF r
  <2> QED
    BY <1>0, <1>1, <1>2, <2>1, <2>2, TurnStep DEF RemoteInv, TypeInv
<1>7. CASE Interrupted(i)
  <2>1. Ends(i, "turn_cancelled")
    BY <1>7 DEF Interrupted
  <2>2. CASE Answered /\ remote' = [remote EXCEPT ![i] = IF @ = "running" THEN "stopped" ELSE @]
    <3>1. PICK far \in {"none", "stopped", "ended"} :
            far = IF remote[i] = "running" THEN "stopped" ELSE remote[i]
      BY <1>0
    <3>2. remote' = [remote EXCEPT ![i] = far]
      BY <2>2, <3>1
    <3> QED
      BY <1>0, <2>1, <2>2, <3>2, Connections, EndsStep
  <2>3. CASE Rejected /\ UNCHANGED remote
    <3>1. conn' \in {"retired", "dead"}
      BY <1>0, <2>3 DEF Rejected, TypeInv
    <3> QED
      BY <1>0, <1>2, <2>1, <2>3, <3>1, EndsStep
  <2> QED
    BY <1>7, <2>2, <2>3 DEF Interrupted
<1> QED
  BY <1>3, <1>4, <1>5, <1>6, <1>7 DEF Turning

\* The server begins and ends the turn it was asked for.
LEMMA RemoteSteps ==
  ASSUME ExecutionInv, NEW i \in Threads, RemoteBegins(i) \/ RemoteEnds(i)
  PROVE  ExecutionInv'
<1>0. /\ TypeInv /\ RouterInv /\ RemoteInv /\ turn[i] \in TurnState /\ conn = "open" /\ conn' = conn
      /\ UNCHANGED <<run, thread, command>>
      /\ turn = [turn EXCEPT ![i] = turn[i]]
  BY DEF ExecutionInv, TypeInv, RemoteBegins, RemoteEnds
<1>1. turn[i].at # "idle"
  BY <1>0 DEF RemoteBegins, RemoteEnds, RemoteInv
<1>2. run.at = "routing"
  BY <1>0, <1>1 DEF RouterInv, IsBusy
<1>3. CASE RemoteBegins(i)
  BY <1>0, <1>2, <1>3, TurnStep DEF RemoteBegins, RemoteInv
<1>4. CASE RemoteEnds(i)
  <2>0. remote' = [remote EXCEPT ![i] = "ended"] /\ remote[i] = "running"
    BY <1>4 DEF RemoteEnds
  <2>1. CASE turn[i].at = "starting"
    <3> DEFINE r == [turn[i] EXCEPT !.buffered = TRUE]
    <3>1. r \in TurnState /\ r.at = "starting" /\ r.buffered = TRUE /\ turn' = [turn EXCEPT ![i] = r]
      BY <1>0, <1>4, <2>1 DEF RemoteEnds, TurnState
    <3> HIDE DEF r
    <3> QED
      BY <1>0, <1>2, <2>0, <3>1, TurnStep
  <2>2. CASE turn[i].at = "waiting"
    <3>1. PICK result \in {"ok", "turn_failed"} : Ends(i, result)
      BY <1>4, <2>2 DEF RemoteEnds
    <3> QED
      BY <1>0, <2>0, <3>1, EndsStep
  <2>3. CASE turn[i].at \notin {"starting", "waiting"}
    <3>1. turn' = turn /\ turn[i].at = "interrupting"
      BY <1>0, <1>1, <1>4, <2>0, <2>3 DEF RemoteEnds, RemoteInv, TurnState
    <3> QED
      BY <1>0, <1>2, <2>0, <3>1, TurnStep
  <2> QED
    BY <2>1, <2>2, <2>3
<1> QED
  BY <1>3, <1>4

\* The critic's command, from its inspection to the close of its child.
LEMMA CommandSteps ==
  ASSUME ExecutionInv, CritiqueBegins \/ CommandSpawns \/ CommandTerminates \/ ChildCloses
  PROVE  ExecutionInv'
<1>0. TypeInv /\ RouterInv
  BY DEF ExecutionInv
<1>1. run.at = "routing"
  BY <1>0 DEF RouterInv, CritiqueBegins, CommandSpawns, CommandTerminates, ChildCloses
<1>2. command' \in CommandState /\ (command'.at = "idle" => ~command'.directory)
  <2>1. CASE command' = NoCommand
    BY <2>1 DEF NoCommand, CommandState
  <2>2. CASE \E step \in {"inspect", "critique"} :
               command' = [at |-> "spawning", step |-> step, directory |-> TRUE]
    BY <2>2 DEF CommandState
  <2>3. CASE \E at \in {"running", "terminating"} : command' = [command EXCEPT !.at = at]
    BY <1>0, <2>3 DEF TypeInv, CommandState
  <2> QED
    BY <2>1, <2>2, <2>3
       DEF CritiqueBegins, CommandSpawns, CommandTerminates, ChildCloses, CommandOver
<1> QED
  BY <1>1, <1>2, CommandStep DEF CritiqueBegins, CommandSpawns, CommandTerminates, ChildCloses

-----------------------------------------------------------------------------
(***************************************************************************)
(* The invariant, and what it implies.                                     *)
(***************************************************************************)
\* It holds before the operation is launched, and every step keeps it.
LEMMA ExecutionInvariant == Spec => []ExecutionInv
<1>1. Init => ExecutionInv
  BY DEF Init, ExecutionInv, TypeInv, ThreadInv, RouterInv, RemoteInv, IsBusy, NoThread, NoTurn,
         NoCommand, Run, ThreadState, TurnState, CommandState
<1>2. ExecutionInv /\ [Next]_vars => ExecutionInv'
  <2> SUFFICES ASSUME ExecutionInv, [Next]_vars
               PROVE  ExecutionInv'
    OBVIOUS
  <2>1. CASE UNCHANGED vars
    BY <2>1 DEF ExecutionInv, TypeInv, ThreadInv, RouterInv, RemoteInv, IsBusy, vars
  <2>2. ASSUME NEW i \in Threads,
               \/ Opening(i) \/ Releasing(i)
               \/ TurnBegins(i) \/ Turning(i) \/ RemoteBegins(i) \/ RemoteEnds(i)
        PROVE  ExecutionInv'
    BY <2>2, OpeningSteps, ReleasingSteps, BeginsStep, TurningSteps, RemoteSteps
  <2> QED
    BY <2>1, <2>2, CheckSteps, PreparedStep, AbortSteps, RoutedStep, ReturnStep, DiesStep,
       CommandSteps DEF Next
<1> QED
  BY <1>1, <1>2, PTL DEF Spec

\* A turn that has returned is not running in the server, unless its connection was
\* given up.
THEOREM NoTurnIsLeft == Spec => []NoOrphanTurn
<1>1. ExecutionInv => NoOrphanTurn
  BY DEF ExecutionInv, RemoteInv, NoOrphanTurn, IsBusy
<1> QED
  BY <1>1, ExecutionInvariant, PTL

\* An operation that has returned holds no thread, workspace, turn, child or directory.
THEOREM AllIsReleased == Spec => []EverythingReleased
<1>1. ExecutionInv => EverythingReleased
  BY DEF ExecutionInv, ThreadInv, RouterInv, EverythingReleased, IsOver
<1> QED
  BY <1>1, ExecutionInvariant, PTL

\* No turn waits for a completion that has come.
THEOREM CompletionsAreSeen == Spec => []NoCompletionMissed
<1>1. ExecutionInv => NoCompletionMissed
  BY DEF ExecutionInv, RemoteInv, NoCompletionMissed
<1> QED
  BY <1>1, ExecutionInvariant, PTL

=============================================================================
