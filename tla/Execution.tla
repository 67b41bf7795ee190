------------------------------ MODULE Execution ------------------------------
(***************************************************************************)
(* One operation of the consilium runtime (godaddy/consilium-runtime.ts)   *)
(* on the shared app-server connection: the session launcher               *)
(* (src/consilium/session-launcher.ts) starts a thread for every role, the *)
(* router takes text turns on them (src/runtime/codex-thread-client.ts),   *)
(* several at a time, over JSON-RPC (src/runtime/json-rpc-client.ts), and  *)
(* every thread is released, also when the operation is aborted at any     *)
(* moment, a request fails, or its answer comes late or never.  A critic   *)
(* at Claude Code runs as a child process (godaddy/claude-code-process.ts).*)
(*                                                                         *)
(* A request is answered, or it is rejected: by the server, by its timeout *)
(* or because the connection is closed; a rejected one may still have been *)
(* served, and an answer that comes late is ignored.  Prompts and models'  *)
(* answers are left out, and so are the router's reasons to take a turn.   *)
(***************************************************************************)
EXTENDS Naturals, FiniteSets

CONSTANTS
  Roles,           \* the number of threads the operation starts
  MaxTurns         \* bound on the turns taken

ASSUME ExecutionAssumption == Roles \in Nat \ {0} /\ MaxTurns \in Nat

VARIABLES
  run,             \* the operation
  conn,            \* the connection: "open", or "retired" once found unresponsive, or "dead"
  thread,          \* the threads, by role
  turn,            \* the text turn of each thread
  remote,          \* that turn in the app-server
  command,         \* the critic's command, its child process and directory
  turns            \* turns taken so far

vars == <<run, conn, thread, turn, remote, command, turns>>

Threads == 1..Roles

NoThread == [at |-> "none", workspace |-> FALSE, released |-> FALSE]
NoCommand == [at |-> "idle", step |-> "none", directory |-> FALSE]
NoTurn == [at |-> "idle", buffered |-> FALSE, cancelled |-> FALSE, result |-> "none"]

Init ==
  /\ run = [at |-> "idle", kind |-> "none", aborted |-> FALSE, cleaning |-> FALSE,
            closing |-> FALSE]
  /\ conn = "open"
  /\ thread = [i \in Threads |-> NoThread]
  /\ turn = [i \in Threads |-> NoTurn]
  /\ remote = [i \in Threads |-> "none"]
  /\ command = NoCommand
  /\ turns = 0

-----------------------------------------------------------------------------
\* A consultation starts a thread for every role; a plan, the resumed synthesis, a
\* transcription and a translation take one turn on one thread.
IsConsilium == run.kind = "consilium"
Team == IF IsConsilium THEN Threads ELSE {1}

IsBusy(i) == turn[i].at # "idle"

\* The turn's id is in activeTurns.
IsKnown(i) == turn[i].at \in {"waiting", "interrupting"}

\* The signal of the operation, or its release, cancels the turns of thread i.
IsCancelled(i) == run.aborted \/ thread[i].released

Held == {i \in Threads : thread[i].at = "held"}

\* A request is answered: its timeout has not run out, the connection is open.
Answered == conn = "open" /\ UNCHANGED conn

\* It is rejected: by the server, its timeout, a send that fails or close(); and
\* onUnresponsive closes the whole connection, with every turn on it.
Rejected == conn' = IF conn = "open" THEN "retired" ELSE conn

\* cleanup, once: releaseThread of every thread held, which interrupts a turn
\* whose id is known.
CleanedUp ==
  [i \in Threads |->
     IF thread[i].at # "held" THEN thread[i]
     ELSE [thread[i] EXCEPT !.released = TRUE,
                            !.at = IF IsKnown(i) THEN "interrupting" ELSE "unsubscribing"]]

-----------------------------------------------------------------------------
\* launch: refused while the runtime closes, or the generation is running.
Launch ==
  /\ run.at = "idle" /\ ~run.closing
  /\ \E kind \in {"consilium", "plan", "utility"} :
       run' = [run EXCEPT !.at = "checking", !.kind = kind]
  /\ UNCHANGED <<conn, thread, turn, remote, command, turns>>

Checked(next) ==
  /\ run.at = "checking"
  /\ run' = [run EXCEPT !.at = next]
  /\ UNCHANGED <<conn, thread, turn, remote, command, turns>>

\* execute: the session, its settings and policy, the catalogue and the providers
\* are checked before a thread is started.
ConsiliumChecked == IsConsilium /\ \E next \in {"preparing", "returned"} : Checked(next)

\* plan: a bound task keeps its plan, and only its images need a turn.
PlanChecked == run.kind = "plan" /\ \E next \in {"preparing", "returned"} : Checked(next)

\* resumeFinalization, transcribeVoice and translateServiceMessages.
UtilityChecked == run.kind = "utility" /\ \E next \in {"preparing", "returned"} : Checked(next)

\* prepare: the next role's thread, in an owned workspace.
Starting(i) ==
  /\ run.at = "preparing" /\ ~run.aborted /\ i \in Team
  /\ thread[i].at = "none"
  /\ \A j \in 1..(i - 1) : thread[j].at = "held"
  /\ thread' = [thread EXCEPT ![i].at = "starting", ![i].workspace = TRUE]
  /\ UNCHANGED <<run, conn, turn, remote, command, turns>>

Started(i) ==
  /\ thread[i].at = "starting"
  /\ Answered
  /\ thread' = [thread EXCEPT ![i].at = "held"]
  /\ UNCHANGED <<run, turn, remote, command, turns>>

\* Mutant: the workspace of a thread that could not be started is kept.
NotStarted_KeepsWorkspace(i) ==
  /\ thread[i].at = "starting"
  /\ Answered \/ Rejected
  /\ thread' = [thread EXCEPT ![i].at = "failed"]
  /\ UNCHANGED <<run, turn, remote, command, turns>>

\* The answer is of a wrong form, and the thread unsubscribed; or there is none,
\* and the connection is retired.
NotStarted(i) ==
  /\ thread[i].at = "starting"
  /\ Answered \/ Rejected
  /\ thread' = [thread EXCEPT ![i].at = "failed", ![i].workspace = FALSE]
  /\ UNCHANGED <<run, turn, remote, command, turns>>

\* Every role has its thread: the router may run.  Else the launcher gives up.
Prepared ==
  /\ run.at = "preparing"
  /\ \A i \in Threads : thread[i].at # "starting"
  /\ \/ /\ Held = Team /\ ~run.aborted
        /\ run' = [run EXCEPT !.at = "routing"]
        /\ UNCHANGED thread
     \/ /\ run.aborted \/ \E i \in Threads : thread[i].at = "failed"
        /\ run' = [run EXCEPT !.at = "cleaning", !.cleaning = TRUE]
        /\ thread' = CleanedUp
  /\ UNCHANGED <<conn, turn, remote, command, turns>>

\* The operation's signal is aborted.  The threads of a consultation are released
\* at once from the router on; an operation of one turn lets it end first.
Aborts(closing) ==
  LET aborts == run.at \in {"checking", "preparing", "routing"}
      cleans == run.at = "routing" /\ IsConsilium /\ ~run.cleaning
  IN /\ run' = [run EXCEPT !.closing = closing,
                           !.aborted = @ \/ aborts, !.cleaning = @ \/ cleans]
     /\ thread' = IF cleans THEN CleanedUp ELSE thread

\* The operation is stopped, or its budget is spent.
Abort == Aborts(run.closing) /\ run' # run /\ UNCHANGED <<conn, turn, remote, command, turns>>

\* stopRuntimes, after a crisis: the other turns are aborted, nothing is released.
StopRuntimes ==
  /\ run.at = "routing" /\ IsConsilium /\ ~run.aborted
  /\ run' = [run EXCEPT !.aborted = TRUE]
  /\ UNCHANGED <<conn, thread, turn, remote, command, turns>>

\* Mutant: the router does not drain its batch.
Routed_Early ==
  /\ run.at = "routing"
  /\ run' = [run EXCEPT !.at = "cleaning", !.cleaning = TRUE]
  /\ thread' = IF run.cleaning THEN thread ELSE CleanedUp
  /\ UNCHANGED <<conn, turn, remote, command, turns>>

\* The router returns when its last batch has settled, whatever came of it.
Routed ==
  /\ run.at = "routing"
  /\ \A i \in Threads : ~IsBusy(i)
  /\ command.at = "idle"
  /\ run' = [run EXCEPT !.at = "cleaning", !.cleaning = TRUE]
  /\ thread' = IF run.cleaning THEN thread ELSE CleanedUp
  /\ UNCHANGED <<conn, turn, remote, command, turns>>

\* The operation returns, and leaves the map of running ones.
Return ==
  /\ run.at = "cleaning"
  /\ \A i \in Threads : thread[i].at \in {"none", "failed", "gone"}
  /\ run' = [run EXCEPT !.at = "returned"]
  /\ UNCHANGED <<conn, thread, turn, remote, command, turns>>

\* close: no further launch; a running operation is aborted, and waited for.
Close == ~run.closing /\ Aborts(TRUE) /\ UNCHANGED <<conn, turn, remote, command, turns>>

-----------------------------------------------------------------------------
\* releaseThread: the interrupt is answered, or the connection retired.
ReleaseInterrupts(i) ==
  /\ thread[i].at = "interrupting"
  /\ \/ Answered /\ remote' = [remote EXCEPT ![i] = IF @ = "running" THEN "stopped" ELSE @]
     \/ Rejected /\ UNCHANGED remote
  /\ thread' = [thread EXCEPT ![i].at = "unsubscribing"]
  /\ UNCHANGED <<run, turn, command, turns>>

\* thread/unsubscribe is answered or rejected, and the workspace goes.
Released(i) ==
  /\ thread[i].at = "unsubscribing"
  /\ thread' = [thread EXCEPT ![i].at = "gone", ![i].workspace = FALSE]
  /\ UNCHANGED <<run, conn, turn, remote, command, turns>>

-----------------------------------------------------------------------------
\* runTextTurn: refused on a released or busy thread, or under an aborted signal.
TurnBegins(i) ==
  /\ run.at = "routing" /\ ~IsCancelled(i) /\ ~IsBusy(i)
  /\ turns < MaxTurns
  /\ IsConsilium \/ (i \in Team /\ turns = 0)
  /\ turns' = turns + 1
  /\ turn' = [turn EXCEPT ![i] = [NoTurn EXCEPT !.at = "staging"]]
  /\ remote' = [remote EXCEPT ![i] = "none"]
  /\ UNCHANGED <<run, conn, thread, command>>

\* The turn returns; whoever takes the next one on this thread sees its result.
Ends(i, result) == turn' = [turn EXCEPT ![i] = [NoTurn EXCEPT !.result = result]]

\* The handshake is there and the images are staged: turn/start is sent, unless
\* the turn was cancelled.  Staging fails when the workspace is gone.
Staged(i) ==
  /\ turn[i].at = "staging"
  /\ \/ /\ IsCancelled(i)
        /\ Ends(i, "turn_cancelled")
        /\ UNCHANGED conn
     \/ /\ ~IsCancelled(i)
        /\ turn' = [turn EXCEPT ![i].at = "starting"]
        /\ UNCHANGED conn
     \/ /\ ~thread[i].workspace \/ conn # "open"
        /\ Ends(i, "transport_error")
        /\ Rejected
  /\ UNCHANGED <<run, thread, remote, command, turns>>

\* The app-server serves turn/start.
RemoteBegins(i) ==
  /\ conn = "open" /\ turn[i].at = "starting" /\ remote[i] = "none"
  /\ remote' = [remote EXCEPT ![i] = "running"]
  /\ UNCHANGED <<run, conn, thread, turn, command, turns>>

\* Mutant: a cancellation during the start is not looked for.
TurnStarted_IgnoresCancel(i) ==
  /\ conn = "open" /\ turn[i].at = "starting" /\ remote[i] # "none"
  /\ IF turn[i].buffered
     THEN \E result \in {"ok", "turn_failed"} : Ends(i, result)
     ELSE turn' = [turn EXCEPT ![i].at = "waiting"]
  /\ UNCHANGED <<run, conn, thread, remote, command, turns>>

\* Mutant: notifications that came before the answer are not looked at.
TurnStarted_NoReplay(i) ==
  /\ conn = "open" /\ turn[i].at = "starting" /\ remote[i] # "none"
  /\ \/ /\ IsCancelled(i) \/ turn[i].cancelled
        /\ turn' = [turn EXCEPT ![i].at = "interrupting", ![i].cancelled = TRUE]
     \/ /\ ~IsCancelled(i) /\ ~turn[i].cancelled
        /\ turn' = [turn EXCEPT ![i].at = "waiting"]
  /\ UNCHANGED <<run, conn, thread, remote, command, turns>>

\* turn/start is answered.  A cancelled turn, or one with too many notifications
\* already, is interrupted; else what came before the answer is looked at.
TurnStarted(i) ==
  /\ turn[i].at = "starting" /\ remote[i] # "none"
  /\ Answered
  /\ \/ /\ IsCancelled(i) \/ turn[i].cancelled \/ turn[i].buffered
        /\ turn' = [turn EXCEPT ![i].at = "interrupting", ![i].cancelled = TRUE]
     \/ /\ ~IsCancelled(i) /\ ~turn[i].cancelled
        /\ IF turn[i].buffered
           THEN \E result \in {"ok", "turn_failed"} : Ends(i, result)
           ELSE turn' = [turn EXCEPT ![i].at = "waiting"]
  /\ UNCHANGED <<run, thread, remote, command, turns>>

\* Mutant: an unanswered turn/start leaves the connection alone.
TurnNotStarted_KeepsConnection(i) ==
  /\ turn[i].at = "starting"
  /\ Ends(i, "transport_error")
  /\ UNCHANGED <<run, conn, thread, remote, command, turns>>

\* turn/start is rejected, timed out or answered in a wrong form: a turn nobody
\* can name may be running.
TurnNotStarted(i) ==
  /\ turn[i].at = "starting"
  /\ Ends(i, "transport_error")
  /\ Rejected
  /\ UNCHANGED <<run, thread, remote, command, turns>>

\* The remote turn ends and says so, to the turn that waits for it; a turn that
\* is cancelled already stays so.
RemoteEnds(i) ==
  /\ conn = "open" /\ remote[i] = "running"
  /\ remote' = [remote EXCEPT ![i] = "ended"]
  /\ CASE turn[i].at = "starting" -> turn' = [turn EXCEPT ![i].buffered = TRUE]
       [] turn[i].at = "waiting" -> \E result \in {"ok", "turn_failed"} : Ends(i, result)
       [] OTHER -> UNCHANGED turn
  /\ UNCHANGED <<run, conn, thread, command, turns>>

\* The signal, or the turn's own timeout, cancels it: at once if its id is not
\* known, else by an interrupt.
Cancel(i) ==
  /\ turn[i].at \in {"starting", "waiting"} /\ ~turn[i].cancelled
  /\ turn' = [turn EXCEPT ![i].cancelled = TRUE,
                          ![i].at = IF @ = "waiting" THEN "interrupting" ELSE @]
  /\ UNCHANGED <<run, conn, thread, remote, command, turns>>

\* Mutant: a failed interrupt is nobody's concern.
Interrupted_KeepsConnection(i) ==
  /\ turn[i].at = "interrupting"
  /\ \/ /\ conn = "open"
        /\ remote' = [remote EXCEPT ![i] = IF @ = "running" THEN "stopped" ELSE @]
     \/ UNCHANGED remote
  /\ Ends(i, "turn_cancelled")
  /\ UNCHANGED <<run, conn, thread, command, turns>>

\* The interrupt is answered, or the connection retired; then the turn returns.
Interrupted(i) ==
  /\ turn[i].at = "interrupting"
  /\ \/ Answered /\ remote' = [remote EXCEPT ![i] = IF @ = "running" THEN "stopped" ELSE @]
     \/ Rejected /\ UNCHANGED remote
  /\ Ends(i, "turn_cancelled")
  /\ UNCHANGED <<run, thread, command, turns>>

\* The process dies, and its turns with it; nobody is told.
Dies ==
  /\ conn = "open"
  /\ conn' = "dead"
  /\ UNCHANGED <<run, thread, turn, remote, command, turns>>

-----------------------------------------------------------------------------
\* ClaudeCodeCriticRuntime.run: the subscription is inspected, then the critique run.
CritiqueBegins ==
  /\ run.at = "routing" /\ IsConsilium /\ ~run.aborted
  /\ command.at = "idle" /\ turns < MaxTurns
  /\ turns' = turns + 1
  /\ command' = [at |-> "spawning", step |-> "inspect", directory |-> TRUE]
  /\ UNCHANGED <<run, conn, thread, turn, remote>>

\* The command is over: its directory goes, and the critique follows a fit inspection.
CommandOver(fit) ==
  command' = IF fit /\ command.step = "inspect"
             THEN [at |-> "spawning", step |-> "critique", directory |-> TRUE] ELSE NoCommand

\* The signal is passed to the critique only.
IsSignalled == run.aborted /\ command.step = "critique"

\* runClaudeCommand: the child is spawned, unless the signal is aborted already.
CommandSpawns ==
  /\ command.at = "spawning"
  /\ \/ ~IsSignalled /\ command' = [command EXCEPT !.at = "running"]
     \/ CommandOver(FALSE)
  /\ UNCHANGED <<run, conn, thread, turn, remote, turns>>

\* terminate: on the signal, too much output or a timeout; SIGKILL follows SIGTERM.
CommandTerminates ==
  /\ command.at = "running"
  /\ command' = [command EXCEPT !.at = "terminating"]
  /\ UNCHANGED <<run, conn, thread, turn, remote, turns>>

\* Mutant: the directory is removed only after a command that succeeded.
ChildCloses_KeepsDirectory ==
  /\ command.at \in {"running", "terminating"}
  /\ \/ command.at = "running" /\ CommandOver(TRUE)
     \/ command' = [NoCommand EXCEPT !.directory = TRUE]
  /\ UNCHANGED <<run, conn, thread, turn, remote, turns>>

\* The child closes, whether it was asked to or not, and execute returns.
ChildCloses ==
  /\ command.at \in {"running", "terminating"}
  /\ \/ command.at = "running" /\ CommandOver(TRUE)
     \/ CommandOver(FALSE)
  /\ UNCHANGED <<run, conn, thread, turn, remote, turns>>

-----------------------------------------------------------------------------
Opening(i) == Starting(i) \/ Started(i) \/ NotStarted(i)
Releasing(i) == ReleaseInterrupts(i) \/ Released(i)
Turning(i) == Staged(i) \/ TurnStarted(i) \/ TurnNotStarted(i) \/ Cancel(i) \/ Interrupted(i)

Next ==
  \/ Launch \/ ConsiliumChecked \/ PlanChecked \/ UtilityChecked
  \/ Prepared \/ Abort \/ StopRuntimes \/ Routed \/ Return \/ Close \/ Dies
  \/ \E i \in Threads : \/ Opening(i) \/ Releasing(i)
                        \/ TurnBegins(i) \/ Turning(i) \/ RemoteBegins(i) \/ RemoteEnds(i)
  \/ CritiqueBegins \/ CommandSpawns \/ CommandTerminates \/ ChildCloses

Spec == Init /\ [][Next]_vars

\* Every request is answered or times out, and so does every turn and command; a
\* child that is killed closes.
FairSpec ==
  /\ Spec
  /\ WF_vars(ConsiliumChecked \/ PlanChecked \/ UtilityChecked \/ Prepared \/ Routed \/ Return)
  /\ WF_vars(CommandSpawns \/ CommandTerminates)
  /\ WF_vars(command.at = "terminating" /\ ChildCloses)
  /\ \A i \in Threads : WF_vars(Opening(i)) /\ WF_vars(Releasing(i)) /\ WF_vars(Turning(i))

-----------------------------------------------------------------------------
IsOver == run.at = "returned"

\* A turn that has returned is not running in the app-server, unless its whole
\* connection was given up: not after an abort, a release or a timeout at any
\* moment of its start, nor after answers that came late or never.
NoOrphanTurn ==
  \A i \in Threads : ~IsBusy(i) /\ conn = "open" => remote[i] # "running"

\* When the operation has returned nothing of it is left: no thread is held, no
\* workspace exists, no turn is in progress, no child runs and no directory of one
\* exists.
EverythingReleased ==
  IsOver =>
    /\ \A i \in Threads : thread[i].at # "held" /\ ~thread[i].workspace /\ ~IsBusy(i)
    /\ command.at = "idle" /\ ~command.directory

\* A turn never waits for a completion that has come already, be it before the
\* answer that told its id.
NoCompletionMissed ==
  \A i \in Threads : turn[i].at = "waiting" => remote[i] # "ended"

\* Every operation launched returns, and with it close().
OperationReturns == run.at = "checking" ~> IsOver
=============================================================================
