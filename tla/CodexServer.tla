----------------------------- MODULE CodexServer -----------------------------
(***************************************************************************)
(* The managed app-server process and its credential                       *)
(* (src/godaddy/codex-app-server-process.ts): one child process at a time, *)
(* started on demand with the credential the vault holds, whose refreshed  *)
(* credential is written back, and which is retired when it dies, closed   *)
(* when a turn finds it unresponsive, reset by the owner, and closed with  *)
(* the application.  Every await is a step; the code between two awaits is *)
(* one action.  Vault operations go one by one through a queue; the read   *)
(* of the vault by a launch does not.                                      *)
(*                                                                         *)
(* Credentials are numbered in the order the provider issues them; 0 is    *)
(* none.  Encryption, the wire format and model names are left out.  The   *)
(* two microtasks of onUnresponsive, its test and its closing, are one     *)
(* step.                                                                   *)
(***************************************************************************)
EXTENDS Naturals, Sequences, FiniteSets

CONSTANTS
  Probes,          \* callers of inspectSubscription or startDeviceAuthorization
  Turns,           \* callers of getThreadClient, for a turn
  MaxIssued,       \* bound on the credentials ever issued
  MaxLosses        \* bound on deaths, failed launches and unresponsive turns

ASSUME CodexAssumption == {MaxIssued, MaxLosses} \subseteq Nat /\ Probes \cap Turns = {}

VARIABLES
  child,           \* children launched, in order
  active,          \* the child of the cached promise, or 0
  recovering,      \* the child being retired by the recovery gate, or 0
  closed,          \* close() was called
  epoch,           \* authEpoch
  queue,           \* credential operations, the first one in progress
  vault,           \* the credential stored
  writer,          \* the epoch of the child that wrote it
  issued,          \* credentials issued so far
  call,            \* what each caller is doing
  reset,           \* the owner's resetAuthorization
  closing,         \* the progress of close()
  losses

vars == <<child, active, recovering, closed, epoch, queue, vault, writer, issued,
          call, reset, closing, losses>>

Calls == Probes \cup Turns
Idle == [at |-> "idle", child |-> 0, attempt |-> 0]

Init ==
  /\ child = <<>>
  /\ active = 0
  /\ recovering = 0
  /\ closed = FALSE
  /\ epoch = 0
  /\ queue = <<>>
  /\ vault = 1
  /\ writer = 0
  /\ issued = 1
  /\ call = [c \in Calls |-> Idle]
  /\ reset = [at |-> "idle", child |-> 0, upTo |-> 0, ok |-> FALSE]
  /\ closing = [at |-> "idle", child |-> 0]
  /\ losses = 0

-----------------------------------------------------------------------------
Children == DOMAIN child
IsPending(k) == child[k].state \in {"reading", "starting"}
IsOver(k) == child[k].state \in {"failed", "gone"}

\* isAlive: the process runs and its connection was not closed.
IsAlive(k) == child[k].state = "ready"

NewChild ==
  [state |-> "reading", epoch |-> epoch, start |-> 0, auth |-> 0, fate |-> "kept", why |-> "none"]

PersistOp(k, by) ==
  [kind |-> "persist", child |-> k, epoch |-> child[k].epoch, by |-> by, value |-> 0]

IsQueued(by) == \E i \in DOMAIN queue : queue[i].by = by

Lose == losses < MaxLosses /\ losses' = losses + 1

\* What closeActive does when its child's promise is settled, and what it does at
\* once: persist if asked to and there is a child, then close the client and kill
\* the process.
Fate(k, persist) ==
  IF IsPending(k) THEN IF persist THEN "await, persist" ELSE "await, kill"
  ELSE IF persist /\ child[k].state # "failed" THEN "persist" ELSE "kill"

\* closeActive: the cached promise is dropped before anything is awaited.
CloseActive(persist, why) ==
  /\ active' = 0
  /\ IF active = 0 THEN UNCHANGED <<child, queue>>
     ELSE /\ child' = [child EXCEPT ![active].fate = Fate(active, persist), ![active].why = why]
          /\ queue' = IF Fate(active, persist) = "persist"
                      THEN Append(queue, PersistOp(active, <<"child", active>>)) ELSE queue

Move(c, at) == call' = [call EXCEPT ![c].at = at]

-----------------------------------------------------------------------------
\* An operation begins: a probe, a login, or a turn on a thread.
Enter(c) ==
  /\ call[c].at = "idle"
  /\ Move(c, "acquire")
  /\ UNCHANGED <<child, active, recovering, closed, epoch, queue, vault, writer, issued,
                 reset, closing, losses>>

\* Mutant: the recovery in progress is not waited for.
Acquire_NoGate(c) ==
  /\ call[c].at = "acquire"
  /\ IF closed
     THEN Move(c, "done") /\ UNCHANGED <<child, active>>
     ELSE IF active # 0
     THEN /\ call' = [call EXCEPT ![c].at = "await", ![c].child = active]
          /\ UNCHANGED <<child, active>>
     ELSE /\ child' = Append(child, NewChild)
          /\ active' = Len(child) + 1
          /\ call' = [call EXCEPT ![c].at = "launch", ![c].child = Len(child) + 1]
  /\ UNCHANGED <<recovering, closed, epoch, queue, vault, writer, issued,
                 reset, closing, losses>>

\* getActive, after the recovery in progress: refused, the cached child, or a new one.
Acquire(c) ==
  /\ call[c].at = "acquire"
  /\ recovering = 0
  /\ IF closed
     THEN Move(c, "done") /\ UNCHANGED <<child, active>>
     ELSE IF active # 0
     THEN /\ call' = [call EXCEPT ![c].at = "await", ![c].child = active]
          /\ UNCHANGED <<child, active>>
     ELSE /\ child' = Append(child, NewChild)
          /\ active' = Len(child) + 1
          /\ call' = [call EXCEPT ![c].at = "launch", ![c].child = Len(child) + 1]
  /\ UNCHANGED <<recovering, closed, epoch, queue, vault, writer, issued,
                 reset, closing, losses>>

\* Mutant: a failed launch drops whatever promise is cached by then.
Failed_DropsAny(c) ==
  /\ child[call[c].child].state = "failed"
  /\ active' = 0
  /\ Move(c, "done")
  /\ UNCHANGED <<child, recovering, closed, epoch, queue, vault, writer, issued,
                 reset, closing, losses>>

\* The launch the caller waited for has failed: its promise is not kept.
Failed(c) ==
  /\ child[call[c].child].state = "failed"
  /\ active' = IF active = call[c].child THEN 0 ELSE active
  /\ Move(c, "done")
  /\ UNCHANGED <<child, recovering, closed, epoch, queue, vault, writer, issued,
                 reset, closing, losses>>

\* History: the gate lets one child be retired at a time, but not alone: an older
\* one, found unresponsive, may still be closing.
Retirement(k) == IF \A i \in 1..(k - 1) : IsOver(i) THEN "retired" ELSE "contested"

\* The cached child is there: use it, look again when it was replaced, or retire
\* it when it is dead, behind the gate.
Resolved(c) ==
  LET k == call[c].child
  IN  /\ ~IsPending(k) /\ child[k].state # "failed"
      /\ IF call[c].at = "launch" \/ (active = k /\ IsAlive(k))
         THEN Move(c, "have") /\ UNCHANGED <<child, active, recovering, queue>>
         ELSE IF active # k
         THEN Move(c, "acquire") /\ UNCHANGED <<child, active, recovering, queue>>
         ELSE /\ CloseActive(TRUE, Retirement(k))
              /\ recovering' = k
              /\ Move(c, "acquire")
      /\ UNCHANGED <<closed, epoch, vault, writer, issued, reset, closing, losses>>

Await(c) == call[c].at \in {"await", "launch"} /\ (Failed(c) \/ Resolved(c))

\* inspectSubscription: one more attempt if the child died during the probe,
\* else its credential is persisted.  A login does the same without a second
\* attempt; a turn, or a login that fails, just returns.  (verifyModelSelection is
\* a turn and then a call that acquires and persists, like a probe.)
Use(c) ==
  LET k == call[c].child
  IN  /\ call[c].at = "have"
      /\ \/ /\ c \in Probes /\ ~IsAlive(k) /\ call[c].attempt = 0
            /\ call' = [call EXCEPT ![c].at = "acquire", ![c].attempt = 1]
            /\ UNCHANGED queue
         \/ /\ c \in Probes /\ (IsAlive(k) \/ call[c].attempt = 1)
            /\ queue' = Append(queue, PersistOp(k, <<"call", c>>))
            /\ Move(c, "persist")
         \/ Move(c, "done") /\ UNCHANGED queue
      /\ UNCHANGED <<child, active, recovering, closed, epoch, vault, writer, issued,
                     reset, closing, losses>>

\* onUnresponsive: a turn closes the connection it was given, if it still is the
\* cached one, and waits for that.
Unresponsive(c) ==
  LET k == call[c].child
  IN  /\ call[c].at = "have" /\ c \in Turns
      /\ active = k
      /\ Lose
      /\ CloseActive(TRUE, "unresponsive")
      /\ Move(c, "closing")
      /\ UNCHANGED <<recovering, closed, epoch, vault, writer, issued, reset, closing>>

\* What the caller waited for has happened.
Finish(c) ==
  /\ \/ call[c].at = "persist" /\ ~IsQueued(<<"call", c>>)
     \/ call[c].at = "closing" /\ IsOver(call[c].child)
  /\ Move(c, "done")
  /\ UNCHANGED <<child, active, recovering, closed, epoch, queue, vault, writer, issued,
                 reset, closing, losses>>

-----------------------------------------------------------------------------
\* A launch reads the vault, and then starts the process and shakes hands.
LaunchReads(k) ==
  /\ child[k].state = "reading"
  /\ child' = [child EXCEPT ![k].state = "starting", ![k].start = vault, ![k].auth = vault]
  /\ UNCHANGED <<active, recovering, closed, epoch, queue, vault, writer, issued,
                 call, reset, closing, losses>>

LaunchEnds(k) ==
  /\ child[k].state = "starting"
  /\ child' = [child EXCEPT ![k].state = "ready"]
  /\ UNCHANGED <<active, recovering, closed, epoch, queue, vault, writer, issued,
                 call, reset, closing, losses>>

LaunchFails(k) ==
  /\ IsPending(k)
  /\ Lose
  /\ child' = [child EXCEPT ![k].state = "failed"]
  /\ UNCHANGED <<active, recovering, closed, epoch, queue, vault, writer, issued,
                 call, reset, closing>>

Dies(k) ==
  /\ child[k].state = "ready"
  /\ Lose
  /\ child' = [child EXCEPT ![k].state = "dead"]
  /\ UNCHANGED <<active, recovering, closed, epoch, queue, vault, writer, issued,
                 call, reset, closing>>

\* The child completes a login or refreshes its credential, and may say so: its
\* notification, while the client is open, persists the credential.
CredentialArrives(k) ==
  /\ child[k].state = "ready"
  /\ issued < MaxIssued
  /\ issued' = issued + 1
  /\ child' = [child EXCEPT ![k].auth = issued + 1]
  /\ \/ queue' = Append(queue, PersistOp(k, <<"notice">>))
     \/ UNCHANGED queue
  /\ UNCHANGED <<active, recovering, closed, epoch, vault, writer, call, reset, closing,
                 losses>>

\* The rest of closeActive: the promise is settled, the credential is persisted,
\* the process is killed and its directory removed.
CloseSettles(k) ==
  /\ child[k].fate \in {"await, persist", "await, kill"}
  /\ ~IsPending(k)
  /\ IF child[k].state # "failed" /\ child[k].fate = "await, persist"
     THEN /\ child' = [child EXCEPT ![k].fate = "persist"]
          /\ queue' = Append(queue, PersistOp(k, <<"child", k>>))
     ELSE child' = [child EXCEPT ![k].fate = "kill"] /\ UNCHANGED queue
  /\ UNCHANGED <<active, recovering, closed, epoch, vault, writer, issued, call, reset,
                 closing, losses>>

\* Mutant: the gate stays shut when the retired child is gone.
Kill_KeepsGate(k) ==
  /\ ~IsOver(k)
  /\ \/ child[k].fate = "kill"
     \/ child[k].fate = "persist" /\ ~IsQueued(<<"child", k>>)
  /\ child' = [child EXCEPT ![k].state = "gone"]
  /\ UNCHANGED <<active, recovering, closed, epoch, queue, vault, writer, issued, call, reset,
                 closing, losses>>

Kill(k) ==
  /\ ~IsOver(k)
  /\ \/ child[k].fate = "kill"
     \/ child[k].fate = "persist" /\ ~IsQueued(<<"child", k>>)
  /\ child' = [child EXCEPT ![k].state = "gone"]
  /\ recovering' = IF recovering = k THEN 0 ELSE recovering
  /\ UNCHANGED <<active, closed, epoch, queue, vault, writer, issued, call, reset,
                 closing, losses>>

-----------------------------------------------------------------------------
\* Mutant: a credential of any epoch is persisted.
Prepare_AnyEpoch ==
  LET op == Head(queue)
  IN  /\ queue # <<>> /\ op.kind = "persist" /\ op.value = 0
      /\ queue' = IF child[op.child].auth # 0 /\ child[op.child].state # "gone"
                  THEN [queue EXCEPT ![1].value = child[op.child].auth] ELSE Tail(queue)
      /\ UNCHANGED <<child, active, recovering, closed, epoch, vault, writer, issued,
                     call, reset, closing, losses>>

\* persist: nothing if the epoch has passed, before or after the child's file
\* is read, or if there is no credential in it.
Prepare ==
  LET op == Head(queue)
  IN  /\ queue # <<>> /\ op.kind = "persist" /\ op.value = 0
      /\ queue' = IF /\ op.epoch = epoch
                     /\ child[op.child].auth # 0 /\ child[op.child].state # "gone"
                  THEN [queue EXCEPT ![1].value = child[op.child].auth] ELSE Tail(queue)
      /\ UNCHANGED <<child, active, recovering, closed, epoch, vault, writer, issued,
                     call, reset, closing, losses>>

\* The operation reaches the vault.
VaultChanges ==
  LET op == Head(queue)
  IN  /\ queue # <<>> /\ (op.kind = "clear" \/ op.value # 0)
      /\ vault' = op.value
      /\ writer' = op.epoch
      /\ queue' = Tail(queue)
      /\ UNCHANGED <<child, active, recovering, closed, epoch, issued, call, reset,
                     closing, losses>>

VaultFails ==
  LET op == Head(queue)
  IN  /\ queue # <<>> /\ (op.kind = "clear" \/ op.value # 0)
      /\ queue' = Tail(queue)
      /\ child' = IF op.kind = "persist" /\ child[op.child].why = "retired"
                  THEN [child EXCEPT ![op.child].why = "lost"] ELSE child
      /\ reset' = IF op.kind = "clear" THEN [reset EXCEPT !.ok = FALSE] ELSE reset
      /\ UNCHANGED <<active, recovering, closed, epoch, vault, writer, issued, call,
                     closing, losses>>

-----------------------------------------------------------------------------
\* resetAuthorization: a new epoch at once, then a logout of the cached child.
ResetBegins ==
  /\ reset.at = "idle" /\ closing.at = "idle"
  /\ epoch' = epoch + 1
  /\ reset' = [at |-> "logout", child |-> active, upTo |-> issued, ok |-> TRUE]
  /\ UNCHANGED <<child, active, recovering, closed, queue, vault, writer, issued, call,
                 closing, losses>>

\* The logout is answered, or fails; closeActive(false) follows in both cases.
\* The child forgets its credential if it was logged out.
ResetLogsOut(isAnswered) ==
  LET k == reset.child
  IN  /\ reset.at = "logout"
      /\ k # 0 => ~IsPending(k)
      /\ isAnswered => k # 0 /\ IsAlive(k)
      /\ active' = 0
      /\ child' = [j \in Children |->
                     [child[j] EXCEPT !.auth = IF isAnswered /\ j = k THEN 0 ELSE @,
                                      !.fate = IF j = active THEN Fate(j, FALSE) ELSE @,
                                      !.why = IF j = active THEN "reset" ELSE @]]
      /\ reset' = [reset EXCEPT !.at = "closing", !.child = active]
      /\ UNCHANGED <<recovering, closed, epoch, queue, vault, writer, issued, call,
                     closing, losses>>

ClearOp == [kind |-> "clear", child |-> 0, epoch |-> epoch, by |-> <<"reset">>, value |-> 0]

\* Mutant: the vault is cleared beside the queue.
ResetClears_AtOnce ==
  /\ reset.at = "closing"
  /\ reset.child # 0 => IsOver(reset.child)
  /\ vault' = 0
  /\ reset' = [reset EXCEPT !.at = "clearing"]
  /\ UNCHANGED <<child, active, recovering, closed, epoch, queue, writer, issued, call,
                 closing, losses>>

ResetClears ==
  /\ reset.at = "closing"
  /\ reset.child # 0 => IsOver(reset.child)
  /\ queue' = Append(queue, ClearOp)
  /\ reset' = [reset EXCEPT !.at = "clearing"]
  /\ UNCHANGED <<child, active, recovering, closed, epoch, vault, writer, issued, call,
                 closing, losses>>

ResetEnds ==
  /\ reset.at = "clearing" /\ ~IsQueued(<<"reset">>)
  /\ reset' = [reset EXCEPT !.at = "done"]
  /\ UNCHANGED <<child, active, recovering, closed, epoch, queue, vault, writer, issued,
                 call, closing, losses>>

-----------------------------------------------------------------------------
\* close: the callers' order (module Lifecycle) puts it after every turn and
\* every reset has returned; probes may still be under way.
CloseBegins ==
  /\ closing.at = "idle"
  /\ reset.at \in {"idle", "done"}
  /\ \A c \in Turns : call[c].at \in {"idle", "done"}
  /\ closed' = TRUE
  /\ closing' = [closing EXCEPT !.at = "recovery"]
  /\ UNCHANGED <<child, active, recovering, epoch, queue, vault, writer, issued, call,
                 reset, losses>>

\* Mutant: a recovery in progress is not waited for.
CloseProceeds_NoGate ==
  /\ closing.at = "recovery"
  /\ CloseActive(TRUE, "closed")
  /\ closing' = [at |-> "closing", child |-> active]
  /\ UNCHANGED <<recovering, closed, epoch, vault, writer, issued, call, reset, losses>>

CloseProceeds ==
  /\ closing.at = "recovery"
  /\ recovering = 0
  /\ CloseActive(TRUE, "closed")
  /\ closing' = [at |-> "closing", child |-> active]
  /\ UNCHANGED <<recovering, closed, epoch, vault, writer, issued, call, reset, losses>>

CloseEnds ==
  /\ closing.at = "closing"
  /\ closing.child # 0 => IsOver(closing.child)
  /\ closing' = [closing EXCEPT !.at = "done"]
  /\ UNCHANGED <<child, active, recovering, closed, epoch, queue, vault, writer, issued,
                 call, reset, losses>>

-----------------------------------------------------------------------------
Caller(c) == Acquire(c) \/ Await(c) \/ Use(c) \/ Finish(c)
Process(k) == LaunchReads(k) \/ LaunchEnds(k) \/ CloseSettles(k) \/ Kill(k)
Vault == Prepare \/ VaultChanges
Reset == ResetLogsOut(TRUE) \/ ResetLogsOut(FALSE) \/ ResetClears \/ ResetEnds
Close == CloseProceeds \/ CloseEnds

Next ==
  \/ \E c \in Calls : Enter(c) \/ Caller(c) \/ Unresponsive(c)
  \/ \E k \in Children : Process(k) \/ LaunchFails(k) \/ Dies(k) \/ CredentialArrives(k)
  \/ Vault \/ VaultFails
  \/ ResetBegins \/ Reset
  \/ CloseBegins \/ Close

Spec == Init /\ [][Next]_vars

\* Requests time out, processes start or fail to, a killed process exits, and
\* the database answers: every await ends.
FairSpec ==
  /\ Spec
  /\ \A c \in Calls : WF_vars(Caller(c))
  /\ \A k \in 1..(MaxLosses + 3) : WF_vars(k \in Children /\ Process(k))
  /\ WF_vars(Vault) /\ WF_vars(Reset) /\ WF_vars(Close)

-----------------------------------------------------------------------------
\* No process is lost: one that runs is the cached one, or somebody is closing it,
\* and none runs once close() has returned, whatever was being launched, retired
\* or probed when it was called.
EveryChildIsOwned ==
  \A k \in Children : ~IsOver(k) =>
    /\ active = k \/ child[k].fate # "kept"
    /\ closing.at # "done"

\* A process of the new epoch that started with a credential issued before the reset;
\* the first such process read the vault before it was cleared.
IsRelic(k) == child[k].epoch = epoch /\ child[k].start \in 1..reset.upTo

\* After a reset that reported success the vault holds nothing a process of the old
\* epoch wrote, though it was persisting when the reset began, and a credential the
\* owner wanted forgotten comes back in one way only: through a process launched
\* while the reset was under way.
ResetForgets ==
  reset.at = "done" /\ reset.ok /\ vault # 0 =>
    /\ writer = epoch
    /\ vault > reset.upTo \/ \E k \in Children : IsRelic(k)

\* Until the owner resets it, a process launched after a dead one was retired
\* starts with a credential at least as new as the last the dead process held.
\* (Not so if an older process was still being closed then: its epoch is the same,
\* and what it persists last may go over the newer credential.)
RetirementKeepsCredential ==
  reset.at = "idle" =>
    \A j, k \in Children :
      j < k /\ child[j].why = "retired" /\ child[k].state \in {"starting", "ready"}
      => child[k].start >= child[j].auth

\* What resetAuthorization says of itself, that no restart revives the credential; not
\* so, and checked by no configuration: a relic persists it over the cleared vault.
CredentialStaysCleared ==
  reset.at = "done" /\ reset.ok => vault = 0 \/ vault > reset.upTo

IsQuiet(at) == at \in {"idle", "done"}

\* Every operation, reset and close returns, however they meet: again and again
\* there is a moment when none is in progress.
EverythingReturns ==
  []<>(/\ \A c \in Calls : IsQuiet(call[c].at)
       /\ IsQuiet(reset.at)
       /\ IsQuiet(closing.at))
=============================================================================
