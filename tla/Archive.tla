------------------------------- MODULE Archive -------------------------------
(***************************************************************************)
(* The encrypted archive of a session                                      *)
(* (src/archive/archive-service.ts, src/godaddy/mysql-archive-storage.ts)  *)
(* and the calls that race for it: the close gate of the execution, the    *)
(* partial archive of a failed, stopped or recovered consultation, and the *)
(* owner's deletion.                                                       *)
(*                                                                         *)
(* One session is modelled: no operation relates the archives of two.  An  *)
(* archive row and a tombstone are separate tables; a seal reads and       *)
(* writes them in statements of their own, a deletion writes both in one   *)
(* transaction.  Each await ends a step of the call it belongs to.         *)
(*                                                                         *)
(* Abstracted: a transcript only grows, so its length stands for it and    *)
(* for its digest.  Encryption and the export, which writes nothing, are   *)
(* left out.  The execution publishes messages until it reaches the gate   *)
(* or fails; rejecting calls are the Fault actions.                        *)
(***************************************************************************)
EXTENDS Naturals

CONSTANTS
  Handlers,        \* HTTP handlers, serving Stop and deletion
  None,            \* no archive row
  MaxMessages,     \* bound on the messages of the session
  MaxFaults,       \* bound on the calls that reject
  MaxRestarts      \* bound on the crashes of the process

ASSUME ArchiveAssumption == MaxMessages \in Nat /\ MaxFaults \in Nat /\ MaxRestarts \in Nat
ASSUME CallersAssumption == "run" \notin Handlers

VARIABLES
  phase,           \* the session's phase
  length,          \* the number of its confirmed messages
  archive,         \* its archive row: lifecycle and number of messages, or None
  tombstone,       \* whether its tombstone row exists
  finished,        \* whether the request's record is finished
  call,            \* calls in progress, by handler or execution
  faults,          \* how many calls rejected
  restarts         \* how often the process was restarted

sessionVars == <<phase, length>>
archiveVars == <<archive, tombstone>>
boundVars == <<faults, restarts>>
vars == <<sessionVars, archiveVars, finished, call, boundVars>>

Run == "run"
Callers == {Run} \cup Handlers
Idle == [step |-> "idle", goal |-> "none", expected |-> 0, count |-> 0]

Init ==
  /\ phase = "active"
  /\ length = 0
  /\ archive = None
  /\ tombstone = FALSE
  /\ finished = FALSE
  /\ call = [c \in Callers |-> IF c = Run THEN [Idle EXCEPT !.step = "publish"] ELSE Idle]
  /\ faults = 0
  /\ restarts = 0

-----------------------------------------------------------------------------
At(c, step) == call[c].step = step
Goto(c, step) == call' = [call EXCEPT ![c].step = step]
GotoFor(c, step, goal) == call' = [call EXCEPT ![c].step = step, ![c].goal = goal]

\* A seal that succeeded lets the gate close the session.
Sealed(c) == IF call[c].goal = "gate" THEN Goto(c, "close") ELSE Goto(c, "record")

\* A refused gate fails the consultation, which then archives what there is; a
\* refused partial archive is ignored.
Refused(c) ==
  IF call[c].goal = "gate" THEN GotoFor(c, "fence", "partial") ELSE Goto(c, "record")

-----------------------------------------------------------------------------
Publish ==
  /\ At(Run, "publish")
  /\ phase = "active"
  /\ length < MaxMessages
  /\ length' = length + 1
  /\ UNCHANGED <<phase, archiveVars, finished, call, boundVars>>

\* The execution has published its answer and reads the active session for the
\* gate, or it fails.
RunEnds ==
  /\ At(Run, "publish")
  /\ \/ /\ phase = "active" /\ length > 0
        /\ call' = [call EXCEPT ![Run] = [step |-> "messages", goal |-> "gate",
                                          expected |-> length, count |-> 0]]
     \/ GotoFor(Run, "fence", "partial")
  /\ UNCHANGED <<sessionVars, archiveVars, finished, boundVars>>

\* Mutant: Stop archives the session without fencing it.
StopArrives_Unfenced(h) ==
  /\ At(h, "idle")
  /\ ~finished
  /\ GotoFor(h, "session", "partial")
  /\ UNCHANGED <<sessionVars, archiveVars, finished, boundVars>>

\* stop: the record is not finished.
StopArrives(h) ==
  /\ At(h, "idle")
  /\ ~finished
  /\ GotoFor(h, "fence", "partial")
  /\ UNCHANGED <<sessionVars, archiveVars, finished, boundVars>>

\* Stop and failure fence the session before they archive it.
Fence(c) ==
  /\ At(c, "fence")
  /\ phase' = IF phase = "active" THEN "stopped" ELSE phase
  /\ Goto(c, "session")
  /\ UNCHANGED <<length, archiveVars, finished, boundVars>>

\* A fence that rejects is ignored.
FenceRejects(c) ==
  /\ At(c, "fence")
  /\ faults < MaxFaults
  /\ faults' = faults + 1
  /\ Goto(c, "session")
  /\ UNCHANGED <<sessionVars, archiveVars, finished, restarts>>

\* seal of the service: the session row first, its messages in later reads.
ReadSession(c) ==
  /\ At(c, "session")
  /\ call' = [call EXCEPT ![c].step = "messages", ![c].expected = length]
  /\ UNCHANGED <<sessionVars, archiveVars, finished, boundVars>>

\* validSession: the messages must be those the session row counts.
ReadMessages(c) ==
  /\ At(c, "messages")
  /\ IF length = call[c].expected
     THEN call' = [call EXCEPT ![c].step = "check", ![c].count = length]
     ELSE Refused(c)
  /\ UNCHANGED <<sessionVars, archiveVars, finished, boundVars>>

-----------------------------------------------------------------------------
\* ArchiveService.seal
SealChecks(c) ==
  /\ At(c, "check")
  /\ IF tombstone THEN Refused(c) ELSE Goto(c, "look")
  /\ UNCHANGED <<sessionVars, archiveVars, finished, boundVars>>

Holds(lifecycle, count) == archive = [lifecycle |-> lifecycle, count |-> count]

\* Mutant: an archive that is only staged counts as sealed.
SealLooks_AcceptsStaged(c) ==
  /\ At(c, "look")
  /\ IF archive = None THEN Goto(c, "stage")
     ELSE IF archive.count = call[c].count THEN Sealed(c) ELSE Refused(c)
  /\ UNCHANGED <<sessionVars, archiveVars, finished, boundVars>>

\* An archive of the same transcript is a replay; one of another transcript, or
\* one that is only staged, refuses the seal.
SealLooks(c) ==
  /\ At(c, "look")
  /\ IF archive = None THEN Goto(c, "stage")
     ELSE IF Holds("committed", call[c].count) THEN Sealed(c) ELSE Refused(c)
  /\ UNCHANGED <<sessionVars, archiveVars, finished, boundVars>>

\* The insert fails on a row another call has inserted.
SealStages(c) ==
  /\ At(c, "stage")
  /\ IF archive = None
     THEN archive' = [lifecycle |-> "staged", count |-> call[c].count] /\ Goto(c, "commit")
     ELSE Refused(c) /\ UNCHANGED archive
  /\ UNCHANGED <<sessionVars, tombstone, finished, boundVars>>

\* Mutant: the row stays staged.
SealCommits_Not(c) ==
  /\ At(c, "commit")
  /\ Goto(c, "verify")
  /\ UNCHANGED <<sessionVars, archiveVars, finished, boundVars>>

SealCommits(c) ==
  /\ At(c, "commit")
  /\ archive' = IF archive # None THEN [archive EXCEPT !.lifecycle = "committed"] ELSE None
  /\ Goto(c, "verify")
  /\ UNCHANGED <<sessionVars, tombstone, finished, boundVars>>

SealVerifies(c) ==
  /\ At(c, "verify")
  /\ IF Holds("committed", call[c].count) THEN Sealed(c) ELSE Refused(c)
  /\ UNCHANGED <<sessionVars, archiveVars, finished, boundVars>>

\* A statement of the seal rejects, or its answer is lost.
SealRejects(c) ==
  /\ \E step \in {"session", "messages", "check", "look", "stage", "commit", "verify"} :
       At(c, step)
  /\ faults < MaxFaults
  /\ faults' = faults + 1
  /\ Refused(c)
  /\ UNCHANGED <<sessionVars, archiveVars, finished, restarts>>

\* The gate is passed: close the session, unless it was fenced meanwhile.
GateCloses ==
  /\ At(Run, "close")
  /\ IF phase = "active" THEN phase' = "closed" /\ Goto(Run, "record")
     ELSE GotoFor(Run, "fence", "partial") /\ UNCHANGED phase
  /\ UNCHANGED <<length, archiveVars, finished, boundVars>>

\* The record is written as completed, failed or stopped.
Record(c) ==
  /\ At(c, "record")
  /\ finished' = TRUE
  /\ call' = [call EXCEPT ![c] = Idle]
  /\ UNCHANGED <<sessionVars, archiveVars, boundVars>>

-----------------------------------------------------------------------------
\* deleteWholeSession: no tombstone, ...
DeleteArrives(h) ==
  /\ At(h, "idle")
  /\ ~tombstone
  /\ Goto(h, "find")
  /\ UNCHANGED <<sessionVars, archiveVars, finished, boundVars>>

\* ... a committed archive, ...
DeleteFinds(h) ==
  /\ At(h, "find")
  /\ IF archive # None /\ archive.lifecycle = "committed" THEN Goto(h, "drop")
     ELSE call' = [call EXCEPT ![h] = Idle]
  /\ UNCHANGED <<sessionVars, archiveVars, finished, boundVars>>

\* ... and in one transaction both again, and the row replaced by a tombstone.
DeleteDrops(h) ==
  /\ At(h, "drop")
  /\ IF ~tombstone /\ archive # None /\ archive.lifecycle = "committed"
     THEN tombstone' = TRUE /\ archive' = None
     ELSE UNCHANGED archiveVars
  /\ call' = [call EXCEPT ![h] = Idle]
  /\ UNCHANGED <<sessionVars, finished, boundVars>>

-----------------------------------------------------------------------------
\* The process dies and is started again; an unfinished consultation is failed.
Restart ==
  /\ restarts < MaxRestarts
  /\ restarts' = restarts + 1
  /\ call' = [c \in Callers |->
                IF c = Run /\ ~finished THEN [Idle EXCEPT !.step = "fence", !.goal = "partial"]
                ELSE Idle]
  /\ UNCHANGED <<sessionVars, archiveVars, finished, faults>>

Seals(c) ==
  \/ Fence(c) \/ ReadSession(c) \/ ReadMessages(c) \/ SealChecks(c) \/ SealLooks(c)
  \/ SealStages(c) \/ SealCommits(c) \/ SealVerifies(c) \/ Record(c)

Next ==
  \/ Publish \/ RunEnds \/ GateCloses \/ Restart
  \/ \E c \in Callers : Seals(c) \/ FenceRejects(c) \/ SealRejects(c)
  \/ \E h \in Handlers : StopArrives(h) \/ DeleteArrives(h) \/ DeleteFinds(h) \/ DeleteDrops(h)

\* Calls in progress continue: each statement returns or rejects.
Fairness ==
  /\ WF_vars(RunEnds) /\ WF_vars(GateCloses)
  /\ \A c \in Callers : WF_vars(Seals(c))

Spec == Init /\ [][Next]_vars /\ Fairness

-----------------------------------------------------------------------------
Archives == [lifecycle : {"staged", "committed"}, count : 0..MaxMessages]
ASSUME NoArchiveAssumption == None \notin Archives

Steps == {"idle", "publish", "messages", "fence", "session", "check", "look", "stage",
          "commit", "verify", "close", "record", "find", "drop"}

\* The rows and the calls in progress have their declared types, and only the
\* execution is ever at the gate.
ArchiveTypeOK ==
  /\ phase \in {"active", "stopped", "closed"}
  /\ length \in 0..MaxMessages
  /\ archive \in Archives \cup {None}
  /\ {tombstone, finished} \subseteq BOOLEAN
  /\ call \in [Callers -> [step : Steps, goal : {"none", "gate", "partial"},
                           expected : 0..MaxMessages, count : 0..MaxMessages]]
  /\ \A c \in Callers : (call[c].goal = "gate" \/ At(c, "close")) => c = Run
  /\ faults \in 0..MaxFaults /\ restarts \in 0..MaxRestarts

\* A session is closed only after the archive of its whole transcript was
\* committed; only the owner's deletion, which leaves a tombstone, removes it.
ClosedIsArchived ==
  phase = "closed" => tombstone \/ Holds("committed", length)

\* Whoever archived a fenced session, the archive has every message of it: no
\* partial archive was taken while the execution could still publish.  (When a
\* call rejects it may be the fence itself, whose rejection is ignored.)
ArchiveIsWhole ==
  /\ phase # "active" /\ faults = 0
  /\ archive # None /\ archive.lifecycle = "committed"
  => archive.count = length

\* Tombstones prevent deleted archives from being recreated.
TombstoneIsFinal == tombstone => archive = None

\* Unless a call rejects or the process dies, every fenced session has a
\* committed archive in the end, or the tombstone of one, though concurrent
\* seals refuse each other.
FencedIsArchived ==
  phase # "active" ~>
    tombstone \/ Holds("committed", length) \/ faults > 0 \/ restarts > 0
=============================================================================
