--------------------------- MODULE ConsensusRouter ---------------------------
(***************************************************************************)
(* The adaptive consultation (src/consilium/consensus-router.ts), as the   *)
(* consilium runtime (src/godaddy/consilium-runtime.ts) launches it: a run *)
(* drives the consensus of one generation's task, turn after turn, over    *)
(* the ledger of module ConsensusLedger, until the task is concluded and   *)
(* its session closed behind an archive, or a turn is rejected.            *)
(*                                                                         *)
(* Every turn is reserved, put to its model, confirmed: three steps, the   *)
(* turns of a batch interleaved, with a Stop between any two of them.      *)
(* Models answer as they please, fail, or detect a crisis; a failed run    *)
(* may be repeated, in its generation or in one that continues it.         *)
(*                                                                         *)
(* The code keeps no program of its own between two reads of the state:    *)
(* what a run does next is a function of the state it has read, NextTurns. *)
(* Prompts, evidence, roster checks and the checks of the form of an       *)
(* answer are left out; an answer of a wrong form is a failure of its turn.*)
(***************************************************************************)
EXTENDS ConsensusLedger

LOCAL INSTANCE Functions

CONSTANTS
  Concurrency,     \* turns of one batch, from the speed policy
  MaxRuns,         \* bound on the runs ever launched
  MaxFaulted       \* bound on the generations in which calls fail

ASSUME RouterAssumption ==
  /\ Concurrency \in Nat \ {0} /\ {MaxRuns, MaxFaulted} \subseteq Nat
  /\ IsFiniteSet(Specialists)
ASSUME ResultAssumption == None \notin {"final", "unresolved", "safety_handoff", "failed"}

VARIABLES
  run,             \* runs, by generation: the one in progress or the latest
  turn,            \* turns in progress, by dispatch id
  archived,        \* messages sealed in the archive, by generation
  closed,          \* generations whose session a run has closed
  faulted          \* generations in which some call has failed or was aborted

routerVars == <<run, turn, archived, closed, faulted>>
allVars == <<vars, routerVars>>

RouterInit ==
  /\ Init
  /\ run = NoRows
  /\ turn = NoRows
  /\ archived = NoRows
  /\ closed = {}
  /\ faulted = {}

Confirmed(g) == {d \in DOMAIN dispatch \ Pending : d[1] = g}
TurnsOf(g) == {d \in DOMAIN turn : turn[d].run = g}
Running == {g \in DOMAIN run : run[g].live}
Launches == FoldFunction(+, 0, [g \in DOMAIN run |-> run[g].calls])

-----------------------------------------------------------------------------
\* The candidate is built from the current positions.
IsFresh(c) == c.proposal # None /\ c.proposal.positions = c.positions

\* currentReview: the agent has reviewed this very candidate for specialist s.
HasReviewed(c, agent, s) ==
  c.reviews[agent][s] # None /\ c.reviews[agent][s].proposal = c.proposal.body

Says(c, agent, s, decision) ==
  HasReviewed(c, agent, s) /\ c.reviews[agent][s].decision = decision

\* Specialists whose position a review of the candidate asks to revise, and who
\* have not revised it yet.
Asked(c) ==
  {s \in Specialists : /\ c.proposal # None
                       /\ c.positions[s] = c.proposal.positions[s]
                       /\ \E a \in Agents : Says(c, a, s, "revise")}

\* A disagreement that no further round is going to resolve.
IsHopeless(c) ==
  \/ \E s \in Specialists : c.counts[s] >= CriticCap
  \/ c.proposal # None /\ \E a \in Agents, s \in Specialists : Says(c, a, s, "unresolved")

\* Mutant: the turns of all generations share their ids.
TurnAt_AnyGeneration(c, g, kind, agent, targets) ==
  [id |-> DispatchId(1, kind, agent, TurnNumber(c, kind, agent)), run |-> g,
   body |-> Subject(c, kind), positions |-> c.positions, targets |-> targets,
   step |-> "reserve", outcome |-> None]

\* A turn a run is about to take, having read state c.
TurnAt(c, g, kind, agent, targets) ==
  [id |-> DispatchId(g, kind, agent, TurnNumber(c, kind, agent)), run |-> g,
   body |-> Subject(c, kind), positions |-> c.positions, targets |-> targets,
   step |-> "reserve", outcome |-> None]

\* Specialists the critic has yet to review, and may.
CriticTargets(c) ==
  {s \in Specialists : ~HasReviewed(c, CriticAgent, s) /\ c.counts[s] < CriticCap}

\* The turns that may be taken next, in state c.
NextTurns(c, g) ==
  LET silent == {s \in Specialists : c.positions[s] = 0}
      unassigned == {s \in silent : DispatchId(g, "assignment", s, 0) \notin Confirmed(g)}
      unheard == {s \in Specialists : ~HasReviewed(c, s, s)}
      allAgree == \A s \in Specialists : Says(c, s, s, "agree") /\ Says(c, CriticAgent, s, "agree")
      headSilent == \A s \in Specialists : ~HasReviewed(c, HeadAgent, s)
      each(kind, agents) == {TurnAt(c, g, kind, s, {s}) : s \in agents}
      joint(kind, agent, targets) == {TurnAt(c, g, kind, agent, targets)}
  IN  IF unassigned # {} THEN each("assignment", unassigned)
      ELSE IF silent # {} THEN each("position", silent)
      ELSE IF HasConsensus(c) THEN joint("final", HeadAgent, {})
      ELSE IF IsFresh(c) /\ unheard # {} THEN each("specialist_review", unheard)
      ELSE IF IsFresh(c) /\ CriticTargets(c) # {}
      THEN joint("critic_review", CriticAgent, CriticTargets(c))
      ELSE IF IsFresh(c) /\ allAgree /\ headSilent
      THEN joint("head_review", HeadAgent, Specialists)
      ELSE IF IsHopeless(c) THEN joint("unresolved", HeadAgent, Specialists)
      ELSE IF Asked(c) # {} THEN each("position", Asked(c))
      ELSE joint("proposal", HeadAgent, Specialists)

\* #batches: assignments go out one by one, other turns side by side, in the
\* order of the roster (an order that CHOOSE fixes).
Batch(turns) ==
  LET width == IF \E t \in turns : t.id[2] = "assignment" THEN 1 ELSE Concurrency
  IN  CHOOSE b \in SUBSET turns :
        Cardinality(b) = IF Cardinality(turns) < width THEN Cardinality(turns) ELSE width

-----------------------------------------------------------------------------
NewRun(g) ==
  [calls |-> IF g \in DOMAIN run THEN run[g].calls + 1 ELSE 1, live |-> TRUE,
   rejected |-> FALSE, result |-> None]

\* launch and the entry of run(): one run per generation at a time, of the
\* active session, whose consensus is new, carried over, or there already.
Launch(g) ==
  /\ g \notin Running
  /\ IsOpen(g)
  /\ Launches < MaxRuns
  /\ \/ \E t \in Tasks : Initialize(g, t)
     \/ \E sameTask, sameLanguage \in BOOLEAN : CarryOver(g, sameTask, sameLanguage)
     \/ /\ g \in DOMAIN task
        /\ consensus[task[g]].generation = g
        /\ UNCHANGED vars
  /\ run' = Put(run, g, NewRun(g))
  /\ UNCHANGED <<turn, archived, closed, faulted>>

\* The state is read, and the next batch begins, once the last is settled.
Begin(g) ==
  /\ g \in Running
  /\ ~run[g].rejected /\ run[g].result = None
  /\ TurnsOf(g) = {}
  /\ LET batch == Batch(NextTurns(consensus[task[g]], g))
     IN  turn' = [d \in DOMAIN turn \cup {t.id : t \in batch} |->
                    IF d \in DOMAIN turn THEN turn[d] ELSE CHOOSE t \in batch : t.id = d]
  /\ UNCHANGED <<vars, run, archived, closed, faulted>>

\* The turn is over; a rejected one ends the run, after the rest of its batch.
Settle(d, isRejected) ==
  /\ turn' = [x \in DOMAIN turn \ {d} |-> turn[x]]
  /\ run' = [run EXCEPT ![turn[d].run].rejected = @ \/ isRejected]

ReserveNext(d) ==
  LET t == turn[d]
  IN  /\ t.step = "reserve"
      /\ ReserveTurn(d, t.body, t.positions, t.targets)
      /\ turn' = [turn EXCEPT ![d].step = "model"]
      /\ UNCHANGED <<run, archived, closed, faulted>>

\* Mutant: a refused confirmation leaves the turn waiting.
Refused_AtReservation(d) ==
  /\ turn[d].step = "reserve" /\ ~MayReserve(d, turn[d].body, turn[d].targets)
  /\ Settle(d, TRUE)
  /\ UNCHANGED <<vars, archived, closed, faulted>>

\* The ledger refuses the reservation, or the confirmation.
Refused(d) ==
  /\ \/ turn[d].step = "reserve" /\ ~MayReserve(d, turn[d].body, turn[d].targets)
     \/ turn[d].step = "model" /\ ~MayConfirm(d, None, FALSE)
  /\ Settle(d, TRUE)
  /\ UNCHANGED <<vars, archived, closed, faulted>>

\* What the model may say: only reviews decide, and no crisis is found where
\* the code does not look for one.
MaySay(kind, decision, handOff) ==
  /\ kind \in Reviews => decision \in Decisions
  /\ kind \notin Reviews => decision = None
  /\ handOff => MayHandOff(kind, decision)

\* A call of the run fails, or is aborted.
Fault(g) ==
  /\ Cardinality(faulted \cup {g}) <= MaxFaulted
  /\ faulted' = faulted \cup {g}

\* A complete answer is confirmed and delivered; an outcome goes on to the gate.
Answer(d, body, decision, handOff) ==
  /\ turn[d].step = "model"
  /\ MaySay(d[2], decision, handOff)
  /\ Confirm(d, body, decision, handOff)
  /\ IF handOff \/ d[2] \in {"final", "unresolved"}
     THEN /\ turn' = [turn EXCEPT ![d].step = "seal",
                                  ![d].outcome = IF handOff THEN "safety_handoff" ELSE d[2]]
          /\ UNCHANGED run
     ELSE Settle(d, FALSE)
  /\ UNCHANGED <<archived, closed, faulted>>

\* The answer is confirmed, but afterConfirmed rejects.
AnswerUndelivered(d, body, decision, handOff) ==
  /\ turn[d].step = "model"
  /\ MaySay(d[2], decision, handOff)
  /\ Confirm(d, body, decision, handOff)
  /\ Settle(d, TRUE)
  /\ Fault(turn[d].run)
  /\ UNCHANGED <<archived, closed>>

\* The model fails, or answers in a wrong form; or the archive rejects.
Fail(d) ==
  /\ \/ turn[d].step = "model" /\ d[2] \notin {"assignment", "final"}
     \/ turn[d].step = "seal"
  /\ Settle(d, TRUE)
  /\ Fault(turn[d].run)
  /\ UNCHANGED <<vars, archived, closed>>

-----------------------------------------------------------------------------
\* beforeClose: the whole transcript is sealed.
Seal(d) ==
  LET g == turn[d].run
  IN  /\ turn[d].step = "seal"
      /\ IsOpen(g)
      /\ archived' = Put(archived, g, Confirmed(g))
      /\ turn' = [turn EXCEPT ![d].step = "close"]
      /\ UNCHANGED <<vars, run, closed, faulted>>

\* Mutant: the session is closed without its archive.
Close_Unsealed(d) ==
  LET g == turn[d].run
  IN  /\ turn[d].step \in {"seal", "close"}
      /\ IsOpen(g)
      /\ FenceSession
      /\ closed' = closed \cup {g}
      /\ turn' = [x \in DOMAIN turn \ {d} |-> turn[x]]
      /\ run' = [run EXCEPT ![g].result = turn[d].outcome,
                            ![g].rejected = @ \/ turn[d].outcome = "safety_handoff"]
      /\ UNCHANGED <<archived, faulted>>

\* closeSession, and the run has its result; after a handoff its turn throws.
Close(d) ==
  LET g == turn[d].run
  IN  /\ turn[d].step = "close"
      /\ IsOpen(g)
      /\ FenceSession
      /\ closed' = closed \cup {g}
      /\ turn' = [x \in DOMAIN turn \ {d} |-> turn[x]]
      /\ run' = [run EXCEPT ![g].result = turn[d].outcome,
                            ![g].rejected = @ \/ turn[d].outcome = "safety_handoff"]
      /\ UNCHANGED <<archived, faulted>>

\* The session was stopped or continued before it could be closed.
CloseRefused(d) ==
  /\ turn[d].step \in {"seal", "close"}
  /\ ~IsOpen(turn[d].run)
  /\ Settle(d, TRUE)
  /\ UNCHANGED <<vars, archived, closed, faulted>>

\* run() returns, with all of its turns settled.
Return(g) ==
  /\ g \in Running
  /\ TurnsOf(g) = {}
  /\ run[g].rejected \/ run[g].result # None
  /\ run' = [run EXCEPT ![g].live = FALSE,
                        ![g].result = IF @ = None THEN "failed" ELSE @]
  /\ UNCHANGED <<vars, turn, archived, closed, faulted>>

\* Stop, at any time; a new session or a Continue once the last run has returned:
\* the leadership lock of module Consultation admits no other before.
Outside ==
  /\ FenceSession \/ (Running = {} /\ (OpenSession \/ Revise))
  /\ UNCHANGED routerVars

Turn(d) ==
  \/ ReserveNext(d)
  \/ \E body \in Bodies, decision \in Decisions \cup {None}, handOff \in BOOLEAN :
       \/ Answer(d, body, decision, handOff)
       \/ AnswerUndelivered(d, body, decision, handOff)
  \/ Refused(d)
  \/ Fail(d)
  \/ Seal(d)
  \/ Close(d)
  \/ CloseRefused(d)

Step(g) == Begin(g) \/ Return(g) \/ \E d \in TurnsOf(g) : Turn(d)

RouterNext ==
  \/ \E g \in 1..MaxGeneration : Launch(g) \/ Step(g)
  \/ Outside

RouterSpec == RouterInit /\ [][RouterNext]_allVars

\* Every call of a run is answered or times out, and a run that can go on does.
FairRouterSpec == RouterSpec /\ \A g \in 1..MaxGeneration : WF_allVars(Step(g))

-----------------------------------------------------------------------------
Returned(g) == g \in DOMAIN run /\ ~run[g].live

\* A run fails only because a call of its generation failed or was aborted, or the
\* session was stopped under it.
HasCause(g) == g \in faulted \/ (open # g /\ g \notin closed)

\* The outcome a run reports is published, and the session closed behind an archive
\* of every message ever confirmed in the generation, those of the same batch and
\* of earlier runs included.
IsKept(g) ==
  /\ g \in closed /\ open # g
  /\ g \in DOMAIN archived /\ archived[g] = Confirmed(g)
  /\ consensus[task[g]].status = IF run[g].result = "final" THEN "published" ELSE "unresolved"

\* What a run returns is true.  No turn it takes by itself is stale, out of turn,
\* over an allowance or reserved already, in whatever state an earlier run or
\* generation has left the task: it fails for a cause outside, or has its outcome.
ResultIsTrue ==
  \A g \in DOMAIN run :
    Returned(g) => IF run[g].result = "failed" THEN HasCause(g) ELSE IsKept(g)

\* Every run returns, however long the models disagree.
EveryRunEnds == \A g \in 1..MaxGeneration : g \in Running ~> g \notin Running
=============================================================================
