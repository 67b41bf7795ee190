--------------------------- MODULE PhasedConsilium ---------------------------
(***************************************************************************)
(* The three-phase consilium: initial positions, one critique, revisions   *)
(* (src/consilium/router.ts), the head's synthesis                         *)
(* (src/runtime/codex-head-synthesizer.ts) and its publication, behind the *)
(* critic's receipt (src/consilium/final-recommendation.ts), or a later    *)
(* synthesis of work that was completed (resumable-finalization.ts).       *)
(*                                                                         *)
(* Everything said goes through the Registrar, one transaction at a time,  *)
(* while the owner stops, revises or replaces the session and the process  *)
(* may crash.  A run that is cancelled or out of its budget is one whose   *)
(* turns fail (module Execution); observers of messages may refuse them.   *)
(* Bodies are left out: a message is its kind, its agent and its attempt,  *)
(* which stands for the threads the attempt started.                       *)
(***************************************************************************)
EXTENDS Registrar, FiniteSets

CONSTANTS
  Specialists,     \* how many specialists a run has
  Concurrency,     \* how many of them take a turn at the same time
  MaxAttempts,     \* bound on runs and resumptions
  RunGenerations   \* bound: the generations they are begun in

ASSUME PhasedAssumption ==
  /\ Specialists \in 2..5 /\ Concurrency \in Nat \ {0} /\ MaxAttempts \in Nat
  /\ RunGenerations \subseteq 1..MaxGeneration

VARIABLES
  job,             \* the running operation of each generation
  turn,            \* its agents' turns
  attempts,        \* operations begun so far
  delivered,       \* events the observer of confirmed messages accepted
  archived,        \* the events of the archived copy, by generation
  completed        \* generations a finalizer closed

runVars == <<job, turn, attempts>>
outVars == <<delivered, archived, completed>>
phasedVars == <<vars, runVars, outVars>>

Critic == 0
Agents == 0..Specialists

NoJob == [op |-> "none", n |-> 0, critic |-> None, phase |-> "none", step |-> "none",
          first |-> 0]
Resting == [i \in Agents |-> "idle"]

PhasedInit ==
  /\ Init
  /\ job = [g \in RunGenerations |-> NoJob]
  /\ turn = [g \in RunGenerations |-> Resting]
  /\ attempts = 0
  /\ delivered = {}
  /\ archived = NoRows
  /\ completed = {}

-----------------------------------------------------------------------------
\* Event ids: an assignment's is fixed by the generation, all others are new with
\* every turn.
AssignmentEvent(g, phase) == <<"assignment", phase, g>>
TurnEvent(kind, i, n) == <<kind, i, n>>
FinalEvent(n) == <<"final", 0, n>>

Turns == {"initial", "critique", "revision"}
ASSUME TurnEventAssumption ==
  /\ \A g \in 1..MaxGeneration, phase \in Turns : AssignmentEvent(g, phase) \in Events
  /\ \A n \in 1..MaxAttempts : /\ FinalEvent(n) \in Events
                                /\ \A kind \in Turns, i \in Agents : TurnEvent(kind, i, n) \in Events

\* The confirmed messages of g of one kind.
Said(g, kind) == {message[k] : k \in {l \in DOMAIN message : l[1] = g /\ message[l].event[1] = kind}}

Transcribed(g) == {message[k].event : k \in {l \in DOMAIN message : l[1] = g}}

\* The critic's receipt names the critic of the operation.
IsReviewedBy(g, c) == g \in DOMAIN review /\ review[g].critic = c

Ends(g) ==
  /\ job' = [job EXCEPT ![g] = NoJob]
  /\ turn' = [turn EXCEPT ![g] =
               [i \in Agents |-> IF @[i] \in {"done", "failed"} THEN "idle" ELSE @[i]]]

Continues(g, phase, step) ==
  /\ job' = [job EXCEPT ![g].phase = phase, ![g].step = step]
  /\ UNCHANGED turn

\* The agents of the phase, and those taking their turn together.
Team(phase) == IF phase = "critique" THEN {Critic} ELSE 1..Specialists
Batch(g) == Team(job[g].phase) \cap (job[g].first..(job[g].first + Concurrency - 1))

-----------------------------------------------------------------------------
\* Mutant: a specialist's revision need not be there.
IsComplete_AnyRevision(g) ==
  LET initial == Said(g, "initial")
  IN  /\ g \notin DOMAIN task
      /\ g \in DOMAIN critic /\ IsReviewedBy(g, critic[g].critic)
      /\ Cardinality(initial) \in 2..5
      /\ \A p, q \in initial : p # q => p.event[2] # q.event[2]
      /\ \A p \in initial : p.sequence < review[g].sequence
      /\ Said(g, "assignment") # {}

\* readResumableFinalization: exactly one position of every specialist before the
\* critique, and exactly one revision of each, on the same thread, after it.
IsComplete(g) ==
  LET initial == Said(g, "initial")
      revised == Said(g, "revision")
  IN  /\ g \notin DOMAIN task
      /\ g \in DOMAIN critic /\ IsReviewedBy(g, critic[g].critic)
      /\ Cardinality(initial) \in 2..5
      /\ \A p, q \in initial : p # q => p.event[2] # q.event[2]
      /\ \A p \in initial :
           /\ p.sequence < review[g].sequence
           /\ \E r \in revised :
                /\ {q \in revised : q.event[2] = p.event[2]} = {r}
                /\ r.sequence > review[g].sequence
                /\ r.event[3] = p.event[3]
      /\ Cardinality(revised) = Cardinality(initial)
      /\ Said(g, "assignment") # {}

Begins(g, op, c, phase) ==
  /\ g \in RunGenerations /\ job[g] = NoJob
  /\ IsCurrent(g, {"active"})
  /\ attempts < MaxAttempts
  /\ attempts' = attempts + 1
  /\ job' = [job EXCEPT ![g] = [op |-> op, n |-> attempts + 1, critic |-> c,
                                phase |-> phase, step |-> "assign", first |-> 1]]
  /\ UNCHANGED <<vars, turn, outVars>>

\* run, with the critic the launcher prepared.
Launches(g, c) == g \notin DOMAIN task /\ Begins(g, "run", c, "designation")

\* resumeFinalization: the head has a thread of its own again.
ResumeBegins(g) == IsComplete(g) /\ Begins(g, "resume", critic[g].critic, "synthesis")

Designates(g) ==
  /\ job[g].phase = "designation"
  /\ IF g \in DOMAIN critic /\ critic[g].critic = job[g].critic /\ IsCurrent(g, {"active"})
     THEN UNCHANGED vars
     ELSE DesignateCritic(g, job[g].critic)
  /\ Continues(g, "initial", "assign")
  /\ UNCHANGED <<attempts, outVars>>

\* Another critic is bound to the generation, the session is another's or over, or
\* its settings name another provider.
DesignationFails(g) ==
  /\ job[g].phase = "designation"
  /\ \/ ~IsCurrent(g, {"active"})
     \/ g \in DOMAIN critic /\ critic[g].critic # job[g].critic
     \/ g \notin DOMAIN critic /\ ProviderOf[job[g].critic] # active.provider
  /\ Ends(g)
  /\ UNCHANGED <<vars, attempts, outVars>>

-----------------------------------------------------------------------------
\* Mutant: an assignment recorded by an earlier run serves this one.
Assigns_Again(g) ==
  LET e == AssignmentEvent(g, job[g].phase)
  IN  /\ job[g].step = "assign" /\ job[g].phase \in {"initial", "critique", "revision"}
      /\ IF e \in DOMAIN event THEN UNCHANGED vars ELSE AppendConfirmedMessage(g, e, None)
      /\ Continues(g, job[g].phase, "assigned")
      /\ UNCHANGED <<attempts, outVars>>

\* assign: the head's instruction is recorded once for all its recipients.
Assigns(g) ==
  /\ job[g].step = "assign" /\ job[g].phase \in {"initial", "critique", "revision"}
  /\ AppendConfirmedMessage(g, AssignmentEvent(g, job[g].phase), None)
  /\ Continues(g, job[g].phase, "assigned")
  /\ UNCHANGED <<attempts, outVars>>

\* Mutant: an assignment another run has recorded is waited for.
AssignmentRefused_Waits(g) ==
  /\ job[g].step = "assign" /\ job[g].phase \in {"initial", "critique", "revision"}
  /\ ~IsCurrent(g, {"active"}) \/ g \in DOMAIN task
  /\ Ends(g)
  /\ UNCHANGED <<vars, attempts, outVars>>

\* The Registrar refuses it: the generation is fenced or bound to a task, or an
\* earlier run's head has said it, on another thread.
AssignmentRefused(g) ==
  /\ job[g].step = "assign" /\ job[g].phase \in {"initial", "critique", "revision"}
  /\ \/ ~IsCurrent(g, {"active"}) \/ g \in DOMAIN task
     \/ AssignmentEvent(g, job[g].phase) \in DOMAIN event
  /\ Ends(g)
  /\ UNCHANGED <<vars, attempts, outVars>>

\* The turns of the next batch begin.
TurnsBegin(g, phase, first) ==
  /\ job' = [job EXCEPT ![g].phase = phase, ![g].step = "turns", ![g].first = first]
  /\ turn' = [turn EXCEPT ![g] =
               [i \in Agents |-> IF i \in Team(phase) \cap (first..(first + Concurrency - 1))
                                 THEN "running" ELSE @[i]]]

AssignmentDelivered(g) ==
  /\ job[g].step = "assigned"
  /\ \/ /\ delivered' = delivered \cup {AssignmentEvent(g, job[g].phase)}
        /\ TurnsBegin(g, job[g].phase, IF job[g].phase = "critique" THEN Critic ELSE 1)
     \/ Ends(g) /\ UNCHANGED delivered
  /\ UNCHANGED <<vars, attempts, archived, completed>>

Moves(g, i, to) == turn' = [turn EXCEPT ![g][i] = to] /\ UNCHANGED <<job, attempts>>

\* The agent's answer is confirmed under a new event id.
Confirms(g, i) ==
  /\ turn[g][i] = "running"
  /\ i = Critic => g \in DOMAIN critic /\ critic[g].critic = job[g].critic
  /\ AppendConfirmedMessage(g, TurnEvent(job[g].phase, i, job[g].n),
                            IF i = Critic THEN job[g].critic ELSE None)
  /\ Moves(g, i, "confirmed")
  /\ UNCHANGED outVars

\* The critique's receipt, in a transaction of its own.
Reviews(g) ==
  /\ turn[g][Critic] = "confirmed"
  /\ RecordCriticReview(g, TurnEvent("critique", Critic, job[g].n), job[g].critic)
  /\ Moves(g, Critic, "recorded")
  /\ UNCHANGED outVars

Delivers(g, i) ==
  /\ turn[g][i] = IF i = Critic THEN "recorded" ELSE "confirmed"
  /\ delivered' = delivered \cup {TurnEvent(job[g].phase, i, job[g].n)}
  /\ Moves(g, i, "done")
  /\ UNCHANGED <<vars, archived, completed>>

\* The turn fails or is cancelled, what it said is refused, or not delivered.
Fails(g, i) ==
  /\ \/ turn[g][i] = "running"
     \/ turn[g][i] = "confirmed" /\ (i = Critic => ~IsCurrent(g, {"active"}))
     \/ turn[g][i] = "recorded"
  /\ Moves(g, i, "failed")
  /\ UNCHANGED <<vars, outVars>>

\* Mutant: the first failure ends the phase.
Settled_First(g) ==
  \/ \A i \in Batch(g) : turn[g][i] \in {"done", "failed"}
  \/ \E i \in Batch(g) : turn[g][i] = "failed"

Settled(g) == \A i \in Batch(g) : turn[g][i] \in {"done", "failed"}

\* Mutant: one answer of the batch is enough.
Succeeded_One(g) == \E i \in Batch(g) : turn[g][i] = "done"

Succeeded(g) == \A i \in Batch(g) : turn[g][i] = "done"

\* #runBatches: the whole batch settles before the next one, or the next phase, or
\* the end of the run when one of it failed.
BatchEnds(g) ==
  LET next == job[g].first + Concurrency
  IN  /\ job[g].step = "turns" /\ Settled(g)
      /\ IF ~Succeeded(g) THEN Ends(g)
         ELSE IF Team(job[g].phase) \cap (next..Specialists) # {}
                 /\ job[g].phase # "critique"
              THEN TurnsBegin(g, job[g].phase, next)
              ELSE Continues(g, CASE job[g].phase = "initial" -> "critique"
                                  [] job[g].phase = "critique" -> "revision"
                                  [] job[g].phase = "revision" -> "synthesis", "assign")
      /\ UNCHANGED <<vars, attempts, outVars>>

-----------------------------------------------------------------------------
\* synthesize: the head's turn over the whole transcript, with the critique in it.
Synthesizes(g) ==
  /\ job[g].phase = "synthesis"
  /\ g \notin DOMAIN task /\ IsReviewedBy(g, job[g].critic)
  /\ Cardinality(Transcribed(g)) >= 3 /\ review[g].event \in Transcribed(g)
  /\ Continues(g, "publication", "append")
  /\ UNCHANGED <<vars, attempts, outVars>>

\* There is no receipt, the turn fails, or what it says is no recommendation.
SynthesisFails(g) ==
  /\ job[g].phase = "synthesis"
  /\ Ends(g)
  /\ UNCHANGED <<vars, attempts, outVars>>

\* publish, up to the message.
Publishes(g) ==
  /\ job[g].step = "append"
  /\ g \notin DOMAIN task /\ IsReviewedBy(g, job[g].critic)
  /\ AppendConfirmedMessage(g, FinalEvent(job[g].n), None)
  /\ Continues(g, "publication", "deliver")
  /\ UNCHANGED <<attempts, outVars>>

\* Mutant: a final that is not delivered is archived all the same.
FinalDelivered_OrNot(g) ==
  /\ job[g].step = "deliver"
  /\ Continues(g, "publication", "archive")
  /\ UNCHANGED <<vars, attempts, outVars>>

FinalDelivered(g) ==
  /\ job[g].step = "deliver"
  /\ delivered' = delivered \cup {FinalEvent(job[g].n)}
  /\ Continues(g, "publication", "archive")
  /\ UNCHANGED <<vars, attempts, archived, completed>>

\* Mutant: the copy is of what was there before the final.
Archives_BeforeFinal(g) ==
  /\ job[g].step = "archive" /\ IsCurrent(g, {"active"})
  /\ archived' = Put(archived, g, Transcribed(g) \ {FinalEvent(job[g].n)})
  /\ Continues(g, "publication", "close")
  /\ UNCHANGED <<vars, attempts, delivered, completed>>

\* beforeStop: the copy of the whole transcript.
Archives(g) ==
  /\ job[g].step = "archive" /\ IsCurrent(g, {"active"})
  /\ archived' = Put(archived, g, Transcribed(g))
  /\ Continues(g, "publication", "close")
  /\ UNCHANGED <<vars, attempts, delivered, completed>>

\* The final is refused, or not delivered, or its copy fails, stored or not.
PublicationFails(g) ==
  /\ \/ job[g].step = "append" /\ (~IsCurrent(g, {"active"}) \/ g \in DOMAIN task)
        /\ UNCHANGED archived
     \/ job[g].step = "deliver" /\ UNCHANGED archived
     \/ job[g].step = "archive" /\ UNCHANGED archived
     \/ job[g].step = "archive" /\ archived' = Put(archived, g, Transcribed(g))
  /\ Ends(g)
  /\ UNCHANGED <<vars, attempts, delivered, completed>>

\* The session is closed last; a stop that came first leaves it stopped.
Closes(g) ==
  /\ job[g].step = "close"
  /\ IF IsCurrent(g, {"active"})
     THEN CloseSession(g) /\ completed' = completed \cup {g}
     ELSE UNCHANGED <<vars, completed>>
  /\ Ends(g)
  /\ UNCHANGED <<attempts, delivered, archived>>

-----------------------------------------------------------------------------
\* The owner, and the adaptive consultation of the same generation, in between.  A
\* revision fences a generation as a new task does.
OwnerActs ==
  /\ \/ \E id \in SessionIds, p \in Providers : StartSession(id, p) \/ StartNewTask(id, p)
     \/ \E g \in Known : StopSession(g, FALSE)
     \/ \E g \in Known \cap RunGenerations, t \in Tasks : job[g] = NoJob /\ BindTask(g, t)
  /\ UNCHANGED <<runVars, outVars>>

\* The process crashes, with every run in it.
ProcessCrashes ==
  /\ \E g \in RunGenerations : job[g] # NoJob
  /\ job' = [g \in RunGenerations |-> NoJob]
  /\ turn' = [g \in RunGenerations |-> Resting]
  /\ UNCHANGED <<vars, attempts, outVars>>

JobSteps(g) ==
  \/ Designates(g) \/ DesignationFails(g)
  \/ Assigns(g) \/ AssignmentRefused(g) \/ AssignmentDelivered(g)
  \/ Reviews(g) \/ BatchEnds(g)
  \/ \E i \in Agents : Confirms(g, i) \/ Delivers(g, i) \/ Fails(g, i)
  \/ Synthesizes(g) \/ SynthesisFails(g)
  \/ Publishes(g) \/ FinalDelivered(g) \/ Archives(g) \/ PublicationFails(g) \/ Closes(g)

PhasedNext ==
  \/ OwnerActs
  \/ ProcessCrashes
  \/ \E g \in Known \cap RunGenerations :
       \/ \E c \in Critics : Launches(g, c)
       \/ ResumeBegins(g)
       \/ JobSteps(g)

PhasedSpec == PhasedInit /\ [][PhasedNext]_phasedVars

\* The event loop takes every step that is due; a turn is answered or times out.
FairPhasedSpec == PhasedSpec /\ \A g \in RunGenerations : WF_phasedVars(g \in Known /\ JobSteps(g))

-----------------------------------------------------------------------------
\* Whenever a critique has its receipt, it was made of the whole first round: of
\* every specialist exactly one position, all confirmed before it.
CritiqueHearsEveryone ==
  \A g \in DOMAIN review :
    \A i \in 1..Specialists :
      \E p \in Said(g, "initial") :
        /\ {q \in Said(g, "initial") : q.event[2] = i} = {p}
        /\ p.sequence < review[g].sequence

\* A final recommendation, of the run itself or of a later resumption, follows the
\* critique and exactly one revision of every specialist after that critique.
FinalAnswersCritique ==
  \A g \in Known :
    \A f \in Said(g, "final") :
      /\ g \in DOMAIN review
      /\ \A i \in 1..Specialists :
           \E r \in Said(g, "revision") :
             /\ {q \in Said(g, "revision") : q.event[2] = i} = {r}
             /\ review[g].sequence < r.sequence /\ r.sequence < f.sequence

\* What a session says is founded on what was said before it: the critique on all
\* positions, the final recommendation on the critique and all revisions of it.
EveryPhaseIsHeard == CritiqueHearsEveryone /\ FinalAnswersCritique

\* A run does not leave a turn behind it: when it has ended, or is in another
\* phase, every agent rests, so nobody speaks in a session its run has left
\* ("Promise.all would leave the other provider turns orphaned").
NoTurnIsOrphaned ==
  \A g \in RunGenerations, i \in Agents :
    turn[g][i] \in {"running", "confirmed", "recorded"} => job[g].step = "turns" /\ i \in Batch(g)

\* A session closed by completion has a copy of everything its agents said, the
\* final with it, and that final was delivered: neither failure closes it.
CompletedIsKept ==
  \A g \in completed :
    /\ g \in DOMAIN archived
    /\ \A e \in Transcribed(g) : e = StopEvent(g) \/ e \in archived[g]
    /\ \E f \in Said(g, "final") : f.event \in delivered

\* Every run ends: with its session closed, or refused, or failed.
EveryRunReturns == \A g \in RunGenerations : job[g] # NoJob ~> job[g] = NoJob

\* A generation has at most one final recommendation.  Not so after a crash: what was
\* complete is finalized again.
OneFinal == \A g \in Known : Cardinality(Said(g, "final")) <= 1
=============================================================================
