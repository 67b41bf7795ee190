--------------------------- MODULE ConsensusLedger ---------------------------
(***************************************************************************)
(* The consensus ledger (src/session/consensus-ledger.ts): the state of a  *)
(* task's adaptive consensus and the reservations that fence every turn of *)
(* it.  A turn is reserved before its model is called and confirmed with   *)
(* what the model said; any number of turns may be pending, in any order,  *)
(* some of them from generations that are over.                            *)
(*                                                                         *)
(* The ledger runs inside the Registrar's transactions and reads its rows. *)
(* Here they are the part the ledger reads: which generation is open, what *)
(* it revises and which task it is bound to; and sessions open, are fenced *)
(* (stopped or closed) and are revised at any time, a superset of what     *)
(* module Registrar allows.                                                *)
(*                                                                         *)
(* Abstracted: a body is a member of Bodies and stands for its own digest; *)
(* a position is its revision number, 0 before the first; the digest of    *)
(* all positions is their revisions, which differ whenever the code's      *)
(* digests do, as each new position raises one.  Of the list of reviews,   *)
(* the latest by each agent about each specialist is kept, and whether any *)
(* says "unresolved".  The agents and assignments of a task never change.  *)
(***************************************************************************)
EXTENDS Naturals, FiniteSets, KeyValue

CONSTANTS
  Specialists,     \* the agents consulted, each with a position of its own
  HeadAgent,       \* the agent that proposes and concludes
  CriticAgent,     \* the designated critic
  Tasks,           \* consensus task ids
  Bodies,          \* texts of candidates and of unresolved outcomes
  TurnKinds,       \* the kinds of turns callers take
  Decisions,       \* what a review may decide
  None,            \* an absent value
  CriticCap,       \* critic messages each specialist may receive (7 in the code)
  DispatchBudget,  \* reservations one task may make (512 in the code)
  MaxGeneration,   \* bound on the generation counter
  MaxVersion,      \* bound on candidates and on revisions of one position
  MaxPending       \* bound on the turns pending at once

ASSUME AgentAssumption ==
  /\ HeadAgent \notin Specialists
  /\ CriticAgent \notin Specialists \cup {HeadAgent}
ASSUME NoneAssumption ==
  /\ None \notin Bodies
  /\ None \notin [body : Bodies \cup {None}, positions : [Specialists -> Nat]]
  /\ None \notin [proposal : Bodies, decision : Decisions, positions : [Specialists -> Nat]]
ASSUME DecisionAssumption == Decisions \subseteq {"agree", "revise", "unresolved"}
ASSUME KindAssumption == TurnKinds \subseteq
  {"assignment", "position", "proposal", "specialist_review", "critic_review",
   "head_review", "unresolved", "final"}
ASSUME BoundAssumption ==
  {CriticCap, DispatchBudget, MaxGeneration, MaxVersion, MaxPending} \subseteq Nat

VARIABLES
  generation,      \* the last generation number given out
  open,            \* the generation whose session is active, or 0
  previous,        \* the generation each one revises, or 0
  task,            \* consensus task bound to a generation, by generation
  consensus,       \* consensus state rows, by task
  dispatch         \* reservations, by dispatch id

sessionVars == <<generation, open, previous>>
vars == <<sessionVars, task, consensus, dispatch>>

Agents == Specialists \cup {HeadAgent, CriticAgent}
Reviews == {"specialist_review", "critic_review", "head_review"}
Concluded == {"published", "unresolved"}

\* The id ConsensusRouter gives the turn of an agent, or, for an assignment, of
\* the head about a specialist.
DispatchId(g, kind, agent, number) == <<g, kind, agent, number>>

NoPositions == [s \in Specialists |-> 0]
NoReviews == [a \in Agents |-> [s \in Specialists |-> None]]

Init ==
  /\ generation = 0
  /\ open = 0
  /\ previous = NoRows
  /\ task = NoRows
  /\ consensus = NoRows
  /\ dispatch = NoRows

-----------------------------------------------------------------------------
\* What the Registrar does to the rows the ledger reads.
OpenSession ==
  /\ open = 0
  /\ generation < MaxGeneration
  /\ generation' = generation + 1
  /\ open' = generation + 1
  /\ previous' = Put(previous, generation + 1, 0)
  /\ UNCHANGED <<task, consensus, dispatch>>

\* stopSession or closeSession.
FenceSession ==
  /\ open # 0
  /\ open' = 0
  /\ UNCHANGED <<generation, previous, task, consensus, dispatch>>

\* Mutant: a concluded task can be continued.
IsConcluded_Never(g) == FALSE

\* The task bound to generation g has published an outcome.
IsConcluded(g) ==
  /\ g \in DOMAIN task
  /\ consensus[task[g]].status \in Concluded
  /\ consensus[task[g]].final # None

\* reviseSession: the latest generation is continued by a new one, bound to the
\* same task.
Revise ==
  /\ generation \in 1..(MaxGeneration - 1)
  /\ ~IsConcluded(generation)
  /\ generation' = generation + 1
  /\ open' = generation + 1
  /\ previous' = Put(previous, generation + 1, generation)
  /\ task' = IF generation \in DOMAIN task
             THEN Put(task, generation + 1, task[generation]) ELSE task
  /\ UNCHANGED <<consensus, dispatch>>

-----------------------------------------------------------------------------
\* activeError: the generation is that of the active session.
IsOpen(g) == g # 0 /\ open = g

\* The latest review by the agent that concerns specialist s agrees to the
\* candidate's text.
Agrees(c, agent, s) ==
  LET r == c.reviews[agent][s]
  IN  r # None /\ r.proposal = c.proposal.body /\ r.decision = "agree"

\* hasConsensus: everyone explicitly agrees to the current candidate, which is
\* built from the current positions; the critic agrees for every specialist.
HasConsensus(c) ==
  /\ c.proposal # None
  /\ \A s \in Specialists : /\ c.positions[s] # 0
                            /\ c.positions[s] = c.proposal.positions[s]
                            /\ c.counts[s] <= CriticCap
                            /\ \A a \in {s, CriticAgent, HeadAgent} : Agrees(c, a, s)

NewTask(g) ==
  [generation |-> g, positions |-> NoPositions, proposal |-> None, version |-> 0,
   reviews |-> NoReviews, disputed |-> FALSE,
   counts |-> [s \in Specialists |-> 0], status |-> "working", final |-> None]

\* initializeConsensus for a task the ledger has not seen.
Initialize(g, t) ==
  /\ IsOpen(g)
  /\ g \notin DOMAIN task
  /\ t \notin DOMAIN consensus
  /\ task' = Put(task, g, t)
  /\ consensus' = Put(consensus, t, NewTask(g))
  /\ UNCHANGED <<sessionVars, dispatch>>

\* Mutant: the status is carried over too.
Carried_KeepsStatus(c, g, sameTask, sameLanguage) ==
  LET kept == sameTask /\ sameLanguage
  IN  [c EXCEPT !.generation = g, !.final = None,
                !.positions = IF sameTask THEN @ ELSE NoPositions,
                !.proposal = IF kept THEN @ ELSE None,
                !.reviews = IF kept THEN @ ELSE NoReviews,
                !.disputed = @ /\ kept]

\* The state carried into a new generation: what does not depend on a changed
\* task text or language, the counts and the version number always.
Carried(c, g, sameTask, sameLanguage) ==
  LET kept == sameTask /\ sameLanguage
  IN  [c EXCEPT !.generation = g, !.status = "working", !.final = None,
                !.positions = IF sameTask THEN @ ELSE NoPositions,
                !.proposal = IF kept THEN @ ELSE None,
                !.reviews = IF kept THEN @ ELSE NoReviews,
                !.disputed = @ /\ kept]

\* initializeConsensus of a generation that revises the one of the state.
CarryOver(g, sameTask, sameLanguage) ==
  /\ IsOpen(g)
  /\ g \in DOMAIN task
  /\ consensus[task[g]].generation # g
  /\ consensus[task[g]].generation = previous[g]
  /\ consensus' = [consensus EXCEPT ![task[g]] = Carried(@, g, sameTask, sameLanguage)]
  /\ UNCHANGED <<sessionVars, task, dispatch>>

-----------------------------------------------------------------------------
\* dispatchState, at a reservation and again at its confirmation: the task is
\* open in this generation, and a review is of the current candidate, which is
\* built from the current positions.
MayDispatch(g, kind, body) ==
  /\ IsOpen(g)
  /\ g \in DOMAIN task
  /\ LET c == consensus[task[g]]
     IN  /\ c.generation = g
         /\ c.status \notin Concluded
         /\ kind \in Reviews \cup {"final"} =>
              c.proposal = [body |-> body, positions |-> c.positions]
         /\ kind = "final" => HasConsensus(c)

\* The number ConsensusRouter puts in a dispatch id.
TurnNumber(c, kind, agent) ==
  CASE kind = "assignment" -> 0
    [] kind = "position" -> c.positions[agent] + 1
    [] kind = "proposal" -> c.version + 1
    [] OTHER -> c.version

\* Who takes a turn of each kind, and about whom.
MayTake(kind, agent, targets) ==
  CASE kind \in {"assignment", "position", "specialist_review"} ->
         agent \in Specialists /\ targets = {agent}
    [] kind = "critic_review" -> agent = CriticAgent /\ targets # {}
    [] kind = "final" -> agent = HeadAgent /\ targets = {}
    [] OTHER -> agent = HeadAgent /\ targets = Specialists

Reserved(t) == {d \in DOMAIN dispatch : task[d[1]] = t}
Pending == {d \in DOMAIN dispatch : ~dispatch[d].confirmed}

\* Pending turns of the generation that may become a critic message to s.
Held(g, s) ==
  {d \in Pending : d[1] = g /\ d[2] = "critic_review" /\ s \in dispatch[d].targets}

\* Mutant: pending critic turns are forgotten.
CriticAllows_IgnoresHeld(g, s) == consensus[task[g]].counts[s] < CriticCap

CriticAllows(g, s) == consensus[task[g]].counts[s] + Cardinality(Held(g, s)) < CriticCap

\* What a reservation needs: nobody has reserved the turn, and the task's budget
\* and the critic's allowance are not spent.
MayReserve(d, body, targets) ==
  /\ MayTake(d[2], d[3], targets)
  /\ MayDispatch(d[1], d[2], body)
  /\ d \notin DOMAIN dispatch
  /\ Cardinality(Reserved(task[d[1]])) < DispatchBudget
  /\ d[2] = "critic_review" => \A s \in targets : CriticAllows(d[1], s)

\* reserveConsensusDispatch, with the candidate and the positions its caller
\* has read and will show the model.
ReserveTurn(d, body, positions, targets) ==
  /\ MayReserve(d, body, targets)
  /\ dispatch' = Put(dispatch, d, [targets |-> targets, proposal |-> body,
                                   positions |-> positions, confirmed |-> FALSE])
  /\ UNCHANGED <<sessionVars, task, consensus>>

\* The candidate a turn of this kind is about.
Subject(c, kind) ==
  IF kind \in Reviews \cup {"final"} /\ c.proposal # None THEN c.proposal.body ELSE None

\* A caller that reads the state and reserves its turn at once.
Reserve(g, kind, agent, targets) ==
  /\ g \in DOMAIN task
  /\ kind \in {"position", "specialist_review"} => agent \in Specialists
  /\ LET c == consensus[task[g]]
         d == DispatchId(g, kind, agent, TurnNumber(c, kind, agent))
     IN  /\ d[4] <= MaxVersion /\ Cardinality(Pending) < MaxPending
         /\ ReserveTurn(d, Subject(c, kind), c.positions, targets)

-----------------------------------------------------------------------------
\* The changes of state a confirmed turn makes, one operator for each kind.
WithPosition(c, s) ==
  [c EXCEPT !.status = "working", !.positions[s] = @ + 1]

\* Mutant: reviews of the replaced candidate are kept.
WithProposal_KeepsReviews(c, body) ==
  [c EXCEPT !.status = "working", !.version = @ + 1,
            !.proposal = [body |-> body, positions |-> c.positions]]

WithProposal(c, body) ==
  [c EXCEPT !.status = "working", !.version = @ + 1,
            !.proposal = [body |-> body, positions |-> c.positions],
            !.reviews = NoReviews, !.disputed = FALSE]

WithReview(c, kind, agent, r, decision) ==
  LET review == [proposal |-> c.proposal.body, decision |-> decision,
                 positions |-> r.positions]
      reviewed ==
        [c EXCEPT !.reviews[agent] =
                    [s \in Specialists |-> IF s \in r.targets THEN review ELSE @[s]],
                  !.disputed = @ \/ decision = "unresolved",
                  !.counts = [s \in Specialists |->
                                IF kind = "critic_review" /\ s \in r.targets
                                THEN @[s] + 1 ELSE @[s]]]
  IN  [reviewed EXCEPT !.status = IF HasConsensus(reviewed) THEN "consensus" ELSE "working"]

WithOutcome(c, status, body) == [c EXCEPT !.status = status, !.final = body]

Updated(c, kind, agent, r, body, decision) ==
  CASE kind = "assignment" -> c
    [] kind = "position" -> WithPosition(c, agent)
    [] kind = "proposal" -> WithProposal(c, body)
    [] kind \in Reviews -> WithReview(c, kind, agent, r, decision)
    [] kind = "final" -> WithOutcome(c, "published", c.proposal.body)
    [] kind = "unresolved" -> WithOutcome(c, "unresolved", body)

\* No consensus, and a reason to give up: a spent allowance or an open issue.
MayGiveUp(c) == (\E s \in Specialists : c.counts[s] >= CriticCap) \/ c.disputed

\* Mutant: the positions the model was shown are not compared.
Accepts_AnyPositions(c, kind, r) ==
  /\ kind = "proposal" => \A s \in Specialists : c.positions[s] # 0
  /\ kind = "critic_review" => \A s \in r.targets : c.counts[s] < CriticCap
  /\ kind = "unresolved" => MayGiveUp(c)

\* What a confirmation needs beyond MayDispatch: what the model was shown is
\* still current, and the allowance is not spent.
Accepts(c, kind, r) ==
  /\ kind \in Reviews \cup {"proposal", "final"} => r.positions = c.positions
  /\ kind = "proposal" => \A s \in Specialists : c.positions[s] # 0
  /\ kind = "critic_review" => \A s \in r.targets : c.counts[s] < CriticCap
  /\ kind = "unresolved" => MayGiveUp(c)

\* A crisis the model detected concludes the task with its safe handoff.
MayHandOff(kind, decision) ==
  /\ kind \notin {"assignment", "final"}
  /\ kind \in Reviews => decision = "unresolved"

\* What the confirmation of a reserved turn needs.
MayConfirm(d, decision, handOff) ==
  /\ d \in Pending
  /\ MayDispatch(d[1], d[2], dispatch[d].proposal)
  /\ Accepts(consensus[task[d[1]]], d[2], dispatch[d])
  /\ handOff => MayHandOff(d[2], decision)

\* confirmConsensusMessage: the new state and the confirmed reservation are
\* written in one transaction, with the message.
Confirm(d, body, decision, handOff) ==
  LET t == task[d[1]]
      updated == Updated(consensus[t], d[2], d[3], dispatch[d], body, decision)
  IN  /\ MayConfirm(d, decision, handOff)
      /\ consensus' = [consensus EXCEPT ![t] =
                         IF handOff THEN WithOutcome(updated, "unresolved", body) ELSE updated]
      /\ dispatch' = [dispatch EXCEPT ![d].confirmed = TRUE]
      /\ UNCHANGED <<sessionVars, task>>

-----------------------------------------------------------------------------
Next ==
  \/ OpenSession
  \/ FenceSession
  \/ Revise
  \/ \E t \in Tasks : Initialize(open, t)
  \/ \E sameTask, sameLanguage \in BOOLEAN : CarryOver(open, sameTask, sameLanguage)
  \/ \E kind \in TurnKinds, agent \in Agents, targets \in SUBSET Specialists :
       Reserve(open, kind, agent, targets)
  \/ \E d \in Pending, body \in Bodies, decision \in Decisions, handOff \in BOOLEAN :
       Confirm(d, body, decision, handOff)

Spec == Init /\ [][Next]_vars

-----------------------------------------------------------------------------
Generations == 1..MaxGeneration
Versions == 0..MaxVersion
PositionMaps == [Specialists -> Versions]
ProposalRecord == [body : Bodies, positions : PositionMaps]
ReviewRecord == [proposal : Bodies, decision : Decisions, positions : PositionMaps]
ReservationRecord ==
  [targets : SUBSET Specialists, proposal : Bodies \cup {None},
   positions : PositionMaps, confirmed : BOOLEAN]

ConsensusTypeOK(c) ==
  /\ DOMAIN c = {"generation", "positions", "proposal", "version", "reviews",
                 "disputed", "counts", "status", "final"}
  /\ c.generation \in Generations
  /\ c.positions \in PositionMaps
  /\ c.proposal = None \/ c.proposal \in ProposalRecord
  /\ c.version \in Versions
  /\ DOMAIN c.reviews = Agents
  /\ \A a \in Agents : DOMAIN c.reviews[a] = Specialists
  /\ \A a \in Agents, s \in Specialists :
       c.reviews[a][s] = None \/ c.reviews[a][s] \in ReviewRecord
  /\ c.disputed \in BOOLEAN
  /\ c.counts \in [Specialists -> 0..CriticCap]
  /\ c.status \in {"working", "consensus"} \cup Concluded
  /\ c.final \in Bodies \cup {None}

\* Every row has the form readConsensusState insists on when it reads it back,
\* among them counts within the cap and positions and reviews of known agents.
TypeOK ==
  /\ generation \in 0..MaxGeneration
  /\ open \in 0..MaxGeneration
  /\ previous \in [1..generation -> 0..MaxGeneration]
  /\ DOMAIN task \subseteq Generations
  /\ \A g \in DOMAIN task : task[g] \in Tasks
  /\ DOMAIN consensus \subseteq Tasks
  /\ \A t \in DOMAIN consensus : ConsensusTypeOK(consensus[t])
  /\ DOMAIN dispatch \subseteq Generations \X TurnKinds \X Agents \X Versions
  /\ \A d \in DOMAIN dispatch : dispatch[d] \in ReservationRecord

\* The books balance over every generation of a task, Continue included: each
\* specialist's count is the number of critic messages about it that were ever
\* published, published and pending ones together never exceed its allowance,
\* and the version number counts the candidates ever published.
BooksBalance ==
  \A t \in DOMAIN consensus :
    LET c == consensus[t]
        said(kind) == {d \in Reserved(t) \ Pending : d[2] = kind}
    IN  /\ c.version = Cardinality(said("proposal"))
        /\ \A s \in Specialists :
             /\ c.counts[s] = Cardinality({d \in said("critic_review") : s \in dispatch[d].targets})
             /\ c.counts[s] + Cardinality(Held(c.generation, s)) <= CriticCap

\* The last word of an agent about specialist s is an agreement, given when the
\* agent was shown exactly the current positions.
Consents(c, agent, s) ==
  LET r == c.reviews[agent][s]
  IN  r # None /\ r.decision = "agree" /\ r.positions = c.positions

\* A task counts as agreed, or is published, only with the informed consent of
\* all: every specialist, and the critic and the head for every specialist,
\* last said yes to the candidate, having seen the very positions it is built
\* from, whatever was revised, proposed again in the same words, or continued.
InformedConsent ==
  \A t \in DOMAIN consensus :
    LET c == consensus[t]
    IN  c.status \in {"consensus", "published"} =>
          /\ c.proposal # None /\ c.proposal.positions = c.positions
          /\ c.status = "published" => c.final = c.proposal.body
          /\ \A s \in Specialists :
               /\ c.positions[s] # 0
               /\ \A a \in {s, CriticAgent, HeadAgent} : Consents(c, a, s)

\* Once a task is published or given up its outcome stands: no late turn,
\* Continue or initialization changes it, and no pending turn of any of its
\* generations is ever confirmed.
OutcomeStands ==
  [][\A t \in DOMAIN consensus :
       consensus[t].status \in Concluded =>
         /\ consensus'[t] = consensus[t]
         /\ \A d \in Reserved(t) : dispatch'[d] = dispatch[d]]_vars

\* Continue can always resume the task: when a bound generation is open, its
\* consensus state is of this generation or of the one it revises, so that
\* initializeConsensus does not refuse it.
ContinueCanResume ==
  open \in DOMAIN task =>
    consensus[task[open]].generation \in {open, previous[open]}
=============================================================================
