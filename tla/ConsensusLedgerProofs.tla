------------------------ MODULE ConsensusLedgerProofs ------------------------
(***************************************************************************)
(* Proofs about the consensus ledger and the router that drives it, for    *)
(* every set of specialists, tasks, texts, kinds of turns and decisions,   *)
(* and for every bound: the critic's cap, the dispatch budget, the         *)
(* generations, the turns pending and those of a batch.                    *)
(***************************************************************************)
EXTENDS ConsensusRouter, FiniteSetTheorems, TLAPS

Positions == [Specialists -> Nat]
Candidate == [body : Bodies, positions : Positions]
Review == [proposal : Bodies, decision : Decisions, positions : Positions]

TaskState ==
  [generation : Nat, positions : Positions, proposal : Candidate \cup {None}, version : Nat,
   reviews : [Agents -> [Specialists -> Review \cup {None}]], disputed : BOOLEAN,
   counts : [Specialists -> Nat], status : {"working", "consensus"} \cup Concluded,
   final : Bodies \cup {None}]

Kinds == {"assignment", "position", "proposal", "unresolved", "final"} \cup Reviews

Reservation ==
  [targets : SUBSET Specialists, proposal : Bodies \cup {None}, positions : Positions,
   confirmed : BOOLEAN]

\* The state of one task: a review is of the current candidate, by an agent who was shown
\* the positions it is built from; a task that counts as agreed is; an outcome has a text.
StateInv(c) ==
  /\ c \in TaskState
  /\ \A a \in Agents, s \in Specialists :
       c.reviews[a][s] # None =>
         c.proposal # None /\ c.reviews[a][s].positions = c.proposal.positions
  /\ \A s \in Specialists : c.counts[s] <= CriticCap
  /\ c.status \in {"consensus", "published"} => HasConsensus(c)
  /\ c.status = "published" => c.final = c.proposal.body
  /\ c.status \in Concluded => c.final # None

\* The latest generation is the open one, if any is; it and the earlier ones have rows.
SessionInv ==
  /\ generation \in Nat
  /\ open \in {0, generation}
  /\ DOMAIN previous = 1 .. generation
  /\ \A g \in DOMAIN previous : previous[g] \in 0 .. g - 1

\* A bound generation is bound to a task with a state, which names a generation bound to it.
TaskInv ==
  /\ DOMAIN task \subseteq 1 .. generation
  /\ \A g \in DOMAIN task : task[g] \in DOMAIN consensus
  /\ \A t \in DOMAIN consensus :
       /\ StateInv(consensus[t])
       /\ consensus[t].generation \in DOMAIN task
       /\ task[consensus[t].generation] = t

\* A reservation is of a generation its task has reached, taken by who may take it.
DispatchInv ==
  /\ IsFiniteSet(DOMAIN dispatch)
  /\ \A d \in DOMAIN dispatch :
       /\ d = <<d[1], d[2], d[3], d[4]>>
       /\ d[2] \in Kinds /\ d[3] \in Agents
       /\ dispatch[d] \in Reservation
       /\ MayTake(d[2], d[3], dispatch[d].targets)
       /\ d[1] \in DOMAIN task
       /\ d[1] <= consensus[task[d[1]]].generation

\* No generation continues a concluded task.
ConcludedInv ==
  \A t \in DOMAIN consensus :
    consensus[t].status \in Concluded =>
      \A g \in DOMAIN task : task[g] = t => g <= consensus[t].generation

LedgerInv == SessionInv /\ TaskInv /\ DispatchInv /\ ConcludedInv

-----------------------------------------------------------------------------
\* A new task starts in the invariant.
LEMMA NewTaskInv ==
  ASSUME NEW g \in Nat
  PROVE  /\ StateInv(NewTask(g))
         /\ NewTask(g).generation = g
         /\ NewTask(g).status = "working"
         /\ NewTask(g).version = 0
         /\ \A s \in Specialists : NewTask(g).counts[s] = 0
BY BoundAssumption
DEF NewTask, StateInv, TaskState, NoPositions, NoReviews, Positions, Concluded, Agents

\* The state carried into a new generation keeps the invariant, the counts and the version.
LEMMA CarriedInv ==
  ASSUME NEW c, StateInv(c), NEW g \in Nat, NEW sameTask \in BOOLEAN, NEW sameLanguage \in BOOLEAN
  PROVE  LET carried == Carried(c, g, sameTask, sameLanguage)
         IN  /\ StateInv(carried)
             /\ carried.generation = g
             /\ carried.status = "working"
             /\ carried.version = c.version
             /\ carried.counts = c.counts
<1> DEFINE carried == Carried(c, g, sameTask, sameLanguage)
           kept == sameTask /\ sameLanguage
<1>1. c \in TaskState
  BY DEF StateInv
<1>2. /\ NoPositions \in Positions
      /\ NoReviews \in [Agents -> [Specialists -> Review \cup {None}]]
      /\ \A a \in Agents, s \in Specialists : NoReviews[a][s] = None
  BY DEF NoPositions, NoReviews, Positions
<1>3. /\ carried \in TaskState
      /\ carried.generation = g
      /\ carried.status = "working"
      /\ carried.version = c.version
      /\ carried.counts = c.counts
      /\ carried.proposal = IF kept THEN c.proposal ELSE None
      /\ carried.reviews = IF kept THEN c.reviews ELSE NoReviews
  BY <1>1, <1>2 DEF Carried, TaskState
<1> HIDE DEF carried
<1>4. StateInv(carried)
  BY <1>2, <1>3 DEF StateInv, Concluded
<1> QED
  BY <1>3, <1>4 DEF carried

\* What a confirmation may be of: a turn that was still allowed when it was confirmed.
Confirmable(c, kind, agent, r) ==
  /\ kind \in Kinds /\ agent \in Agents /\ r \in Reservation
  /\ MayTake(kind, agent, r.targets)
  /\ c.status \notin Concluded
  /\ kind \in Reviews \cup {"final"} => c.proposal = [body |-> r.proposal, positions |-> c.positions]
  /\ kind = "final" => HasConsensus(c)
  /\ Accepts(c, kind, r)

\* A new position takes the task back to work.
LEMMA WithPositionInv ==
  ASSUME NEW c, StateInv(c), NEW s \in Specialists
  PROVE  LET w == WithPosition(c, s)
         IN  /\ StateInv(w)
             /\ w.generation = c.generation /\ w.version = c.version /\ w.counts = c.counts
             /\ w.status = "working"
<1> DEFINE w == WithPosition(c, s)
           positions == [c.positions EXCEPT ![s] = @ + 1]
<1>1. c \in TaskState /\ c.positions \in Positions
  BY DEF StateInv, TaskState
<1>2. positions \in Positions
  BY <1>1 DEF Positions
<1>3. w = [c EXCEPT !.status = "working", !.positions = positions]
  BY <1>1 DEF WithPosition, TaskState
<1> HIDE DEF positions
<1>4. /\ w \in TaskState
      /\ w.status = "working" /\ w.reviews = c.reviews /\ w.proposal = c.proposal
      /\ w.generation = c.generation /\ w.version = c.version /\ w.counts = c.counts
  BY <1>1, <1>2, <1>3 DEF TaskState
<1> HIDE DEF w
<1>5. StateInv(w)
  BY <1>4 DEF StateInv, Concluded
<1> QED
  BY <1>4, <1>5 DEF w

\* A new candidate is built from the current positions, and nobody has reviewed it.
LEMMA WithProposalInv ==
  ASSUME NEW c, StateInv(c), NEW body \in Bodies
  PROVE  LET w == WithProposal(c, body)
         IN  /\ StateInv(w)
             /\ w.generation = c.generation /\ w.version = c.version + 1 /\ w.counts = c.counts
             /\ w.status = "working"
<1> DEFINE w == WithProposal(c, body)
           proposal == [body |-> body, positions |-> c.positions]
           number == c.version + 1
<1>1. c \in TaskState /\ c.positions \in Positions /\ number \in Nat
  BY DEF StateInv, TaskState
<1>2. proposal \in Candidate
  BY <1>1 DEF Candidate
<1>3. /\ NoReviews \in [Agents -> [Specialists -> Review \cup {None}]]
      /\ \A a \in Agents, s \in Specialists : NoReviews[a][s] = None
  BY DEF NoReviews
<1>4. w = [c EXCEPT !.status = "working", !.version = number, !.proposal = proposal,
                    !.reviews = NoReviews, !.disputed = FALSE]
  BY DEF WithProposal
<1> HIDE DEF proposal, number, w
<1>5. /\ w \in TaskState
      /\ w.status = "working" /\ w.reviews = NoReviews
      /\ w.generation = c.generation /\ w.version = number /\ w.counts = c.counts
  BY <1>1, <1>2, <1>3, <1>4 DEF TaskState
<1>6. StateInv(w)
  BY <1>3, <1>5 DEF StateInv, Concluded
<1> QED
  BY <1>5, <1>6 DEF w, number

\* A review is of the current candidate and counts for those it is about.
LEMMA WithReviewInv ==
  ASSUME NEW c, StateInv(c), NEW kind \in Reviews, NEW agent, NEW r, NEW decision \in Decisions,
         Confirmable(c, kind, agent, r)
  PROVE  LET w == WithReview(c, kind, agent, r, decision)
         IN  /\ StateInv(w)
             /\ w.generation = c.generation /\ w.version = c.version
             /\ \A s \in Specialists :
                  w.counts[s] = IF kind = "critic_review" /\ s \in r.targets
                                THEN c.counts[s] + 1 ELSE c.counts[s]
             /\ w.status \in {"working", "consensus"}
<1> DEFINE review == [proposal |-> c.proposal.body, decision |-> decision, positions |-> r.positions]
           row == [s \in Specialists |-> IF s \in r.targets THEN review ELSE c.reviews[agent][s]]
           reviews == [c.reviews EXCEPT ![agent] = row]
           counts == [s \in Specialists |-> IF kind = "critic_review" /\ s \in r.targets
                                            THEN c.counts[s] + 1 ELSE c.counts[s]]
           disputed == c.disputed \/ decision = "unresolved"
           reviewed == [c EXCEPT !.reviews = reviews, !.disputed = disputed, !.counts = counts]
           status == IF HasConsensus(reviewed) THEN "consensus" ELSE "working"
           w == WithReview(c, kind, agent, r, decision)
<1>1. /\ c \in TaskState
      /\ c.positions \in Positions
      /\ agent \in Agents /\ r \in Reservation
      /\ c.proposal = [body |-> r.proposal, positions |-> c.positions]
      /\ r.positions = c.positions
      /\ kind = "critic_review" => \A s \in r.targets : c.counts[s] < CriticCap
  BY DEF StateInv, TaskState, Confirmable, Accepts
<1>2. c.proposal # None /\ c.proposal \in Candidate
  BY <1>1, NoneAssumption DEF TaskState, Reservation, Positions
<1>3. review \in Review /\ review.positions = c.proposal.positions
  BY <1>1, <1>2 DEF Review, Candidate, Reservation
<1>4. c.reviews \in [Agents -> [Specialists -> Review \cup {None}]]
      /\ c.counts \in [Specialists -> Nat] /\ c.disputed \in BOOLEAN
  BY <1>1 DEF TaskState
<1>5. w = [reviewed EXCEPT !.status = status]
  BY <1>1, <1>4 DEF WithReview, TaskState
<1> HIDE DEF review
<1>6. row \in [Specialists -> Review \cup {None}]
      /\ \A s \in Specialists : row[s] \in {review, c.reviews[agent][s]}
  BY <1>1, <1>3, <1>4
<1> HIDE DEF row
<1>7. /\ reviews \in [Agents -> [Specialists -> Review \cup {None}]]
      /\ \A a \in Agents, s \in Specialists : reviews[a][s] \in {review, c.reviews[a][s]}
  BY <1>1, <1>4, <1>6
<1>8. /\ counts \in [Specialists -> Nat]
      /\ \A s \in Specialists : counts[s] <= CriticCap
      /\ \A s \in Specialists : counts[s] = IF kind = "critic_review" /\ s \in r.targets
                                            THEN c.counts[s] + 1 ELSE c.counts[s]
  BY <1>1, <1>4, BoundAssumption DEF StateInv
<1>9. disputed \in BOOLEAN
  BY <1>4
<1> HIDE DEF reviews, counts, disputed
<1>10. reviewed \in TaskState /\ reviewed.reviews = reviews /\ reviewed.counts = counts
       /\ reviewed.proposal = c.proposal /\ reviewed.positions = c.positions
       /\ reviewed.generation = c.generation /\ reviewed.version = c.version
  BY <1>1, <1>7, <1>8, <1>9 DEF TaskState
<1>11. status \in {"working", "consensus"} /\ (status = "consensus" => HasConsensus(reviewed))
  OBVIOUS
<1> HIDE DEF reviewed, status, w
<1>12. w \in TaskState /\ w.status = status /\ w.reviews = reviews /\ w.counts = counts
       /\ w.proposal = c.proposal /\ w.positions = c.positions
       /\ w.generation = c.generation /\ w.version = c.version
  BY <1>5, <1>10, <1>11 DEF TaskState
<1>13. status = "consensus" => HasConsensus(w)
  BY <1>10, <1>11, <1>12 DEF HasConsensus, Agrees
<1>14. \A a \in Agents, s \in Specialists :
         w.reviews[a][s] # None => w.reviews[a][s].positions = w.proposal.positions
  BY <1>3, <1>7, <1>12 DEF StateInv
<1>15. StateInv(w)
  BY <1>2, <1>8, <1>11, <1>12, <1>13, <1>14 DEF StateInv, Concluded
<1> QED
  BY <1>8, <1>11, <1>12, <1>15 DEF w

\* An outcome has a text; what is published is the candidate all agreed to.
LEMMA WithOutcomeInv ==
  ASSUME NEW c, StateInv(c), NEW status \in Concluded, NEW body \in Bodies,
         status = "published" => HasConsensus(c) /\ body = c.proposal.body
  PROVE  LET w == WithOutcome(c, status, body)
         IN  /\ StateInv(w)
             /\ w.generation = c.generation /\ w.version = c.version /\ w.counts = c.counts
             /\ w.status = status
<1> DEFINE w == WithOutcome(c, status, body)
<1>1. c \in TaskState
  BY DEF StateInv
<1>2. /\ w \in TaskState
      /\ w.status = status /\ w.final = body /\ w.reviews = c.reviews /\ w.proposal = c.proposal
      /\ w.positions = c.positions
      /\ w.generation = c.generation /\ w.version = c.version /\ w.counts = c.counts
  BY <1>1 DEF WithOutcome, TaskState
<1> HIDE DEF w
<1>3. HasConsensus(c) => HasConsensus(w)
  BY <1>2 DEF HasConsensus, Agrees
<1>4. StateInv(w)
  BY <1>2, <1>3, NoneAssumption DEF StateInv, Concluded
<1> QED
  BY <1>2, <1>4 DEF w

\* What a confirmed turn makes of the state of its task keeps the invariant; the version
\* counts the candidates, and the counts the critic's messages.
LEMMA UpdatedInv ==
  ASSUME NEW c, StateInv(c), NEW kind, NEW agent, NEW r, NEW body \in Bodies,
         NEW decision, kind \in Reviews => decision \in Decisions, Confirmable(c, kind, agent, r)
  PROVE  LET w == Updated(c, kind, agent, r, body, decision)
         IN  /\ StateInv(w)
             /\ w.generation = c.generation
             /\ w.version = IF kind = "proposal" THEN c.version + 1 ELSE c.version
             /\ \A s \in Specialists :
                  w.counts[s] = IF kind = "critic_review" /\ s \in r.targets
                                THEN c.counts[s] + 1 ELSE c.counts[s]
             /\ w.status \in Concluded => kind \in {"final", "unresolved"}
<1>1. kind \in Kinds
  BY DEF Confirmable
<1>2. CASE kind = "assignment"
  BY <1>2 DEF Updated, Confirmable, Reviews
<1>3. CASE kind = "position"
  <2>1. agent \in Specialists
    BY <1>3 DEF Confirmable, MayTake
  <2> QED
    BY <1>3, <2>1, WithPositionInv DEF Updated, Reviews, Concluded
<1>4. CASE kind = "proposal"
  BY <1>4, WithProposalInv DEF Updated, Reviews, Concluded
<1>5. CASE kind \in Reviews
  BY <1>5, WithReviewInv DEF Updated, Reviews, Concluded
<1>6. CASE kind = "unresolved"
  BY <1>6, WithOutcomeInv DEF Updated, Reviews, Concluded
<1>7. CASE kind = "final"
  <2>1. HasConsensus(c) /\ c.proposal.body \in Bodies
    BY <1>7 DEF Confirmable, HasConsensus, StateInv, TaskState, Candidate
  <2> QED
    BY <1>7, <2>1, WithOutcomeInv DEF Updated, Reviews, Concluded
<1> QED
  BY <1>1, <1>2, <1>3, <1>4, <1>5, <1>6, <1>7 DEF Kinds

-----------------------------------------------------------------------------
\* The ledger starts empty.
LEMMA LedgerInvInit == Init => LedgerInv
BY FS_EmptySet
DEF Init, NoRows, LedgerInv, SessionInv, TaskInv, DispatchInv, ConcludedInv

\* Sessions that open, are fenced or are continued keep the invariant.
LEMMA SessionStepsKeep ==
  ASSUME LedgerInv, OpenSession \/ FenceSession \/ Revise
  PROVE  LedgerInv'
<1> USE DEF LedgerInv
<1>1. CASE OpenSession \/ FenceSession
  <2>1. OpenSession => SessionInv'
    BY DEF OpenSession, SessionInv, Put
  <2>2. FenceSession => SessionInv'
    BY DEF FenceSession, SessionInv
  <2>3. /\ SessionInv'
        /\ generation \in Nat /\ generation' \in {generation, generation + 1}
        /\ UNCHANGED <<task, consensus, dispatch>>
    BY <1>1, <2>1, <2>2 DEF OpenSession, FenceSession, SessionInv
  <2>4. TaskInv'
    BY <2>3 DEF TaskInv
  <2>5. DispatchInv' /\ ConcludedInv'
    BY <2>3 DEF DispatchInv, ConcludedInv
  <2> QED
    BY <2>3, <2>4, <2>5
<1>2. CASE Revise
  <2>1. /\ generation \in Nat \ {0}
        /\ generation' = generation + 1 /\ open' = generation + 1
        /\ previous' = Put(previous, generation + 1, generation)
        /\ consensus' = consensus /\ dispatch' = dispatch
        /\ ~IsConcluded(generation)
    BY <1>2, BoundAssumption DEF Revise
  <2>2. SessionInv'
    BY <2>1 DEF SessionInv, Put
  <2>3. /\ DOMAIN task' \subseteq DOMAIN task \cup {generation + 1}
        /\ DOMAIN task \subseteq DOMAIN task'
        /\ \A g \in DOMAIN task : task'[g] = task[g]
        /\ generation + 1 \in DOMAIN task' =>
             generation \in DOMAIN task /\ task'[generation + 1] = task[generation]
    BY <1>2 DEF Revise, Put, TaskInv, SessionInv
  <2>4. TaskInv' /\ DispatchInv'
    BY <2>1, <2>3 DEF TaskInv, DispatchInv
  <2>5. ConcludedInv'
    <3> SUFFICES ASSUME NEW t \in DOMAIN consensus, consensus[t].status \in Concluded,
                        NEW g \in DOMAIN task', task'[g] = t
                 PROVE  g <= consensus[t].generation
      BY <2>1 DEF ConcludedInv
    <3>1. CASE g \in DOMAIN task
      BY <2>3, <3>1 DEF ConcludedInv
    <3>2. CASE g \notin DOMAIN task
      <4>1. generation \in DOMAIN task /\ task[generation] = t
        BY <2>3, <3>2
      <4>2. consensus[t].final # None
        BY DEF TaskInv, StateInv
      <4> QED
        BY <2>1, <4>1, <4>2 DEF IsConcluded
    <3> QED  BY <3>1, <3>2
  <2> QED
    BY <2>2, <2>4, <2>5
<1> QED  BY <1>1, <1>2

\* So does a task's first state, ...
LEMMA InitializeKeeps ==
  ASSUME LedgerInv, NEW t \in Tasks, Initialize(open, t)
  PROVE  LedgerInv'
<1> USE DEF LedgerInv
<1>1. /\ open # 0 /\ open = generation /\ generation \in Nat
      /\ open \notin DOMAIN task /\ t \notin DOMAIN consensus
      /\ UNCHANGED <<sessionVars, dispatch>>
  BY DEF Initialize, IsOpen, SessionInv
<1>2. /\ DOMAIN task' = DOMAIN task \cup {open} /\ task'[open] = t
      /\ \A g \in DOMAIN task : task'[g] = task[g]
  BY <1>1 DEF Initialize, Put
<1>3. /\ DOMAIN consensus' = DOMAIN consensus \cup {t} /\ consensus'[t] = NewTask(open)
      /\ \A u \in DOMAIN consensus : consensus'[u] = consensus[u]
  BY <1>1 DEF Initialize, Put
<1>4. StateInv(consensus'[t]) /\ consensus'[t].generation = open /\ consensus'[t].status = "working"
  BY <1>1, <1>3, NewTaskInv
<1>5. SessionInv'
  BY <1>1 DEF SessionInv, sessionVars
<1>6. TaskInv'
  BY <1>1, <1>2, <1>3, <1>4 DEF TaskInv, sessionVars, StateInv
<1>7. DispatchInv'
  BY <1>1, <1>2, <1>3 DEF DispatchInv, TaskInv
<1>8. ConcludedInv'
  BY <1>1, <1>2, <1>3, <1>4 DEF ConcludedInv, TaskInv, Concluded
<1> QED
  BY <1>5, <1>6, <1>7, <1>8

\* ... and the state carried into the generation that continues the task's.
LEMMA CarryOverKeeps ==
  ASSUME LedgerInv, NEW sameTask \in BOOLEAN, NEW sameLanguage \in BOOLEAN,
         CarryOver(open, sameTask, sameLanguage)
  PROVE  /\ LedgerInv'
         /\ consensus[task[open]].generation < open
         /\ consensus[task[open]].status \notin Concluded
<1> USE DEF LedgerInv
<1> DEFINE t == task[open]
           c == consensus[t]
           carried == Carried(c, open, sameTask, sameLanguage)
<1>1. /\ open # 0 /\ open = generation /\ generation \in Nat
      /\ open \in DOMAIN task /\ t \in DOMAIN consensus
      /\ c.generation = previous[open]
      /\ consensus' = [consensus EXCEPT ![t] = carried]
      /\ UNCHANGED <<sessionVars, task, dispatch>>
  BY DEF CarryOver, IsOpen, SessionInv, TaskInv, sessionVars
<1>2. c.generation < open /\ StateInv(c)
  BY <1>1 DEF SessionInv, TaskInv, StateInv
<1>3. StateInv(carried) /\ carried.generation = open /\ carried.status = "working"
  BY <1>1, <1>2, CarriedInv
<1>4. c.status \notin Concluded
  BY <1>1, <1>2 DEF ConcludedInv, StateInv, TaskState
<1> HIDE DEF carried
<1>5. /\ DOMAIN consensus' = DOMAIN consensus
      /\ consensus'[t] = carried
      /\ \A u \in DOMAIN consensus \ {t} : consensus'[u] = consensus[u]
  BY <1>1
<1>6. SessionInv'
  BY <1>1 DEF SessionInv, sessionVars
<1>7. TaskInv'
  BY <1>1, <1>3, <1>5 DEF TaskInv, sessionVars, StateInv
<1>8. DispatchInv'
  BY <1>1, <1>2, <1>3, <1>5 DEF DispatchInv, TaskInv, StateInv, TaskState
<1>9. ConcludedInv'
  BY <1>1, <1>3, <1>5 DEF ConcludedInv, TaskInv, Concluded
<1> QED
  BY <1>2, <1>4, <1>6, <1>7, <1>8, <1>9

\* A reservation adds one row, of the present generation of an open task.
LEMMA ReserveTurnKeeps ==
  ASSUME LedgerInv, NEW d, NEW body \in Bodies \cup {None}, NEW positions \in Positions,
         NEW targets \in SUBSET Specialists, ReserveTurn(d, body, positions, targets),
         d = <<d[1], d[2], d[3], d[4]>>, d[2] \in Kinds, d[3] \in Agents
  PROVE  /\ LedgerInv'
         /\ d[1] = open /\ open \in DOMAIN task
         /\ DOMAIN dispatch' = DOMAIN dispatch \cup {d}
         /\ dispatch'[d] = [targets |-> targets, proposal |-> body, positions |-> positions,
                            confirmed |-> FALSE]
         /\ \A e \in DOMAIN dispatch : dispatch'[e] = dispatch[e]
<1> USE DEF LedgerInv
<1> DEFINE r == [targets |-> targets, proposal |-> body, positions |-> positions,
                 confirmed |-> FALSE]
<1>1. /\ d \notin DOMAIN dispatch
      /\ dispatch' = Put(dispatch, d, r)
      /\ UNCHANGED <<sessionVars, task, consensus>>
      /\ MayTake(d[2], d[3], targets)
      /\ d[1] = open /\ open \in DOMAIN task /\ consensus[task[open]].generation = open
  BY DEF ReserveTurn, MayReserve, MayDispatch, IsOpen
<1>2. r \in Reservation /\ r.targets = targets
  BY DEF Reservation
<1>3. /\ DOMAIN dispatch' = DOMAIN dispatch \cup {d}
      /\ dispatch'[d] = r
      /\ \A e \in DOMAIN dispatch : dispatch'[e] = dispatch[e]
  BY <1>1 DEF Put
<1> HIDE DEF r
<1>4. IsFiniteSet(DOMAIN dispatch')
  BY <1>3, FS_AddElement DEF DispatchInv
<1>5. DispatchInv'
  <2>1. generation \in Nat /\ open \in Nat
    BY DEF SessionInv
  <2> QED
    BY <1>1, <1>2, <1>3, <1>4, <2>1 DEF DispatchInv
<1>6. SessionInv' /\ TaskInv' /\ ConcludedInv'
  BY <1>1 DEF sessionVars, SessionInv, TaskInv, ConcludedInv, HasConsensus, StateInv, Agrees
<1> QED
  BY <1>1, <1>3, <1>5, <1>6 DEF r

\* So does one made by a caller that has just read the state.
LEMMA ReserveKeeps ==
  ASSUME LedgerInv, NEW kind \in TurnKinds, NEW agent \in Agents, NEW targets \in SUBSET Specialists,
         Reserve(open, kind, agent, targets)
  PROVE  /\ LedgerInv'
         /\ \E d, r : /\ d \notin DOMAIN dispatch
                      /\ d[1] = open /\ d[2] = kind
                      /\ r.targets = targets /\ r.confirmed = FALSE
                      /\ dispatch' = Put(dispatch, d, r)
                      /\ kind = "critic_review" => \A s \in targets : CriticAllows(open, s)
         /\ open \in DOMAIN task
         /\ consensus[task[open]].generation = open
         /\ consensus[task[open]].status \notin Concluded
         /\ UNCHANGED <<sessionVars, task, consensus>>
<1> DEFINE c == consensus[task[open]]
           number == TurnNumber(c, kind, agent)
           d == DispatchId(open, kind, agent, number)
           r == [targets |-> targets, proposal |-> Subject(c, kind),
                 positions |-> c.positions, confirmed |-> FALSE]
<1>1. /\ open \in DOMAIN task /\ StateInv(c)
      /\ ReserveTurn(d, Subject(c, kind), c.positions, targets)
  BY DEF Reserve, LedgerInv, TaskInv
<1> HIDE DEF number
<1>2. d = <<open, kind, agent, number>> /\ d = <<d[1], d[2], d[3], d[4]>>
      /\ d[1] = open /\ d[2] = kind /\ d[3] = agent
  BY DEF DispatchId
<1> HIDE DEF d
<1>3. /\ Subject(c, kind) \in Bodies \cup {None} /\ c.positions \in Positions
      /\ kind \in Kinds
  BY <1>1, KindAssumption DEF Subject, StateInv, TaskState, Candidate, Kinds, Reviews
<1>4. LedgerInv'
  BY <1>1, <1>2, <1>3, ReserveTurnKeeps
<1>5. /\ d \notin DOMAIN dispatch
      /\ dispatch' = Put(dispatch, d, r)
      /\ UNCHANGED <<sessionVars, task, consensus>>
      /\ c.generation = open /\ c.status \notin Concluded
      /\ kind = "critic_review" => \A s \in targets : CriticAllows(open, s)
  BY <1>1, <1>2 DEF ReserveTurn, MayReserve, MayDispatch
<1>6. r.targets = targets /\ r.confirmed = FALSE
  OBVIOUS
<1> HIDE DEF r
<1> QED
  BY <1>1, <1>2, <1>4, <1>5, <1>6

\* A confirmation rewrites the state of one open task and marks one reservation.
LEMMA ConfirmKeeps ==
  ASSUME LedgerInv, NEW d \in Pending, NEW body \in Bodies,
         NEW decision, d[2] \in Reviews => decision \in Decisions,
         NEW handOff \in BOOLEAN, Confirm(d, body, decision, handOff)
  PROVE  LET t == task[open]
             c == consensus[t]
         IN  /\ LedgerInv'
             /\ d[1] = open /\ open \in DOMAIN task /\ t \in DOMAIN consensus
             /\ c.generation = open
             /\ c.status \notin Concluded
             /\ UNCHANGED <<sessionVars, task>>
             /\ DOMAIN consensus' = DOMAIN consensus
             /\ \A u \in DOMAIN consensus \ {t} : consensus'[u] = consensus[u]
             /\ consensus'[t].generation = open
             /\ consensus'[t].version = IF d[2] = "proposal" THEN c.version + 1 ELSE c.version
             /\ \A s \in Specialists :
                  consensus'[t].counts[s] =
                    IF d[2] = "critic_review" /\ s \in dispatch[d].targets
                    THEN c.counts[s] + 1 ELSE c.counts[s]
             /\ dispatch' = [dispatch EXCEPT ![d].confirmed = TRUE]
<1> USE DEF LedgerInv
<1> DEFINE t == task[open]
           c == consensus[t]
           r == dispatch[d]
           updated == Updated(c, d[2], d[3], r, body, decision)
           next == IF handOff THEN WithOutcome(updated, "unresolved", body) ELSE updated
<1>1. /\ d \in DOMAIN dispatch
      /\ d = <<d[1], d[2], d[3], d[4]>>
      /\ d[2] \in Kinds /\ d[3] \in Agents /\ r \in Reservation
      /\ MayTake(d[2], d[3], r.targets)
  BY DEF Pending, DispatchInv
<1>2. /\ d[1] = open /\ open # 0 /\ open \in DOMAIN task
      /\ MayDispatch(open, d[2], r.proposal)
      /\ Accepts(c, d[2], r)
      /\ handOff => MayHandOff(d[2], decision)
  BY DEF Confirm, MayConfirm, MayDispatch, IsOpen
<1>3. t \in DOMAIN consensus /\ StateInv(c) /\ open = generation /\ generation \in Nat
  BY <1>2 DEF TaskInv, SessionInv
<1>4. c.generation = open /\ c.status \notin Concluded /\ Confirmable(c, d[2], d[3], r)
  BY <1>1, <1>2 DEF MayDispatch, Confirmable
<1>5. /\ consensus' = [consensus EXCEPT ![t] = next]
      /\ dispatch' = [dispatch EXCEPT ![d].confirmed = TRUE]
      /\ UNCHANGED <<sessionVars, task>>
  BY <1>2 DEF Confirm
<1>6. /\ StateInv(updated)
      /\ updated.generation = open
      /\ updated.version = IF d[2] = "proposal" THEN c.version + 1 ELSE c.version
      /\ \A s \in Specialists :
           updated.counts[s] = IF d[2] = "critic_review" /\ s \in r.targets
                               THEN c.counts[s] + 1 ELSE c.counts[s]
  BY <1>3, <1>4, UpdatedInv
<1> HIDE DEF updated
<1>7. /\ StateInv(next)
      /\ next.generation = open
      /\ next.version = updated.version
      /\ next.counts = updated.counts
  BY <1>6, WithOutcomeInv DEF Concluded
<1> HIDE DEF next
<1>8. /\ DOMAIN consensus' = DOMAIN consensus
      /\ consensus'[t] = next
      /\ \A u \in DOMAIN consensus \ {t} : consensus'[u] = consensus[u]
  BY <1>3, <1>5
<1>9. SessionInv'
  BY <1>5 DEF SessionInv, sessionVars
<1>10. TaskInv'
  BY <1>3, <1>4, <1>5, <1>7, <1>8 DEF TaskInv, sessionVars, StateInv
<1>11. DispatchInv'
  <2>1. /\ DOMAIN dispatch' = DOMAIN dispatch
        /\ dispatch'[d] = [r EXCEPT !.confirmed = TRUE]
        /\ \A e \in DOMAIN dispatch \ {d} : dispatch'[e] = dispatch[e]
    BY <1>1, <1>5
  <2>2. [r EXCEPT !.confirmed = TRUE] \in Reservation
        /\ [r EXCEPT !.confirmed = TRUE].targets = r.targets
    BY <1>1 DEF Reservation
  <2>3. \A u \in DOMAIN consensus : consensus'[u].generation = consensus[u].generation
    BY <1>4, <1>7, <1>8
  <2> QED
    BY <1>1, <1>3, <1>5, <2>1, <2>2, <2>3 DEF DispatchInv, TaskInv
<1>12. ConcludedInv'
  BY <1>3, <1>4, <1>5, <1>7, <1>8 DEF ConcludedInv, TaskInv
<1> QED
  BY <1>2, <1>3, <1>4, <1>5, <1>6, <1>7, <1>8, <1>9, <1>10, <1>11, <1>12

\* Every step keeps the invariant.
LEMMA LedgerInvStep == LedgerInv /\ [Next]_vars => LedgerInv'
<1> SUFFICES ASSUME LedgerInv, [Next]_vars
             PROVE  LedgerInv'
  OBVIOUS
<1>1. CASE UNCHANGED vars
  BY <1>1 DEF vars, sessionVars, LedgerInv, SessionInv, TaskInv, DispatchInv, ConcludedInv,
              StateInv, HasConsensus, Agrees
<1> QED
  BY <1>1, SessionStepsKeep, InitializeKeeps, CarryOverKeeps, ReserveKeeps, ConfirmKeeps DEF Next

\* It always holds.
LEMMA LedgerInvHolds == Spec => []LedgerInv
BY LedgerInvInit, LedgerInvStep, PTL DEF Spec

-----------------------------------------------------------------------------
\* A task is agreed or published only when everyone agreed to the candidate, shown the very
\* positions it is built from (hasConsensus, dispatchState, confirmConsensusMessage).
THEOREM ConsentIsInformed == Spec => []InformedConsent
<1>1. LedgerInv => InformedConsent
  <2> SUFFICES ASSUME LedgerInv, NEW t \in DOMAIN consensus,
                      consensus[t].status \in {"consensus", "published"}
               PROVE  LET c == consensus[t]
                      IN  /\ c.proposal # None /\ c.proposal.positions = c.positions
                          /\ c.status = "published" => c.final = c.proposal.body
                          /\ \A s \in Specialists :
                               /\ c.positions[s] # 0
                               /\ \A a \in {s, CriticAgent, HeadAgent} : Consents(c, a, s)
    BY DEF InformedConsent
  <2> DEFINE c == consensus[t]
  <2>1. StateInv(c)
    BY DEF LedgerInv, TaskInv
  <2> HIDE DEF c
  <2>2. HasConsensus(c) /\ c \in TaskState
    BY <2>1 DEF StateInv, c
  <2>3. c.proposal # None /\ c.proposal \in Candidate
    BY <2>2 DEF HasConsensus, TaskState
  <2>4. c.proposal.positions = c.positions
    <3>1. c.proposal.positions \in Positions /\ c.positions \in Positions
      BY <2>2, <2>3 DEF TaskState, Candidate
    <3>2. \A s \in Specialists : c.positions[s] = c.proposal.positions[s]
      BY <2>2 DEF HasConsensus
    <3> QED
      BY <3>1, <3>2 DEF Positions
  <2>5. \A s \in Specialists : \A a \in {s, CriticAgent, HeadAgent} : Consents(c, a, s)
    BY <2>1, <2>2, <2>4 DEF StateInv, HasConsensus, Agrees, Consents, Agents
  <2>6. c.status = "published" => c.final = c.proposal.body
    BY <2>1 DEF StateInv
  <2> QED
    BY <2>2, <2>3, <2>4, <2>5, <2>6 DEF HasConsensus, c
<1> QED
  BY <1>1, LedgerInvHolds, PTL

\* No late turn, Continue or initialization changes the outcome of a concluded task, nor a
\* turn reserved for it (activeError, dispatchState, reviseSession).
THEOREM OutcomeIsFinal == Spec => OutcomeStands
<1>1. LedgerInv /\ [Next]_vars =>
        [\A t \in DOMAIN consensus :
           consensus[t].status \in Concluded =>
             /\ consensus'[t] = consensus[t]
             /\ \A d \in Reserved(t) : dispatch'[d] = dispatch[d]]_vars
  <2> SUFFICES ASSUME LedgerInv, Next, NEW t \in DOMAIN consensus,
                      consensus[t].status \in Concluded
               PROVE  /\ consensus'[t] = consensus[t]
                      /\ \A d \in Reserved(t) : dispatch'[d] = dispatch[d]
    OBVIOUS
  <2>1. CASE OpenSession \/ FenceSession \/ Revise
    BY <2>1 DEF OpenSession, FenceSession, Revise
  <2>2. ASSUME NEW u \in Tasks, Initialize(open, u)
        PROVE  consensus'[t] = consensus[t] /\ dispatch' = dispatch
    BY <2>2 DEF Initialize, Put
  <2>3. ASSUME NEW sameTask \in BOOLEAN, NEW sameLanguage \in BOOLEAN,
               CarryOver(open, sameTask, sameLanguage)
        PROVE  consensus'[t] = consensus[t] /\ dispatch' = dispatch
    <3>1. task[open] # t
      BY <2>3, CarryOverKeeps
    <3> QED
      BY <2>3, <3>1 DEF CarryOver
  <2>4. ASSUME NEW kind \in TurnKinds, NEW agent \in Agents, NEW targets \in SUBSET Specialists,
               Reserve(open, kind, agent, targets)
        PROVE  consensus' = consensus /\ \A d \in DOMAIN dispatch : dispatch'[d] = dispatch[d]
    <3>1. \E d, r : d \notin DOMAIN dispatch /\ dispatch' = Put(dispatch, d, r)
      BY <2>4 DEF Reserve, ReserveTurn, MayReserve
    <3>2. consensus' = consensus
      BY <2>4 DEF Reserve, ReserveTurn
    <3> QED
      BY <3>1, <3>2 DEF Put
  <2>5. ASSUME NEW d \in Pending, NEW body \in Bodies, NEW decision \in Decisions,
               NEW handOff \in BOOLEAN, Confirm(d, body, decision, handOff)
        PROVE  /\ consensus'[t] = consensus[t]
               /\ \A e \in Reserved(t) : dispatch'[e] = dispatch[e]
    <3>1. /\ task[open] # t /\ d[1] = open
          /\ \A u \in DOMAIN consensus \ {task[open]} : consensus'[u] = consensus[u]
          /\ dispatch' = [dispatch EXCEPT ![d].confirmed = TRUE]
      BY <2>5, ConfirmKeeps
    <3>2. d \notin Reserved(t)
      BY <3>1 DEF Reserved
    <3> QED
      BY <3>1, <3>2 DEF Reserved
  <2> QED
    BY <2>1, <2>2, <2>3, <2>4, <2>5 DEF Next, Reserved
<1> QED
  BY <1>1, LedgerInvHolds, PTL DEF Spec, OutcomeStands

-----------------------------------------------------------------------------
\* The turns of a kind that were confirmed for a task, and the critic's about s.
Said(t, kind) == {d \in Reserved(t) \ Pending : d[2] = kind}
SaidAbout(t, s) == {d \in Said(t, "critic_review") : s \in dispatch[d].targets}

\* All of these sets are finite.
LEMMA BooksAreFinite ==
  ASSUME LedgerInv, NEW t, NEW kind, NEW s, NEW g
  PROVE  /\ IsFiniteSet(Said(t, kind)) /\ IsFiniteSet(SaidAbout(t, s)) /\ IsFiniteSet(Held(g, s))
         /\ Cardinality(Said(t, kind)) \in Nat
         /\ Cardinality(SaidAbout(t, s)) \in Nat
         /\ Cardinality(Held(g, s)) \in Nat
<1>1. IsFiniteSet(DOMAIN dispatch)
  BY DEF LedgerInv, DispatchInv
<1>2. /\ Said(t, kind) \in SUBSET DOMAIN dispatch
      /\ SaidAbout(t, s) \in SUBSET DOMAIN dispatch
      /\ Held(g, s) \in SUBSET DOMAIN dispatch
  BY DEF Said, SaidAbout, Held, Pending, Reserved
<1>3. IsFiniteSet(Said(t, kind)) /\ IsFiniteSet(SaidAbout(t, s)) /\ IsFiniteSet(Held(g, s))
  BY <1>1, <1>2, FS_Subset
<1> QED
  BY <1>3, FS_CardinalityType

\* The books of one task.
Balance(t) ==
  LET c == consensus[t]
  IN  /\ c.version = Cardinality(Said(t, "proposal"))
      /\ \A s \in Specialists :
           /\ c.counts[s] = Cardinality(SaidAbout(t, s))
           /\ c.counts[s] + Cardinality(Held(c.generation, s)) <= CriticCap

\* They balance for as long as neither the turns nor the task's counters change.
LEMMA SameBooks ==
  ASSUME LedgerInv, dispatch' = dispatch, \A g \in DOMAIN task : task'[g] = task[g]
  PROVE  /\ \A t, kind : Said(t, kind)' = Said(t, kind)
         /\ \A t, s : SaidAbout(t, s)' = SaidAbout(t, s)
         /\ \A g, s : Held(g, s)' = Held(g, s)
<1>1. \A t : Reserved(t)' = Reserved(t)
  BY DEF Reserved, LedgerInv, DispatchInv
<1>2. Pending' = Pending
  BY DEF Pending
<1>3. \A t, kind : Said(t, kind)' = Said(t, kind)
  BY <1>1, <1>2 DEF Said
<1>4. \A t, s : SaidAbout(t, s)' = SaidAbout(t, s)
  BY <1>3 DEF SaidAbout
<1>5. \A g, s : Held(g, s)' = Held(g, s)
  BY <1>2 DEF Held
<1> QED
  BY <1>1, <1>2, <1>3, <1>4, <1>5

\* A session that opens, is fenced or is continued leaves the books alone.
LEMMA BooksOverSessions ==
  ASSUME LedgerInv, OpenSession \/ FenceSession \/ Revise,
         NEW t \in DOMAIN consensus, Balance(t)
  PROVE  Balance(t)'
<1>1. /\ consensus' = consensus /\ dispatch' = dispatch
      /\ \A g \in DOMAIN task : task'[g] = task[g]
  <2>1. CASE OpenSession \/ FenceSession
    BY <2>1 DEF OpenSession, FenceSession
  <2>2. CASE Revise
    <3>1. generation + 1 \notin DOMAIN task
      BY DEF LedgerInv, TaskInv, SessionInv
    <3> QED
      BY <2>2, <3>1 DEF Revise, Put
  <2> QED
    BY <2>1, <2>2
<1> QED
  BY <1>1, SameBooks DEF Balance

\* A task's first state has no turns; those of another task are not its own.
LEMMA BooksOverInitialize ==
  ASSUME LedgerInv, NEW u \in Tasks, Initialize(open, u),
         \A t \in DOMAIN consensus : Balance(t), NEW t \in DOMAIN consensus'
  PROVE  Balance(t)'
<1>0. /\ u \notin DOMAIN consensus /\ open \notin DOMAIN task /\ open \in Nat
      /\ dispatch' = dispatch
      /\ \A g \in DOMAIN task : task'[g] = task[g]
  BY DEF Initialize, Put, LedgerInv, SessionInv
<1>1. /\ \A x, kind : Said(x, kind)' = Said(x, kind)
      /\ \A x, s : SaidAbout(x, s)' = SaidAbout(x, s)
      /\ \A g, s : Held(g, s)' = Held(g, s)
  BY <1>0, SameBooks
<1>2. CASE t # u
  <2>1. t \in DOMAIN consensus /\ consensus'[t] = consensus[t]
    BY <1>2 DEF Initialize, Put
  <2> QED
    BY <1>1, <2>1 DEF Balance
<1>3. CASE t = u
  <2>1. consensus'[t] = NewTask(open)
    BY <1>3 DEF Initialize, Put
  <2>2. Reserved(t) = {}
    BY <1>0, <1>3 DEF Reserved, LedgerInv, DispatchInv, TaskInv
  <2>3. Said(t, "proposal") = {} /\ \A s : SaidAbout(t, s) = {}
    BY <2>2 DEF Said, SaidAbout
  <2>4. \A s : Held(open, s) = {}
    BY <1>0 DEF Held, Pending, LedgerInv, DispatchInv
  <2>5. /\ consensus'[t].version = 0 /\ consensus'[t].generation = open
        /\ \A s \in Specialists : consensus'[t].counts[s] = 0
    BY <1>0, <2>1, NewTaskInv
  <2> QED
    BY <1>1, <2>3, <2>4, <2>5, FS_EmptySet, BoundAssumption DEF Balance
<1> QED
  BY <1>2, <1>3

\* Continue keeps the counts; no turn of the generation it opens is pending yet.
LEMMA BooksOverCarryOver ==
  ASSUME LedgerInv, NEW sameTask \in BOOLEAN, NEW sameLanguage \in BOOLEAN,
         CarryOver(open, sameTask, sameLanguage),
         NEW t \in DOMAIN consensus, Balance(t)
  PROVE  Balance(t)'
<1>0. /\ open \in Nat /\ open \in DOMAIN task /\ task[open] \in DOMAIN consensus
      /\ dispatch' = dispatch /\ task' = task
      /\ consensus' = [consensus EXCEPT ![task[open]] =
                         Carried(consensus[task[open]], open, sameTask, sameLanguage)]
      /\ consensus[task[open]].generation < open
  <2>1. open \in Nat /\ (open \in DOMAIN task => task[open] \in DOMAIN consensus)
    BY DEF LedgerInv, SessionInv, TaskInv
  <2>2. consensus[task[open]].generation < open
    BY CarryOverKeeps
  <2> QED
    BY <2>1, <2>2 DEF CarryOver, sessionVars
<1>1. /\ \A x, kind : Said(x, kind)' = Said(x, kind)
      /\ \A x, s : SaidAbout(x, s)' = SaidAbout(x, s)
      /\ \A g, s : Held(g, s)' = Held(g, s)
  BY <1>0, SameBooks
<1>2. CASE t # task[open]
  <2>1. consensus'[t] = consensus[t]
    BY <1>0, <1>2
  <2> QED
    BY <1>1, <2>1 DEF Balance
<1>3. CASE t = task[open]
  <2>1. StateInv(consensus[t])
    BY DEF LedgerInv, TaskInv
  <2>2. /\ consensus'[t].generation = open
        /\ consensus'[t].version = consensus[t].version
        /\ consensus'[t].counts = consensus[t].counts
    BY <1>0, <1>3, <2>1, CarriedInv
  <2>3. \A s : Held(open, s) = {}
    <3>1. consensus[t].generation \in Nat
      BY <2>1 DEF StateInv, TaskState
    <3>2. \A d \in Pending : d[1] # open
      BY <1>0, <1>3, <3>1 DEF Pending, LedgerInv, DispatchInv
    <3> QED
      BY <3>2 DEF Held
  <2>4. \A s \in Specialists : consensus[t].counts[s] \in Nat /\ consensus[t].counts[s] <= CriticCap
    BY <2>1 DEF StateInv, TaskState
  <2>5. \A s : Held(consensus[t].generation, s)' = {}
    BY <1>0, <2>2, <2>3 DEF Held, Pending
  <2>6. \A s \in Specialists :
          consensus[t].counts[s] + Cardinality(Held(consensus[t].generation, s)') <= CriticCap
    BY <2>4, <2>5, FS_EmptySet, BoundAssumption
  <2> QED
    BY <1>1, <2>2, <2>6 DEF Balance
<1> QED
  BY <1>2, <1>3

\* A reservation confirms nothing, and the critic's fits into the allowance that is left.
LEMMA BooksOverReserve ==
  ASSUME LedgerInv, NEW kind \in TurnKinds, NEW agent \in Agents, NEW targets \in SUBSET Specialists,
         Reserve(open, kind, agent, targets), NEW t \in DOMAIN consensus, Balance(t)
  PROVE  Balance(t)'
<1>1. PICK d, r : /\ d \notin DOMAIN dispatch
                  /\ d[1] = open /\ d[2] = kind
                  /\ r.targets = targets /\ r.confirmed = FALSE
                  /\ dispatch' = Put(dispatch, d, r)
                  /\ kind = "critic_review" => \A s \in targets : CriticAllows(open, s)
  BY ReserveKeeps
<1>2. consensus' = consensus /\ task' = task
  BY ReserveKeeps
<1>3. /\ DOMAIN dispatch' = DOMAIN dispatch \cup {d} /\ dispatch'[d] = r
      /\ \A e \in DOMAIN dispatch : dispatch'[e] = dispatch[e]
  BY <1>1 DEF Put
<1>4. Pending' = Pending \cup {d} /\ d \notin Pending
  BY <1>1, <1>3 DEF Pending
<1>5. Reserved(t)' \in {Reserved(t), Reserved(t) \cup {d}} /\ d \notin Reserved(t)
  BY <1>1, <1>2, <1>3 DEF Reserved
<1>6. \A k : Said(t, k)' = Said(t, k)
  BY <1>3, <1>4, <1>5 DEF Said
<1>7. \A s : SaidAbout(t, s)' = SaidAbout(t, s)
  <2>1. \A e \in Said(t, "critic_review") : dispatch'[e] = dispatch[e]
    BY <1>3 DEF Said, Reserved
  <2> QED
    BY <1>6, <2>1 DEF SaidAbout
<1>8. \A s \in Specialists :
        consensus[t].counts[s] + Cardinality(Held(consensus[t].generation, s)') <= CriticCap
  <2> SUFFICES ASSUME NEW s \in Specialists
               PROVE  consensus[t].counts[s] + Cardinality(Held(consensus[t].generation, s)') <= CriticCap
    OBVIOUS
  <2> DEFINE g == consensus[t].generation
  <2>0. /\ consensus[t].counts[s] \in Nat /\ CriticCap \in Nat
        /\ consensus[t].counts[s] + Cardinality(Held(g, s)) <= CriticCap
        /\ IsFiniteSet(Held(g, s)) /\ Cardinality(Held(g, s)) \in Nat
    BY BooksAreFinite, BoundAssumption DEF Balance, LedgerInv, TaskInv, StateInv, TaskState
  <2>1. CASE g = open /\ kind = "critic_review" /\ s \in targets
    <3>1. Held(g, s)' = Held(g, s) \cup {d} /\ d \notin Held(g, s)
      BY <1>1, <1>2, <1>3, <1>4, <2>1 DEF Held, Pending
    <3>2. t = task[open]
      BY <2>1 DEF LedgerInv, TaskInv
    <3>3. consensus[t].counts[s] + Cardinality(Held(g, s)) < CriticCap
      BY <1>1, <2>1, <3>2 DEF CriticAllows
    <3>4. Cardinality(Held(g, s)') = Cardinality(Held(g, s)) + 1
      BY <2>0, <3>1, FS_AddElement
    <3> QED
      BY <1>2, <2>0, <3>3, <3>4
  <2>2. CASE ~(g = open /\ kind = "critic_review" /\ s \in targets)
    <3>1. Held(g, s)' = Held(g, s)
      BY <1>1, <1>2, <1>3, <1>4, <2>2 DEF Held, Pending
    <3> QED
      BY <1>2, <2>0, <3>1
  <2> QED  BY <2>1, <2>2
<1> QED
  BY <1>2, <1>6, <1>7, <1>8 DEF Balance

\* A confirmed turn moves from the pending ones to those that were said.
LEMMA BooksOverConfirm ==
  ASSUME LedgerInv, NEW d \in Pending, NEW body \in Bodies, NEW decision \in Decisions,
         NEW handOff \in BOOLEAN, Confirm(d, body, decision, handOff),
         NEW t \in DOMAIN consensus, Balance(t)
  PROVE  Balance(t)'
<1>1. /\ d[1] = open /\ open \in DOMAIN task
      /\ task' = task /\ open' = open
      /\ consensus[task[open]].generation = open
      /\ consensus'[task[open]].generation = open
      /\ \A u \in DOMAIN consensus \ {task[open]} : consensus'[u] = consensus[u]
      /\ dispatch' = [dispatch EXCEPT ![d].confirmed = TRUE]
  BY ConfirmKeeps DEF sessionVars
<1>2. /\ d \in DOMAIN dispatch /\ dispatch[d] \in Reservation /\ ~dispatch[d].confirmed
  BY DEF Pending, LedgerInv, DispatchInv
<1>3. /\ DOMAIN dispatch' = DOMAIN dispatch
      /\ dispatch'[d].confirmed /\ dispatch'[d].targets = dispatch[d].targets
      /\ \A e \in DOMAIN dispatch \ {d} : dispatch'[e] = dispatch[e]
  BY <1>1, <1>2 DEF Reservation
<1>4. Pending' = Pending \ {d}
  BY <1>2, <1>3 DEF Pending
<1>5. \A u : Reserved(u)' = Reserved(u)
  BY <1>1, <1>3 DEF Reserved
<1>6. \A e \in DOMAIN dispatch : dispatch'[e].targets = dispatch[e].targets
  BY <1>3
<1>7. CASE t # task[open]
  <2>1. d \notin Reserved(t)
    BY <1>1, <1>7 DEF Reserved
  <2>2. \A k : Said(t, k)' = Said(t, k)
    BY <1>4, <1>5, <2>1 DEF Said
  <2>3. \A s : SaidAbout(t, s)' = SaidAbout(t, s)
    BY <1>6, <2>2 DEF SaidAbout, Said, Reserved
  <2>4. consensus'[t] = consensus[t] /\ consensus[t].generation # open
    BY <1>1, <1>7 DEF LedgerInv, TaskInv
  <2>5. \A s : Held(consensus[t].generation, s)' = Held(consensus[t].generation, s)
    BY <1>1, <1>4, <1>6, <2>4 DEF Held, Pending
  <2> QED
    BY <2>2, <2>3, <2>4, <2>5 DEF Balance
<1>8. CASE t = task[open]
  <2>1. d \in Reserved(t) \ Said(t, d[2]) /\ \A k : d \notin Said(t, k)
    BY <1>1, <1>2, <1>8 DEF Reserved, Said
  <2>2. /\ consensus'[t].version =
             IF d[2] = "proposal" THEN consensus[t].version + 1 ELSE consensus[t].version
        /\ \A s \in Specialists :
             consensus'[t].counts[s] =
               IF d[2] = "critic_review" /\ s \in dispatch[d].targets
               THEN consensus[t].counts[s] + 1 ELSE consensus[t].counts[s]
    BY <1>8, ConfirmKeeps
  <2>3. consensus'[t].version = Cardinality(Said(t, "proposal")')
    <3>1. CASE d[2] = "proposal"
      <4>1. Said(t, "proposal")' = Said(t, "proposal") \cup {d}
        BY <1>4, <1>5, <2>1, <3>1 DEF Said
      <4> QED
        BY <2>1, <2>2, <3>1, <4>1, BooksAreFinite, FS_AddElement DEF Balance
    <3>2. CASE d[2] # "proposal"
      <4>1. Said(t, "proposal")' = Said(t, "proposal")
        BY <1>4, <1>5, <3>2 DEF Said
      <4> QED
        BY <2>2, <3>2, <4>1 DEF Balance
    <3> QED  BY <3>1, <3>2
  <2>4. ASSUME NEW s \in Specialists
        PROVE  /\ consensus'[t].counts[s] = Cardinality(SaidAbout(t, s)')
               /\ consensus'[t].counts[s] + Cardinality(Held(open, s)') <= CriticCap
    <3>0. /\ consensus[t].counts[s] = Cardinality(SaidAbout(t, s))
          /\ consensus[t].counts[s] + Cardinality(Held(open, s)) <= CriticCap
          /\ consensus[t].counts[s] \in Nat /\ CriticCap \in Nat
          /\ IsFiniteSet(SaidAbout(t, s)) /\ IsFiniteSet(Held(open, s))
          /\ Cardinality(Held(open, s)) \in Nat
      BY <1>1, <1>8, BooksAreFinite, BoundAssumption DEF Balance
    <3>1. CASE d[2] = "critic_review" /\ s \in dispatch[d].targets
      <4>1. SaidAbout(t, s)' = SaidAbout(t, s) \cup {d} /\ d \notin SaidAbout(t, s)
        <5>1. Said(t, "critic_review")' = Said(t, "critic_review") \cup {d}
          BY <1>4, <1>5, <2>1, <3>1 DEF Said
        <5> QED
          BY <1>2, <1>6, <2>1, <3>1, <5>1 DEF SaidAbout, Said, Reserved
      <4>2. Held(open, s)' = Held(open, s) \ {d} /\ d \in Held(open, s)
        BY <1>1, <1>4, <1>6, <3>1 DEF Held, Pending
      <4>3. Cardinality(SaidAbout(t, s)') = Cardinality(SaidAbout(t, s)) + 1
        BY <3>0, <4>1, FS_AddElement
      <4>4. Cardinality(Held(open, s)') = Cardinality(Held(open, s)) - 1
        BY <3>0, <4>2, FS_RemoveElement
      <4> QED
        BY <2>2, <3>0, <3>1, <4>3, <4>4
    <3>2. CASE ~(d[2] = "critic_review" /\ s \in dispatch[d].targets)
      <4>1. SaidAbout(t, s)' = SaidAbout(t, s)
        BY <1>2, <1>4, <1>5, <1>6, <3>2 DEF SaidAbout, Said, Reserved
      <4>2. Held(open, s)' = Held(open, s)
        BY <1>1, <1>4, <1>6, <3>2 DEF Held, Pending
      <4> QED
        BY <2>2, <3>0, <3>2, <4>1, <4>2
    <3> QED  BY <3>1, <3>2
  <2>5. \A s : Held(consensus[t].generation, s)' = Held(open, s)'
    BY <1>1, <1>8 DEF Held
  <2> QED
    BY <2>3, <2>4, <2>5 DEF Balance
<1> QED
  BY <1>7, <1>8

\* Over every generation of a task, each count is the number of critic messages published,
\* published and pending ones stay within the allowance, and the version counts the
\* candidates (criticAllowance, confirmConsensusMessage, initializeConsensus).
THEOREM BooksAlwaysBalance == Spec => []BooksBalance
<1> DEFINE Books == \A t \in DOMAIN consensus : Balance(t)
<1>1. Init => Books
  BY DEF Init, NoRows
<1>2. LedgerInv /\ Books /\ [Next]_vars => Books'
  <2> SUFFICES ASSUME LedgerInv, Books, [Next]_vars, NEW t \in DOMAIN consensus'
               PROVE  Balance(t)'
    OBVIOUS
  <2>1. CASE OpenSession \/ FenceSession \/ Revise
    BY <2>1, BooksOverSessions DEF OpenSession, FenceSession, Revise
  <2>2. ASSUME NEW u \in Tasks, Initialize(open, u)
        PROVE  Balance(t)'
    BY <2>2, BooksOverInitialize
  <2>3. ASSUME NEW sameTask \in BOOLEAN, NEW sameLanguage \in BOOLEAN,
               CarryOver(open, sameTask, sameLanguage)
        PROVE  Balance(t)'
    <3>1. t \in DOMAIN consensus
      BY <2>3 DEF CarryOver
    <3> QED
      BY <2>3, <3>1, BooksOverCarryOver
  <2>4. ASSUME NEW kind \in TurnKinds, NEW agent \in Agents, NEW targets \in SUBSET Specialists,
               Reserve(open, kind, agent, targets)
        PROVE  Balance(t)'
    <3>1. t \in DOMAIN consensus
      BY <2>4 DEF Reserve, ReserveTurn
    <3> QED
      BY <2>4, <3>1, BooksOverReserve
  <2>5. ASSUME NEW d \in Pending, NEW body \in Bodies, NEW decision \in Decisions,
               NEW handOff \in BOOLEAN, Confirm(d, body, decision, handOff)
        PROVE  Balance(t)'
    <3>1. t \in DOMAIN consensus
      BY <2>5 DEF Confirm
    <3> QED
      BY <2>5, <3>1, BooksOverConfirm
  <2>6. CASE UNCHANGED vars
    <3>1. consensus' = consensus /\ dispatch' = dispatch /\ task' = task
      BY <2>6 DEF vars
    <3>2. Balance(t)
      BY <3>1
    <3> QED
      BY <3>1, <3>2, SameBooks DEF Balance
  <2> QED
    BY <2>1, <2>2, <2>3, <2>4, <2>5, <2>6 DEF Next
<1>3. Books => BooksBalance
  BY DEF Balance, BooksBalance, Said, SaidAbout
<1> QED
  BY <1>1, <1>2, <1>3, LedgerInvHolds, PTL DEF Spec

-----------------------------------------------------------------------------
(***************************************************************************)
(* Second part: the router's runs over the ledger, for any number of them. *)
(*                                                                         *)
(* The runs, and whose turns are in progress: only the latest generation   *)
(* has a run in progress, and nothing is reserved or said in a generation  *)
(* that never had one.                                                     *)
(***************************************************************************)
Outcomes == {"final", "unresolved", "safety_handoff"}
Gate == {"seal", "close"}
TurnIds == Nat \X Kinds \X Agents \X Nat

RunRecord ==
  [calls : Nat, live : BOOLEAN, rejected : BOOLEAN, result : Outcomes \cup {None, "failed"}]

TurnRecord ==
  [id : TurnIds, run : Nat, body : Bodies \cup {None}, positions : Positions,
   targets : SUBSET Specialists, step : {"reserve", "model"} \cup Gate,
   outcome : Outcomes \cup {None}]

RunsOK ==
  /\ DOMAIN run \subseteq DOMAIN task
  /\ \A g \in DOMAIN run :
       /\ run[g] \in RunRecord
       /\ run[g].live => /\ g = generation /\ consensus[task[g]].generation = g
                         /\ run[g].result # "failed"
       /\ ~run[g].live => run[g].result # None
  /\ \A t \in DOMAIN consensus : consensus[t].generation \in DOMAIN run
  /\ \A d \in DOMAIN dispatch : d \in TurnIds /\ d[1] \in DOMAIN run

TurnsOK ==
  \A d \in DOMAIN turn :
    /\ d \in TurnIds /\ turn[d] \in TurnRecord
    /\ turn[d].id = d /\ turn[d].run = d[1] /\ d[1] \in Running

\* The status an outcome leaves its task in.
StatusOf(outcome) == IF outcome = "final" THEN "published" ELSE "unresolved"

\* A turn goes to the gate with its outcome written, and closes with all sealed.
GateOK ==
  \A d \in DOMAIN turn :
    /\ turn[d].step \in Gate =>
         /\ turn[d].outcome \in Outcomes
         /\ consensus[task[d[1]]].status = StatusOf(turn[d].outcome)
    /\ turn[d].step = "close" => d[1] \in DOMAIN archived /\ archived[d[1]] = Confirmed(d[1])

\* A closed generation has its outcome, and an outcome is kept.
ClosedOK ==
  /\ \A g \in closed : g \in DOMAIN run /\ open # g /\ run[g].result \in Outcomes
  /\ \A g \in DOMAIN run : run[g].result \in Outcomes => IsKept(g)

\* A review that leaves an issue open has said so in the state.
IsDisputed(c) ==
  \A a \in Agents, s \in Specialists :
    c.reviews[a][s] # None /\ c.reviews[a][s].decision = "unresolved" => c.disputed

DisputesOK == \A t \in DOMAIN consensus : IsDisputed(consensus[t])

RunInv == LedgerInv /\ RunsOK /\ TurnsOK /\ GateOK /\ ClosedOK /\ DisputesOK

(***************************************************************************)
(* Runs that nobody stopped and no call failed: their turns are those the  *)
(* state calls for, and no turn they still may take was ever reserved.     *)
(***************************************************************************)
Alone == {"proposal", "critic_review", "head_review", "unresolved", "final"}

\* The turn is one the state c calls for.
IsDue(c, d, t) ==
  /\ MayTake(d[2], d[3], t.targets)
  /\ d[4] = TurnNumber(c, d[2], d[3])
  /\ d[2] \in Reviews \cup {"final"} => c.proposal = [body |-> t.body, positions |-> c.positions]
  /\ d[2] \in Reviews \cup {"proposal", "final"} => t.positions = c.positions
  /\ d[2] = "final" => HasConsensus(c)
  /\ d[2] = "proposal" => \A s \in Specialists : c.positions[s] # 0
  /\ d[2] = "critic_review" => t.targets = CriticTargets(c)
  /\ d[2] = "unresolved" => MayGiveUp(c)

\* The confirmed turn d cannot be called for again, in state c or a later one.
IsSpent(c, d) ==
  /\ d[2] \notin {"final", "unresolved"}
  /\ d[2] = "position" => d[4] <= c.positions[d[3]]
  /\ d[2] = "proposal" => d[4] <= c.version
  /\ d[2] \in Reviews => d[4] <= c.version
  /\ d[2] \in Reviews /\ d[4] = c.version /\ c.proposal # None =>
       /\ d[2] = "specialist_review" => HasReviewed(c, d[3], d[3])
       /\ d[2] = "critic_review" => CriticTargets(c) = {}
       /\ d[2] = "head_review" => \A s \in Specialists : HasReviewed(c, HeadAgent, s)

\* The turn is reserved when it is put to its model, as it was read.
IsHeld(d, t) ==
  /\ t.step \in {"reserve", "model"}
  /\ t.step = "reserve" => d \notin DOMAIN dispatch
  /\ t.step = "model" =>
       /\ d \in DOMAIN dispatch
       /\ dispatch[d] = [targets |-> t.targets, proposal |-> t.body, positions |-> t.positions,
                         confirmed |-> FALSE]

InOrder(g) ==
  LET c == consensus[task[g]]
  IN  /\ ~run[g].rejected
      /\ c.status \notin Concluded
      /\ \A d \in TurnsOf(g) : IsDue(c, d, turn[d]) /\ IsHeld(d, turn[d])
      /\ \A d, e \in TurnsOf(g) : d[2] = e[2] /\ (d[2] \in Alone => d = e)
      /\ \A d \in DOMAIN dispatch : d[1] = g =>
           IF dispatch[d].confirmed THEN IsSpent(c, d) ELSE d \in TurnsOf(g)

AtTheGate(g) == \E d \in TurnsOf(g) : turn[d].step \in Gate

Healthy ==
  \A g \in DOMAIN run :
    open = g /\ g \notin faulted =>
      /\ run[g].live /\ run[g].result = None
      /\ AtTheGate(g) \/ InOrder(g)

\* No task has spent its budget of reservations.
BudgetLeft == \A t \in DOMAIN consensus : Cardinality(Reserved(t)) < DispatchBudget

-----------------------------------------------------------------------------
\* A finite set has subsets of every smaller size.
LEMMA SubsetOfSize ==
  ASSUME NEW S, IsFiniteSet(S), NEW k \in Nat, k <= Cardinality(S)
  PROVE  \E T \in SUBSET S : Cardinality(T) = k
<1> DEFINE n == Cardinality(S)
<1>1. n \in Nat /\ ExistsBijection(1..n, S)
  BY FS_CardinalityType
<1>2. PICK f : f \in Bijection(1..n, S)
  BY <1>1 DEF ExistsBijection
<1>3. f \in [1..n -> S] /\ \A i, j \in 1..n : f[i] = f[j] => i = j
  BY <1>2 DEF Bijection, Injection, IsInjective
<1> HIDE DEF n
<1> DEFINE T == {f[i] : i \in 1..k}
           h == [i \in 1..k |-> f[i]]
<1>4. k <= n /\ 1..k \subseteq 1..n
  BY <1>1 DEF n
<1>5. h \in Bijection(1..k, T)
  BY <1>3, <1>4 DEF Bijection, Injection, IsInjective, Surjection
<1>6. IsFiniteSet(1..k) /\ Cardinality(1..k) = k
  BY FS_Interval
<1> HIDE DEF h
<1>7. Cardinality(T) = k
  BY <1>5, <1>6, FS_Bijection DEF ExistsBijection
<1>8. T \in SUBSET S
  BY <1>3, <1>4
<1> QED
  BY <1>7, <1>8

\* A batch is made of the turns that may be taken.
LEMMA BatchOfTurns ==
  ASSUME NEW turns, IsFiniteSet(turns)
  PROVE  Batch(turns) \subseteq turns
<1> DEFINE width == IF \E t \in turns : t.id[2] = "assignment" THEN 1 ELSE Concurrency
           size == IF Cardinality(turns) < width THEN Cardinality(turns) ELSE width
<1>1. width \in Nat
  BY RouterAssumption
<1>2. Cardinality(turns) \in Nat
  BY FS_CardinalityType
<1>3. size \in Nat /\ size <= Cardinality(turns)
  BY <1>1, <1>2
<1>4. Batch(turns) = CHOOSE b \in SUBSET turns : Cardinality(b) = size
  BY DEF Batch
<1> HIDE DEF size
<1>5. \E b \in SUBSET turns : Cardinality(b) = size
  BY <1>3, SubsetOfSize
<1>6. (CHOOSE b \in SUBSET turns : Cardinality(b) = size) \in SUBSET turns
  BY <1>5
<1> QED
  BY <1>4, <1>6

\* Turns of one kind, one for each of some specialists.
EachTurn(c, g, kind, agents) == {TurnAt(c, g, kind, s, {s}) : s \in agents}

\* The agent that takes the turns nobody takes beside it.
Taker(kind) == IF kind = "critic_review" THEN CriticAgent ELSE HeadAgent

\* A turn as it is read from the state.
LEMMA TurnAtFields ==
  ASSUME NEW c, NEW g, NEW kind, NEW agent, NEW targets
  PROVE  LET t == TurnAt(c, g, kind, agent, targets)
         IN  /\ t.id = <<g, kind, agent, TurnNumber(c, kind, agent)>>
             /\ t.run = g /\ t.body = Subject(c, kind) /\ t.positions = c.positions
             /\ t.targets = targets /\ t.step = "reserve" /\ t.outcome = None
BY DEF TurnAt, DispatchId

\* It has the form of a turn.
LEMMA TurnAtType ==
  ASSUME NEW c, StateInv(c), NEW g \in Nat, NEW kind \in Kinds, NEW agent \in Agents,
         NEW targets \in SUBSET Specialists, kind = "position" => agent \in Specialists
  PROVE  /\ TurnAt(c, g, kind, agent, targets) \in TurnRecord
         /\ TurnNumber(c, kind, agent) \in Nat
<1>1. c \in TaskState /\ c.positions \in Positions /\ c.version \in Nat
  BY DEF StateInv, TaskState
<1>2. TurnNumber(c, kind, agent) \in Nat
  BY <1>1 DEF TurnNumber, Kinds, Reviews, Positions
<1>3. DispatchId(g, kind, agent, TurnNumber(c, kind, agent)) \in TurnIds
  BY <1>2 DEF DispatchId, TurnIds
<1>4. Subject(c, kind) \in Bodies \cup {None}
  BY <1>1 DEF Subject, TaskState, Candidate
<1> QED
  BY <1>1, <1>2, <1>3, <1>4 DEF TurnAt, TurnRecord

\* What NextTurns calls for, and why.
LEMMA NextTurnsCases ==
  ASSUME NEW c, StateInv(c), NEW g
  PROVE  LET turns == NextTurns(c, g)
             joint(kind, targets) == {TurnAt(c, g, kind, Taker(kind), targets)}
         IN  \/ \E agents \in SUBSET Specialists :
                  /\ turns = EachTurn(c, g, "assignment", agents)
                  /\ \A s \in agents : DispatchId(g, "assignment", s, 0) \notin Confirmed(g)
             \/ \E agents \in SUBSET Specialists : turns = EachTurn(c, g, "position", agents)
             \/ \E agents \in SUBSET Specialists :
                  /\ turns = EachTurn(c, g, "specialist_review", agents)
                  /\ IsFresh(c) /\ \A s \in agents : ~HasReviewed(c, s, s)
             \/ turns = joint("final", {}) /\ HasConsensus(c)
             \/ turns = joint("critic_review", CriticTargets(c)) /\ IsFresh(c) /\ CriticTargets(c) # {}
             \/ /\ turns = joint("head_review", Specialists) /\ IsFresh(c) /\ ~HasConsensus(c)
                /\ \A s \in Specialists : ~HasReviewed(c, HeadAgent, s) /\ c.positions[s] # 0
             \/ turns = joint("unresolved", Specialists) /\ IsHopeless(c)
             \/ /\ turns = joint("proposal", Specialists)
                /\ \A s \in Specialists : c.positions[s] # 0
<1> DEFINE silent == {s \in Specialists : c.positions[s] = 0}
           unassigned == {s \in silent : DispatchId(g, "assignment", s, 0) \notin Confirmed(g)}
           unheard == {s \in Specialists : ~HasReviewed(c, s, s)}
           allAgree == \A s \in Specialists : Says(c, s, s, "agree") /\ Says(c, CriticAgent, s, "agree")
           headSilent == \A s \in Specialists : ~HasReviewed(c, HeadAgent, s)
           turns == NextTurns(c, g)
           at(kind, agents) == EachTurn(c, g, kind, agents)
           joint(kind, targets) == {TurnAt(c, g, kind, Taker(kind), targets)}
<1>1. turns =
        IF unassigned # {} THEN at("assignment", unassigned)
        ELSE IF silent # {} THEN at("position", silent)
        ELSE IF HasConsensus(c) THEN joint("final", {})
        ELSE IF IsFresh(c) /\ unheard # {} THEN at("specialist_review", unheard)
        ELSE IF IsFresh(c) /\ CriticTargets(c) # {} THEN joint("critic_review", CriticTargets(c))
        ELSE IF IsFresh(c) /\ allAgree /\ headSilent THEN joint("head_review", Specialists)
        ELSE IF IsHopeless(c) THEN joint("unresolved", Specialists)
        ELSE IF Asked(c) # {} THEN at("position", Asked(c))
        ELSE joint("proposal", Specialists)
  BY DEF NextTurns, EachTurn, Taker
<1>2. /\ silent \in SUBSET Specialists /\ unassigned \in SUBSET Specialists
      /\ unheard \in SUBSET Specialists /\ Asked(c) \in SUBSET Specialists
  BY DEF Asked
<1>3. /\ \A s \in unassigned : DispatchId(g, "assignment", s, 0) \notin Confirmed(g)
      /\ \A s \in unheard : ~HasReviewed(c, s, s)
      /\ silent = {} => \A s \in Specialists : c.positions[s] # 0
  OBVIOUS
<1> HIDE DEF turns, at, joint, silent, unassigned, unheard, allAgree
<1>4. CASE unassigned # {}
  BY <1>1, <1>2, <1>3, <1>4 DEF turns, at
<1>5. CASE unassigned = {} /\ silent # {}
  BY <1>1, <1>2, <1>5 DEF turns, at
<1>6. CASE unassigned = {} /\ silent = {} /\ HasConsensus(c)
  BY <1>1, <1>6 DEF turns, joint
<1>7. CASE unassigned = {} /\ silent = {} /\ ~HasConsensus(c) /\ IsFresh(c) /\ unheard # {}
  BY <1>1, <1>2, <1>3, <1>7 DEF turns, at
<1>8. CASE unassigned = {} /\ silent = {} /\ ~HasConsensus(c)
           /\ ~(IsFresh(c) /\ unheard # {}) /\ IsFresh(c) /\ CriticTargets(c) # {}
  BY <1>1, <1>8 DEF turns, joint
<1>9. CASE unassigned = {} /\ silent = {} /\ ~HasConsensus(c)
           /\ ~(IsFresh(c) /\ unheard # {}) /\ ~(IsFresh(c) /\ CriticTargets(c) # {})
           /\ IsFresh(c) /\ allAgree /\ headSilent
  BY <1>1, <1>3, <1>9 DEF turns, joint
<1>10. CASE unassigned = {} /\ silent = {} /\ ~HasConsensus(c)
            /\ ~(IsFresh(c) /\ unheard # {}) /\ ~(IsFresh(c) /\ CriticTargets(c) # {})
            /\ ~(IsFresh(c) /\ allAgree /\ headSilent)
  BY <1>1, <1>2, <1>3, <1>10 DEF turns, joint, at
<1> QED
  BY <1>4, <1>5, <1>6, <1>7, <1>8, <1>9, <1>10

\* The turns called for have the form of turns, and are finitely many.
LEMMA NextTurnsType ==
  ASSUME NEW c, StateInv(c), NEW g \in Nat
  PROVE  /\ IsFiniteSet(NextTurns(c, g))
         /\ \A t \in NextTurns(c, g) :
              /\ t \in TurnRecord /\ t.id[1] = g /\ t.run = g /\ t.step = "reserve"
         /\ \A t, u \in NextTurns(c, g) : t.id[2] = u.id[2] /\ (t.id[2] \in Alone => t = u)
<1>1. ASSUME NEW kind \in {"assignment", "position", "specialist_review"},
             NEW agents \in SUBSET Specialists, NextTurns(c, g) = EachTurn(c, g, kind, agents)
      PROVE  /\ IsFiniteSet(NextTurns(c, g))
             /\ \A t \in NextTurns(c, g) :
                  /\ t \in TurnRecord /\ t.id[1] = g /\ t.run = g /\ t.step = "reserve"
                  /\ t.id[2] = kind
  <2> DEFINE f == [s \in agents |-> TurnAt(c, g, kind, s, {s})]
  <2>1. f \in Surjection(agents, EachTurn(c, g, kind, agents))
    BY DEF Surjection, EachTurn
  <2>2. IsFiniteSet(agents)
    BY RouterAssumption, FS_Subset
  <2>3. IsFiniteSet(EachTurn(c, g, kind, agents))
    BY <2>1, <2>2, FS_Surjection
  <2>4. kind \in Kinds /\ agents \subseteq Agents
    BY DEF Kinds, Reviews, Agents
  <2>5. ASSUME NEW s \in agents
        PROVE  LET t == TurnAt(c, g, kind, s, {s})
               IN  /\ t \in TurnRecord /\ t.id[1] = g /\ t.run = g /\ t.step = "reserve"
                   /\ t.id[2] = kind
    BY <2>4, TurnAtType, TurnAtFields
  <2> QED
    BY <1>1, <2>3, <2>5 DEF EachTurn
<1>2. ASSUME NEW kind \in Alone, NEW targets \in SUBSET Specialists,
             NextTurns(c, g) = {TurnAt(c, g, kind, Taker(kind), targets)}
      PROVE  /\ IsFiniteSet(NextTurns(c, g))
             /\ \A t \in NextTurns(c, g) :
                  /\ t \in TurnRecord /\ t.id[1] = g /\ t.run = g /\ t.step = "reserve"
  <2>1. kind \in Kinds /\ kind # "position" /\ Taker(kind) \in Agents
    BY DEF Alone, Kinds, Reviews, Taker, Agents
  <2>2. LET t == TurnAt(c, g, kind, Taker(kind), targets)
        IN  t \in TurnRecord /\ t.id[1] = g /\ t.run = g /\ t.step = "reserve"
    BY <2>1, TurnAtType, TurnAtFields
  <2> QED
    BY <1>2, <2>2, FS_Singleton
<1>3. {"assignment", "position", "specialist_review"} \cap Alone = {}
  BY DEF Alone
<1>4. CriticTargets(c) \in SUBSET Specialists
  BY DEF CriticTargets
<1>5. \/ \E kind \in {"assignment", "position", "specialist_review"}, agents \in SUBSET Specialists :
           NextTurns(c, g) = EachTurn(c, g, kind, agents)
      \/ \E kind \in Alone, targets \in SUBSET Specialists :
           NextTurns(c, g) = {TurnAt(c, g, kind, Taker(kind), targets)}
  BY <1>4, NextTurnsCases DEF Alone
<1> QED
  BY <1>1, <1>2, <1>3, <1>5

\* Agreement is on a candidate built from the current positions.
LEMMA ConsensusIsFresh ==
  ASSUME NEW c, StateInv(c), HasConsensus(c)
  PROVE  /\ c.proposal # None /\ c.proposal \in Candidate
         /\ c.proposal = [body |-> c.proposal.body, positions |-> c.positions]
<1>1. c.proposal # None /\ c.proposal \in Candidate /\ c.positions \in Positions
  BY DEF StateInv, TaskState, HasConsensus
<1>2. \A s \in Specialists : c.positions[s] = c.proposal.positions[s]
  BY DEF HasConsensus
<1>3. c.positions = c.proposal.positions
  BY <1>1, <1>2 DEF Candidate, Positions
<1> QED
  BY <1>1, <1>3 DEF Candidate

\* A fresh candidate is what a review is about.
LEMMA FreshCandidate ==
  ASSUME NEW c, StateInv(c), IsFresh(c)
  PROVE  /\ c.proposal # None
         /\ c.proposal = [body |-> c.proposal.body, positions |-> c.positions]
BY DEF IsFresh, StateInv, TaskState, Candidate

\* A run that finds its task hopeless may give it up.
LEMMA HopelessGivesUp ==
  ASSUME NEW c, IsDisputed(c), IsHopeless(c)
  PROVE  MayGiveUp(c)
BY DEF IsDisputed, IsHopeless, MayGiveUp, Says, HasReviewed

\* What is called for is due, and nobody has reserved it, when all that was reserved in the
\* generation has been confirmed.
LEMMA NextTurnsDue ==
  ASSUME NEW c, StateInv(c), IsDisputed(c), NEW g \in Nat,
         \A d \in DOMAIN dispatch : d[1] = g => dispatch[d].confirmed /\ IsSpent(c, d),
         NEW t \in NextTurns(c, g)
  PROVE  IsDue(c, t.id, t) /\ t.id \notin DOMAIN dispatch
<1> DEFINE at(kind, agent, targets) == TurnAt(c, g, kind, agent, targets)
           number(kind, agent) == TurnNumber(c, kind, agent)
           free(kind, agent) == <<g, kind, agent, number(kind, agent)>> \notin DOMAIN dispatch
           called(kind, agent, targets) ==
             /\ IsDue(c, <<g, kind, agent, number(kind, agent)>>, at(kind, agent, targets))
             /\ free(kind, agent)
<1>1. c \in TaskState /\ c.positions \in Positions /\ c.version \in Nat
  BY DEF StateInv, TaskState
<1>2. ASSUME NEW kind, NEW agent, NEW targets, called(kind, agent, targets), t = at(kind, agent, targets)
      PROVE  IsDue(c, t.id, t) /\ t.id \notin DOMAIN dispatch
  BY <1>2, TurnAtFields
<1>3. ASSUME NEW s \in Specialists, DispatchId(g, "assignment", s, 0) \notin Confirmed(g)
      PROVE  called("assignment", s, {s})
  <2>1. number("assignment", s) = 0
    BY DEF TurnNumber
  <2>2. free("assignment", s)
    BY <1>3, <2>1 DEF DispatchId, Confirmed, Pending
  <2>3. MayTake("assignment", s, {s})
    BY DEF MayTake
  <2> QED
    BY <2>2, <2>3, TurnAtFields DEF IsDue, Reviews
<1>4. ASSUME NEW s \in Specialists
      PROVE  called("position", s, {s})
  <2>1. number("position", s) = c.positions[s] + 1 /\ c.positions[s] \in Nat
    BY <1>1 DEF TurnNumber, Positions
  <2>2. free("position", s)
    BY <2>1 DEF IsSpent
  <2>3. MayTake("position", s, {s})
    BY DEF MayTake
  <2> QED
    BY <2>2, <2>3, TurnAtFields DEF IsDue, Reviews
<1>5. ASSUME NEW s \in Specialists, IsFresh(c), ~HasReviewed(c, s, s)
      PROVE  called("specialist_review", s, {s})
  <2>1. number("specialist_review", s) = c.version
    BY DEF TurnNumber
  <2>2. free("specialist_review", s)
    BY <1>5, <2>1, FreshCandidate DEF IsSpent, Reviews
  <2>3. MayTake("specialist_review", s, {s})
    BY DEF MayTake
  <2>4. Subject(c, "specialist_review") = c.proposal.body
    BY <1>5, FreshCandidate DEF Subject, Reviews
  <2> QED
    BY <1>5, <2>2, <2>3, <2>4, TurnAtFields, FreshCandidate DEF IsDue
<1>6. ASSUME HasConsensus(c)
      PROVE  called("final", HeadAgent, {})
  <2>1. free("final", HeadAgent)
    BY DEF IsSpent
  <2>2. MayTake("final", HeadAgent, {})
    BY DEF MayTake
  <2>3. Subject(c, "final") = c.proposal.body
    BY <1>6, ConsensusIsFresh DEF Subject
  <2> QED
    BY <1>6, <2>1, <2>2, <2>3, TurnAtFields, ConsensusIsFresh DEF IsDue
<1>7. ASSUME IsFresh(c), CriticTargets(c) # {}
      PROVE  called("critic_review", CriticAgent, CriticTargets(c))
  <2>1. number("critic_review", CriticAgent) = c.version
    BY DEF TurnNumber
  <2>2. free("critic_review", CriticAgent)
    BY <1>7, <2>1, FreshCandidate DEF IsSpent, Reviews
  <2>3. MayTake("critic_review", CriticAgent, CriticTargets(c))
    BY <1>7 DEF MayTake
  <2>4. Subject(c, "critic_review") = c.proposal.body
    BY <1>7, FreshCandidate DEF Subject, Reviews
  <2> QED
    BY <1>7, <2>2, <2>3, <2>4, TurnAtFields, FreshCandidate DEF IsDue
<1>8. ASSUME IsFresh(c), ~HasConsensus(c), \A s \in Specialists : ~HasReviewed(c, HeadAgent, s)
      PROVE  called("head_review", HeadAgent, Specialists)
  <2>1. number("head_review", HeadAgent) = c.version
    BY DEF TurnNumber
  <2>2. Specialists # {}
    BY <1>8, FreshCandidate DEF HasConsensus
  <2>3. free("head_review", HeadAgent)
    BY <1>8, <2>1, <2>2, FreshCandidate DEF IsSpent, Reviews
  <2>4. MayTake("head_review", HeadAgent, Specialists)
    BY DEF MayTake
  <2>5. Subject(c, "head_review") = c.proposal.body
    BY <1>8, FreshCandidate DEF Subject, Reviews
  <2> QED
    BY <1>8, <2>3, <2>4, <2>5, TurnAtFields, FreshCandidate DEF IsDue
<1>9. ASSUME IsHopeless(c)
      PROVE  called("unresolved", HeadAgent, Specialists)
  <2>1. free("unresolved", HeadAgent)
    BY DEF IsSpent
  <2>2. MayTake("unresolved", HeadAgent, Specialists)
    BY DEF MayTake
  <2>3. MayGiveUp(c)
    BY <1>9, HopelessGivesUp
  <2> QED
    BY <2>1, <2>2, <2>3, TurnAtFields DEF IsDue, Reviews
<1>10. ASSUME \A s \in Specialists : c.positions[s] # 0
       PROVE  called("proposal", HeadAgent, Specialists)
  <2>1. number("proposal", HeadAgent) = c.version + 1
    BY DEF TurnNumber
  <2>2. free("proposal", HeadAgent)
    BY <1>1, <2>1 DEF IsSpent
  <2>3. MayTake("proposal", HeadAgent, Specialists)
    BY DEF MayTake
  <2> QED
    BY <1>10, <2>2, <2>3, TurnAtFields DEF IsDue, Reviews
<1>11. /\ Taker("final") = HeadAgent /\ Taker("critic_review") = CriticAgent
       /\ Taker("head_review") = HeadAgent /\ Taker("unresolved") = HeadAgent
       /\ Taker("proposal") = HeadAgent
  BY DEF Taker
<1> DEFINE found == \E kind, agent, targets : called(kind, agent, targets) /\ t = at(kind, agent, targets)
<1> HIDE DEF called, free, number
<1>12. ASSUME NEW kind, NEW agents \in SUBSET Specialists, NextTurns(c, g) = EachTurn(c, g, kind, agents),
              \A s \in agents : called(kind, s, {s})
       PROVE  found
  BY <1>12 DEF EachTurn
<1>13. ASSUME NEW kind, NEW targets, NextTurns(c, g) = {TurnAt(c, g, kind, Taker(kind), targets)},
              called(kind, Taker(kind), targets)
       PROVE  found
  BY <1>13
<1> HIDE DEF found, at
<1>14. found
  <2>1. CASE \E agents \in SUBSET Specialists :
                /\ NextTurns(c, g) = EachTurn(c, g, "assignment", agents)
                /\ \A s \in agents : DispatchId(g, "assignment", s, 0) \notin Confirmed(g)
    BY <1>3, <1>12, <2>1
  <2>2. CASE \E agents \in SUBSET Specialists : NextTurns(c, g) = EachTurn(c, g, "position", agents)
    BY <1>4, <1>12, <2>2
  <2>3. CASE \E agents \in SUBSET Specialists :
                /\ NextTurns(c, g) = EachTurn(c, g, "specialist_review", agents)
                /\ IsFresh(c) /\ \A s \in agents : ~HasReviewed(c, s, s)
    BY <1>5, <1>12, <2>3
  <2>4. CASE NextTurns(c, g) = {TurnAt(c, g, "final", Taker("final"), {})} /\ HasConsensus(c)
    BY <1>6, <1>11, <1>13, <2>4
  <2>5. CASE /\ NextTurns(c, g) = {TurnAt(c, g, "critic_review", Taker("critic_review"), CriticTargets(c))}
              /\ IsFresh(c) /\ CriticTargets(c) # {}
    BY <1>7, <1>11, <1>13, <2>5
  <2>6. CASE /\ NextTurns(c, g) = {TurnAt(c, g, "head_review", Taker("head_review"), Specialists)}
              /\ IsFresh(c) /\ ~HasConsensus(c)
              /\ \A s \in Specialists : ~HasReviewed(c, HeadAgent, s) /\ c.positions[s] # 0
    BY <1>8, <1>11, <1>13, <2>6
  <2>7. CASE NextTurns(c, g) = {TurnAt(c, g, "unresolved", Taker("unresolved"), Specialists)} /\ IsHopeless(c)
    BY <1>9, <1>11, <1>13, <2>7
  <2>8. CASE /\ NextTurns(c, g) = {TurnAt(c, g, "proposal", Taker("proposal"), Specialists)}
              /\ \A s \in Specialists : c.positions[s] # 0
    BY <1>10, <1>11, <1>13, <2>8
  <2> QED
    BY <2>1, <2>2, <2>3, <2>4, <2>5, <2>6, <2>7, <2>8, NextTurnsCases
<1> QED
  BY <1>2, <1>14 DEF found

-----------------------------------------------------------------------------
\* What a review leaves as it is, and what it changes.
LEMMA ReviewRows ==
  ASSUME NEW c, StateInv(c), NEW kind \in Reviews, NEW agent \in Agents, NEW r, NEW body, NEW decision,
         NEW a \in Agents, NEW s \in Specialists
  PROVE  LET w == Updated(c, kind, agent, r, body, decision)
         IN  IF a = agent /\ s \in r.targets
             THEN w.reviews[a][s].proposal = c.proposal.body /\ w.reviews[a][s].decision = decision
             ELSE w.reviews[a][s] = c.reviews[a][s]
BY DEF Updated, Reviews, WithReview, StateInv, TaskState

LEMMA ReviewUpdate ==
  ASSUME NEW c, StateInv(c), NEW kind \in Reviews, NEW agent \in Agents, NEW r, NEW body, NEW decision
  PROVE  LET w == Updated(c, kind, agent, r, body, decision)
         IN  /\ w.positions = c.positions /\ w.proposal = c.proposal /\ w.version = c.version
             /\ \A s \in Specialists :
                  w.counts[s] = IF kind = "critic_review" /\ s \in r.targets
                                THEN c.counts[s] + 1 ELSE c.counts[s]
<1> DEFINE review == [proposal |-> c.proposal.body, decision |-> decision, positions |-> r.positions]
           row == [s \in Specialists |-> IF s \in r.targets THEN review ELSE c.reviews[agent][s]]
           reviews == [c.reviews EXCEPT ![agent] = row]
           counts == [s \in Specialists |-> IF kind = "critic_review" /\ s \in r.targets
                                            THEN c.counts[s] + 1 ELSE c.counts[s]]
           disputed == c.disputed \/ decision = "unresolved"
           reviewed == [c EXCEPT !.reviews = reviews, !.disputed = disputed, !.counts = counts]
           status == IF HasConsensus(reviewed) THEN "consensus" ELSE "working"
           w == Updated(c, kind, agent, r, body, decision)
<1>1. c \in TaskState /\ c.reviews \in [Agents -> [Specialists -> Review \cup {None}]]
  BY DEF StateInv, TaskState
<1>2. w = [reviewed EXCEPT !.status = status]
  BY <1>1 DEF Updated, Reviews, WithReview, TaskState
<1>4. \A s \in Specialists : counts[s] = IF kind = "critic_review" /\ s \in r.targets
                                         THEN c.counts[s] + 1 ELSE c.counts[s]
  OBVIOUS
<1> HIDE DEF review, reviews, counts, disputed, status, w
<1>5. /\ w.positions = c.positions /\ w.proposal = c.proposal /\ w.version = c.version
      /\ w.counts = counts
  BY <1>1, <1>2 DEF TaskState
<1> QED
  BY <1>4, <1>5 DEF w

\* A review that leaves an issue open says so in the state, where it stays written.
LEMMA ReviewDisputes ==
  ASSUME NEW c, StateInv(c), NEW kind \in Reviews, NEW agent, NEW r, NEW body, NEW decision,
         c.disputed \/ decision = "unresolved"
  PROVE  Updated(c, kind, agent, r, body, decision).disputed
BY DEF Updated, Reviews, WithReview, StateInv, TaskState

\* A review is a value.
LEMMA ReviewWritten ==
  ASSUME NEW c, StateInv(c), NEW kind \in Reviews, NEW agent, NEW r, NEW body,
         NEW decision \in Decisions, Confirmable(c, kind, agent, r), NEW s \in Specialists,
         s \in r.targets
  PROVE  Updated(c, kind, agent, r, body, decision).reviews[agent][s] # None
<1> DEFINE review == [proposal |-> c.proposal.body, decision |-> decision, positions |-> r.positions]
<1>1. /\ c.proposal = [body |-> r.proposal, positions |-> c.positions]
      /\ r \in Reservation /\ agent \in Agents
  BY DEF Confirmable
<1>2. c \in TaskState
  BY DEF StateInv
<1>3. c.proposal \in Candidate
  BY <1>1, <1>2, NoneAssumption DEF TaskState, Reservation, Positions
<1>4. review \in Review
  BY <1>1, <1>3 DEF Review, Candidate, Reservation
<1>5. review # None
  BY <1>4, NoneAssumption DEF Review, Positions
<1>6. Updated(c, kind, agent, r, body, decision).reviews[agent][s] = review
  BY <1>1, <1>2 DEF Updated, Reviews, WithReview, TaskState
<1> QED
  BY <1>5, <1>6

\* What the other turns leave as it is, and what they change.
LEMMA AssignmentUpdate ==
  ASSUME NEW c, NEW agent, NEW r, NEW body, NEW decision
  PROVE  Updated(c, "assignment", agent, r, body, decision) = c
BY DEF Updated, Reviews

LEMMA PositionUpdate ==
  ASSUME NEW c, StateInv(c), NEW agent, NEW r, NEW body, NEW decision
  PROVE  LET w == Updated(c, "position", agent, r, body, decision)
         IN  /\ \A s \in Specialists :
                  w.positions[s] = IF s = agent THEN c.positions[s] + 1 ELSE c.positions[s]
             /\ w.proposal = c.proposal /\ w.version = c.version /\ w.reviews = c.reviews
             /\ w.disputed = c.disputed /\ w.counts = c.counts
<1>1. c \in TaskState /\ c.positions \in [Specialists -> Nat]
  BY DEF StateInv, TaskState, Positions
<1>2. Updated(c, "position", agent, r, body, decision) = WithPosition(c, agent)
  BY DEF Updated, Reviews
<1> DEFINE positions == [c.positions EXCEPT ![agent] = @ + 1]
<1>3. Updated(c, "position", agent, r, body, decision) =
        [c EXCEPT !.status = "working", !.positions = positions]
  BY <1>1, <1>2 DEF WithPosition, TaskState
<1>4. \A s \in Specialists : positions[s] = IF s = agent THEN c.positions[s] + 1 ELSE c.positions[s]
  BY <1>1
<1> HIDE DEF positions
<1> QED
  BY <1>1, <1>3, <1>4 DEF TaskState

LEMMA ProposalUpdate ==
  ASSUME NEW c, StateInv(c), NEW agent, NEW r, NEW body, NEW decision
  PROVE  LET w == Updated(c, "proposal", agent, r, body, decision)
         IN  /\ w.positions = c.positions /\ w.version = c.version + 1
             /\ w.reviews = NoReviews /\ w.counts = c.counts
<1>1. c \in TaskState
  BY DEF StateInv
<1>2. Updated(c, "proposal", agent, r, body, decision) = WithProposal(c, body)
  BY DEF Updated, Reviews
<1> QED
  BY <1>1, <1>2 DEF WithProposal, TaskState

\* An open issue stays written in the state.
LEMMA UpdatedDisputes ==
  ASSUME NEW c, StateInv(c), IsDisputed(c), NEW kind, NEW agent, NEW r, NEW body \in Bodies,
         NEW decision, kind \in Reviews => decision \in Decisions, Confirmable(c, kind, agent, r)
  PROVE  IsDisputed(Updated(c, kind, agent, r, body, decision))
<1> DEFINE w == Updated(c, kind, agent, r, body, decision)
<1>1. CASE kind \in {"assignment", "position"}
  BY <1>1, AssignmentUpdate, PositionUpdate DEF IsDisputed
<1>2. CASE kind = "proposal"
  BY <1>2, ProposalUpdate DEF IsDisputed, NoReviews
<1>3. CASE kind \in Reviews
  <2>1. agent \in Agents
    BY DEF Confirmable
  <2>2. c.disputed \/ decision = "unresolved" => w.disputed
    BY <1>3, ReviewDisputes
  <2>3. \A a \in Agents, s \in Specialists :
          w.reviews[a][s] = c.reviews[a][s] \/ w.reviews[a][s].decision = decision
    BY <1>3, <2>1, ReviewRows
  <2> HIDE DEF w
  <2> QED
    BY <2>2, <2>3 DEF IsDisputed, w
<1>4. CASE kind = "final"
  BY <1>4 DEF Updated, WithOutcome, IsDisputed, Reviews, StateInv, TaskState
<1>5. CASE kind = "unresolved"
  BY <1>5 DEF Updated, WithOutcome, IsDisputed, Reviews, StateInv, TaskState
<1> QED
  BY <1>1, <1>2, <1>3, <1>4, <1>5 DEF Confirmable, Kinds

\* A review is made, and those made before still are.
LEMMA ReviewGrows ==
  ASSUME NEW c, StateInv(c), NEW kind \in Reviews, NEW agent, NEW r, NEW body,
         NEW decision \in Decisions, Confirmable(c, kind, agent, r)
  PROVE  LET w == Updated(c, kind, agent, r, body, decision)
         IN  /\ \A s \in r.targets : HasReviewed(w, agent, s)
             /\ \A a \in Agents, s \in Specialists : HasReviewed(c, a, s) => HasReviewed(w, a, s)
             /\ \A s \in Specialists : c.counts[s] <= w.counts[s] /\ w.counts[s] \in Nat
<1> DEFINE w == Updated(c, kind, agent, r, body, decision)
<1>1. c \in TaskState /\ c.counts \in [Specialists -> Nat] /\ agent \in Agents
      /\ r.targets \in SUBSET Specialists
  BY DEF StateInv, TaskState, Confirmable, Reservation
<1>2. w.proposal = c.proposal /\ \A s \in Specialists : w.counts[s] \in {c.counts[s], c.counts[s] + 1}
  BY <1>1, ReviewUpdate
<1>3. \A a \in Agents, s \in Specialists :
        IF a = agent /\ s \in r.targets THEN w.reviews[a][s].proposal = c.proposal.body
        ELSE w.reviews[a][s] = c.reviews[a][s]
  BY <1>1, ReviewRows
<1>4. \A s \in Specialists : s \in r.targets => w.reviews[agent][s] # None
  BY ReviewWritten
<1> HIDE DEF w
<1>5. \A s \in r.targets : HasReviewed(w, agent, s)
  BY <1>1, <1>2, <1>3, <1>4 DEF HasReviewed
<1>6. \A a \in Agents, s \in Specialists : HasReviewed(c, a, s) => HasReviewed(w, a, s)
  BY <1>1, <1>2, <1>3, <1>4 DEF HasReviewed
<1>7. \A s \in Specialists : c.counts[s] <= w.counts[s] /\ w.counts[s] \in Nat
  BY <1>1, <1>2
<1> QED
  BY <1>5, <1>6, <1>7 DEF w

\* What was spent stays so when another turn is confirmed, ...
LEMMA SpentStays ==
  ASSUME NEW c, StateInv(c), NEW kind, kind \notin {"final", "unresolved"}, NEW agent, NEW r,
         NEW body \in Bodies, NEW decision, kind \in Reviews => decision \in Decisions,
         Confirmable(c, kind, agent, r), NEW d \in TurnIds, IsSpent(c, d),
         d[2] = "position" => d[3] \in Specialists,
         d[2] = "specialist_review" => d[3] \in Specialists
  PROVE  IsSpent(Updated(c, kind, agent, r, body, decision), d)
<1> DEFINE w == Updated(c, kind, agent, r, body, decision)
<1>1. c \in TaskState /\ c.positions \in Positions /\ c.version \in Nat /\ d[4] \in Nat
      /\ c.counts \in [Specialists -> Nat] /\ CriticCap \in Nat
  BY BoundAssumption DEF StateInv, TaskState, TurnIds
<1>2. CASE kind = "assignment"
  BY <1>2, AssignmentUpdate
<1>3. CASE kind = "position"
  <2>1. agent \in Specialists
    BY <1>3 DEF Confirmable, MayTake
  <2>2. /\ \A s \in Specialists :
             w.positions[s] = IF s = agent THEN c.positions[s] + 1 ELSE c.positions[s]
        /\ w.proposal = c.proposal /\ w.version = c.version /\ w.reviews = c.reviews
        /\ w.counts = c.counts
    BY <1>3, PositionUpdate
  <2>3. \A s \in Specialists : c.positions[s] <= w.positions[s]
    BY <1>1, <2>1, <2>2 DEF Positions
  <2> QED
    BY <1>1, <2>2, <2>3 DEF IsSpent, HasReviewed, CriticTargets, Positions
<1>4. CASE kind = "proposal"
  <2>1. w.positions = c.positions /\ w.version = c.version + 1
    BY <1>4, ProposalUpdate
  <2> QED
    BY <1>1, <2>1 DEF IsSpent
<1>5. CASE kind \in Reviews
  <2>1. agent \in Agents /\ decision \in Decisions
    BY <1>5 DEF Confirmable
  <2>2. w.positions = c.positions /\ w.proposal = c.proposal /\ w.version = c.version
    BY <1>5, <2>1, ReviewUpdate
  <2>3. /\ \A a \in Agents, s \in Specialists : HasReviewed(c, a, s) => HasReviewed(w, a, s)
        /\ \A s \in Specialists : c.counts[s] <= w.counts[s] /\ w.counts[s] \in Nat
    BY <1>5, <2>1, ReviewGrows
  <2> HIDE DEF w
  <2>4. CriticTargets(c) = {} => CriticTargets(w) = {}
    BY <1>1, <2>3 DEF CriticTargets, Agents
  <2>5. HeadAgent \in Agents /\ Specialists \subseteq Agents
    BY DEF Agents
  <2> QED
    BY <2>2, <2>3, <2>4, <2>5 DEF IsSpent, w
<1> QED
  BY <1>2, <1>3, <1>4, <1>5 DEF Confirmable, Kinds

\* ... and the turn that is confirmed is spent.
LEMMA SpentNow ==
  ASSUME NEW c, StateInv(c), NEW d \in TurnIds, d[2] \notin {"final", "unresolved"},
         NEW t, IsDue(c, d, t), NEW r, r.targets = t.targets, Confirmable(c, d[2], d[3], r),
         NEW body \in Bodies, NEW decision, d[2] \in Reviews => decision \in Decisions
  PROVE  IsSpent(Updated(c, d[2], d[3], r, body, decision), d)
<1> DEFINE w == Updated(c, d[2], d[3], r, body, decision)
<1>1. c \in TaskState /\ c.positions \in Positions /\ c.version \in Nat /\ d[4] \in Nat
      /\ c.counts \in [Specialists -> Nat] /\ CriticCap \in Nat
  BY BoundAssumption DEF StateInv, TaskState, TurnIds
<1>2. d[4] = TurnNumber(c, d[2], d[3]) /\ MayTake(d[2], d[3], t.targets)
  BY DEF IsDue
<1>3. CASE d[2] = "assignment"
  BY <1>3 DEF IsSpent, Reviews
<1>4. CASE d[2] = "position"
  <2>1. d[3] \in Specialists /\ d[4] = c.positions[d[3]] + 1
    BY <1>2, <1>4 DEF MayTake, TurnNumber
  <2>2. w.positions[d[3]] = d[4]
    BY <1>4, <2>1, PositionUpdate
  <2> HIDE DEF w
  <2> QED
    BY <1>1, <1>4, <2>2 DEF IsSpent, Reviews, w
<1>5. CASE d[2] = "proposal"
  <2>1. d[4] = c.version + 1
    BY <1>2, <1>5 DEF TurnNumber
  <2>2. w.version = d[4]
    BY <1>5, <2>1, ProposalUpdate
  <2> HIDE DEF w
  <2> QED
    BY <1>1, <1>5, <2>2 DEF IsSpent, Reviews, w
<1>6. CASE d[2] \in Reviews
  <2>1. d[3] \in Agents /\ decision \in Decisions
    BY <1>6 DEF Confirmable
  <2>2. d[4] = c.version
    BY <1>2, <1>6 DEF TurnNumber, Reviews
  <2>3. w.version = c.version
    BY <1>6, <2>1, ReviewUpdate
  <2>4. /\ \A s \in t.targets : HasReviewed(w, d[3], s)
        /\ \A a \in Agents, s \in Specialists : HasReviewed(c, a, s) => HasReviewed(w, a, s)
        /\ \A s \in Specialists : c.counts[s] <= w.counts[s] /\ w.counts[s] \in Nat
    BY <1>6, <2>1, ReviewGrows
  <2> HIDE DEF w
  <2>5. d[2] = "specialist_review" => HasReviewed(w, d[3], d[3])
    BY <1>2, <2>4 DEF MayTake
  <2>6. d[2] = "critic_review" => CriticTargets(w) = {}
    <3> SUFFICES ASSUME d[2] = "critic_review" PROVE CriticTargets(w) = {}
      OBVIOUS
    <3>1. t.targets = CriticTargets(c) /\ d[3] = CriticAgent
      BY <1>2 DEF IsDue, MayTake
    <3> QED
      BY <1>1, <2>4, <3>1 DEF CriticTargets, Agents
  <2>7. d[2] = "head_review" => \A s \in Specialists : HasReviewed(w, HeadAgent, s)
    BY <1>2, <2>4 DEF MayTake
  <2> QED
    BY <1>1, <1>6, <2>2, <2>3, <2>5, <2>6, <2>7 DEF IsSpent, Reviews, w
<1> QED
  BY <1>3, <1>4, <1>5, <1>6 DEF Confirmable, Kinds

\* The other turns of its batch are still called for.
LEMMA DueKept ==
  ASSUME NEW c, StateInv(c), NEW d \in TurnIds, NEW t, IsDue(c, d, t),
         NEW e \in TurnIds, NEW u, IsDue(c, e, u), d # e, d[1] = e[1], d[2] = e[2], d[2] \notin Alone,
         NEW r, Confirmable(c, e[2], e[3], r),
         NEW body \in Bodies, NEW decision
  PROVE  IsDue(Updated(c, e[2], e[3], r, body, decision), d, t)
<1> DEFINE w == Updated(c, e[2], e[3], r, body, decision)
<1>1. c \in TaskState /\ c.positions \in Positions /\ c.version \in Nat
  BY DEF StateInv, TaskState
<1>2. d[2] \in {"assignment", "position", "specialist_review"}
  BY DEF Confirmable, Kinds, Reviews, Alone
<1>3. /\ d[4] = TurnNumber(c, d[2], d[3]) /\ MayTake(d[2], d[3], t.targets)
      /\ e[4] = TurnNumber(c, e[2], e[3])
  BY DEF IsDue
<1>4. CASE d[2] = "assignment"
  BY <1>4, AssignmentUpdate
<1>5. CASE d[2] = "position"
  <2>1. d[3] # e[3]
    BY <1>3 DEF TurnIds
  <2>2. d[3] \in Specialists
    BY <1>3, <1>5 DEF MayTake
  <2>3. w.positions[d[3]] = c.positions[d[3]]
    BY <1>5, <2>1, <2>2, PositionUpdate
  <2> HIDE DEF w
  <2>4. d[4] = TurnNumber(w, d[2], d[3])
    BY <1>3, <1>5, <2>3 DEF TurnNumber
  <2> QED
    BY <1>3, <1>5, <2>4 DEF IsDue, Reviews, w
<1>6. CASE d[2] = "specialist_review"
  <2>1. e[2] \in Reviews /\ e[3] \in Agents
    BY <1>6 DEF Confirmable, Reviews
  <2>2. w.positions = c.positions /\ w.proposal = c.proposal /\ w.version = c.version
    BY <2>1, ReviewUpdate
  <2> HIDE DEF w
  <2>3. d[4] = TurnNumber(w, d[2], d[3])
    BY <1>3, <1>6, <2>2 DEF TurnNumber
  <2> QED
    BY <1>3, <1>6, <2>2, <2>3 DEF IsDue, Reviews, w
<1> QED
  BY <1>2, <1>4, <1>5, <1>6

-----------------------------------------------------------------------------
\* Only the latest generation has a run in progress, and turns.
LEMMA OneRun ==
  ASSUME RunInv
  PROVE  /\ \A g \in Running : g = generation
         /\ \A d \in DOMAIN turn : turn[d].run = d[1] /\ d[1] = generation /\ d[1] \in Running
         /\ DOMAIN run \subseteq 1 .. generation
BY DEF RunInv, RunsOK, TurnsOK, Running, LedgerInv, TaskInv

\* The state of the task of a run in progress.
LEMMA TaskOfRun ==
  ASSUME RunInv, NEW g \in Running
  PROVE  LET c == consensus[task[g]]
         IN  /\ g \in DOMAIN task /\ task[g] \in DOMAIN consensus
             /\ StateInv(c) /\ IsDisputed(c) /\ c.generation = g
             /\ g \in Nat \ {0}
<1>1. g \in DOMAIN run /\ run[g].live
  BY DEF Running
<1>2. g \in DOMAIN task /\ consensus[task[g]].generation = g
  BY <1>1 DEF RunInv, RunsOK
<1>3. task[g] \in DOMAIN consensus /\ g \in Nat \ {0}
  BY <1>2 DEF RunInv, LedgerInv, TaskInv, SessionInv
<1>4. StateInv(consensus[task[g]]) /\ IsDisputed(consensus[task[g]])
  BY <1>3 DEF RunInv, LedgerInv, TaskInv, DisputesOK
<1> QED
  BY <1>2, <1>3, <1>4

\* A turn that is called for will be reserved, ...
LEMMA DueIsReserved ==
  ASSUME RunInv, BudgetLeft, NEW g \in Running, open = g, InOrder(g),
         NEW d \in TurnsOf(g), turn[d].step = "reserve"
  PROVE  MayReserve(d, turn[d].body, turn[d].targets)
<1> DEFINE c == consensus[task[g]]
           t == turn[d]
<1>1. /\ g \in DOMAIN task /\ task[g] \in DOMAIN consensus
      /\ StateInv(c) /\ c.generation = g /\ g # 0
  BY TaskOfRun
<1>2. d \in DOMAIN turn /\ d[1] = g /\ c.status \notin Concluded
  BY OneRun DEF TurnsOf, InOrder
<1>3. IsDue(c, d, t) /\ d \notin DOMAIN dispatch
  BY DEF InOrder, IsHeld
<1>4. MayDispatch(g, d[2], t.body)
  BY <1>1, <1>2, <1>3 DEF MayDispatch, IsOpen, IsDue
<1>5. Cardinality(Reserved(task[g])) < DispatchBudget
  BY <1>1 DEF BudgetLeft
<1>6. d[2] = "critic_review" => \A s \in t.targets : CriticAllows(g, s)
  <2> SUFFICES ASSUME d[2] = "critic_review", NEW s \in t.targets
               PROVE  CriticAllows(g, s)
    OBVIOUS
  <2>1. t.targets = CriticTargets(c)
    BY <1>3 DEF IsDue
  <2>2. s \in Specialists /\ c.counts[s] < CriticCap /\ c.counts[s] \in Nat
    BY <1>1, <2>1 DEF CriticTargets, StateInv, TaskState
  <2>3. Held(g, s) = {}
    <3> SUFFICES ASSUME NEW e \in Held(g, s) PROVE FALSE
      OBVIOUS
    <3>1. e \in DOMAIN dispatch /\ ~dispatch[e].confirmed /\ e[1] = g
      BY DEF Held, Pending
    <3>2. e \in TurnsOf(g)
      BY <3>1 DEF InOrder
    <3>3. e = d
      BY <3>2 DEF InOrder, Alone
    <3> QED
      BY <1>3, <3>1, <3>3
  <2> QED
    BY <2>2, <2>3, FS_EmptySet DEF CriticAllows
<1> QED
  BY <1>2, <1>3, <1>4, <1>5, <1>6 DEF MayReserve, IsDue

\* ... and its answer confirmed.
LEMMA DueIsConfirmed ==
  ASSUME RunInv, NEW g \in Running, open = g, InOrder(g),
         NEW d \in TurnsOf(g), turn[d].step = "model"
  PROVE  MayConfirm(d, None, FALSE)
<1> DEFINE c == consensus[task[g]]
           t == turn[d]
<1>1. /\ g \in DOMAIN task /\ task[g] \in DOMAIN consensus
      /\ StateInv(c) /\ c.generation = g /\ g # 0
  BY TaskOfRun
<1>2. d \in DOMAIN turn /\ d[1] = g /\ c.status \notin Concluded
  BY OneRun DEF TurnsOf, InOrder
<1>3. /\ IsDue(c, d, t) /\ d \in DOMAIN dispatch
      /\ dispatch[d] = [targets |-> t.targets, proposal |-> t.body, positions |-> t.positions,
                        confirmed |-> FALSE]
  BY DEF InOrder, IsHeld
<1>4. d \in Pending
  BY <1>3 DEF Pending
<1>5. MayDispatch(g, d[2], dispatch[d].proposal)
  BY <1>1, <1>2, <1>3 DEF MayDispatch, IsOpen, IsDue
<1>6. Accepts(c, d[2], dispatch[d])
  <2>1. d[2] = "critic_review" => \A s \in t.targets : c.counts[s] < CriticCap
    BY <1>3 DEF IsDue, CriticTargets
  <2> QED
    BY <1>3, <2>1 DEF Accepts, IsDue
<1> QED
  BY <1>2, <1>4, <1>5, <1>6 DEF MayConfirm

\* So no turn of a healthy run is refused.
LEMMA NotRefused ==
  ASSUME RunInv, BudgetLeft, NEW g \in Running, open = g, InOrder(g), NEW d \in TurnsOf(g)
  PROVE  ~Refused(d)
BY DueIsReserved, DueIsConfirmed DEF Refused

-----------------------------------------------------------------------------
\* What was kept stays so while its generation and the state of its task do.
LEMMA KeptStays ==
  ASSUME NEW g, IsKept(g), g \in closed', open' # g, g \in DOMAIN archived',
         archived'[g] = archived[g], Confirmed(g)' = Confirmed(g), run'[g].result = run[g].result,
         task'[g] = task[g], consensus'[task[g]].status = consensus[task[g]].status
  PROVE  IsKept(g)'
BY DEF IsKept

\* A task whose outcome was kept is concluded.
LEMMA KeptIsConcluded ==
  ASSUME NEW g, IsKept(g)
  PROVE  consensus[task[g]].status \in Concluded
BY DEF IsKept, Concluded

\* Runs that keep their results, over a ledger that keeps its tasks.
LEMMA RunsKept ==
  ASSUME RunInv, DOMAIN run' = DOMAIN run, generation' = generation, task' = task,
         DOMAIN consensus' = DOMAIN consensus,
         \A t \in DOMAIN consensus : consensus'[t].generation = consensus[t].generation,
         \A d \in DOMAIN dispatch' : d \in TurnIds /\ d[1] \in DOMAIN run,
         \A g \in DOMAIN run : /\ run'[g] \in RunRecord /\ (run'[g].live <=> run[g].live)
                               /\ run'[g].result = run[g].result
  PROVE  RunsOK'
<1>1. ASSUME NEW g \in DOMAIN run
      PROVE  /\ run'[g].live => /\ g = generation' /\ consensus'[task'[g]].generation = g
                                /\ run'[g].result # "failed"
             /\ ~run'[g].live => run'[g].result # None
  <2>1. task[g] \in DOMAIN consensus
    BY DEF RunInv, RunsOK, LedgerInv, TaskInv
  <2> QED
    BY <2>1 DEF RunInv, RunsOK
<1> QED
  BY <1>1 DEF RunInv, RunsOK

\* A turn that is settled leaves; its run keeps its result.
LEMMA SettleFields ==
  ASSUME RunInv, NEW d \in DOMAIN turn, NEW isRejected \in BOOLEAN, Settle(d, isRejected)
  PROVE  /\ DOMAIN run' = DOMAIN run
         /\ \A g \in DOMAIN run : /\ run'[g] \in RunRecord /\ (run'[g].live <=> run[g].live)
                                  /\ run'[g].result = run[g].result
         /\ \A g \in DOMAIN run : ~isRejected /\ ~run[g].rejected => ~run'[g].rejected
         /\ DOMAIN turn' = DOMAIN turn \ {d}
         /\ \A e \in DOMAIN turn' : turn'[e] = turn[e]
<1>1. /\ DOMAIN turn' = DOMAIN turn \ {d}
      /\ \A e \in DOMAIN turn' : turn'[e] = turn[e]
  BY DEF Settle
<1>2. \A g \in DOMAIN run : run[g] \in RunRecord
  BY DEF RunInv, RunsOK
<1>3. turn[d].run \in DOMAIN run
  BY OneRun DEF Running
<1> DEFINE k == turn[d].run
           x == run[k].rejected \/ isRejected
<1>4. run' = [run EXCEPT ![k].rejected = x]
  BY DEF Settle
<1>5. x \in BOOLEAN /\ (~isRejected /\ ~run[k].rejected => ~x)
  OBVIOUS
<1> HIDE DEF x, k
<1>6. DOMAIN run' = DOMAIN run
  BY <1>4
<1>7. ASSUME NEW g \in DOMAIN run
      PROVE  /\ run'[g] \in RunRecord /\ (run'[g].live <=> run[g].live)
             /\ run'[g].result = run[g].result
             /\ ~isRejected /\ ~run[g].rejected => ~run'[g].rejected
  <2>1. CASE g = k
    <3>1. run'[g] = [run[g] EXCEPT !.rejected = x]
      BY <1>4, <2>1
    <3> QED
      BY <1>2, <1>5, <2>1, <3>1 DEF RunRecord
  <2>2. CASE g # k
    BY <1>2, <1>4, <2>2
  <2> QED
    BY <2>1, <2>2
<1> QED
  BY <1>1, <1>6, <1>7

\* While the ledger stands still, a turn that leaves keeps the invariant.
LEMMA SettleKeeps ==
  ASSUME RunInv, NEW d \in DOMAIN turn, Settle(d, TRUE), UNCHANGED <<vars, archived, closed>>
  PROVE  RunInv'
<1>0. UNCHANGED <<generation, open, previous, task, consensus, dispatch, archived, closed>>
  BY DEF vars, sessionVars
<1>1. /\ DOMAIN run' = DOMAIN run
      /\ \A g \in DOMAIN run : /\ run'[g] \in RunRecord /\ (run'[g].live <=> run[g].live)
                               /\ run'[g].result = run[g].result
      /\ DOMAIN turn' \subseteq DOMAIN turn
      /\ \A e \in DOMAIN turn' : turn'[e] = turn[e]
  BY SettleFields
<1>2. LedgerInv' /\ DisputesOK'
  BY <1>0 DEF RunInv, LedgerInv, SessionInv, TaskInv, DispatchInv, ConcludedInv, DisputesOK
<1>3. RunsOK'
  BY <1>0, <1>1, RunsKept DEF RunInv, RunsOK
<1>4. TurnsOK'
  BY <1>0, <1>1 DEF RunInv, TurnsOK, Running
<1>5. \A g : Confirmed(g)' = Confirmed(g)
  BY <1>0 DEF Confirmed, Pending
<1>6. GateOK'
  BY <1>0, <1>1, <1>5 DEF RunInv, GateOK
<1>7. ClosedOK'
  <2>1. \A g \in closed' : g \in DOMAIN run' /\ open' # g /\ run'[g].result \in Outcomes
    BY <1>0, <1>1 DEF RunInv, ClosedOK
  <2>2. \A g \in DOMAIN run : run[g].result \in Outcomes => IsKept(g)'
    BY <1>0, <1>1, <1>5 DEF RunInv, ClosedOK, IsKept
  <2> QED
    BY <1>1, <2>1, <2>2 DEF ClosedOK
<1> QED
  BY <1>2, <1>3, <1>4, <1>6, <1>7 DEF RunInv

-----------------------------------------------------------------------------
\* A new task has no issue open; a state that is carried over keeps those it keeps reviews of.
LEMMA NewTaskDisputes ==
  ASSUME NEW g
  PROVE  IsDisputed(NewTask(g))
BY DEF IsDisputed, NewTask, NoReviews

LEMMA CarriedDisputes ==
  ASSUME NEW c, StateInv(c), IsDisputed(c), NEW g, NEW sameTask \in BOOLEAN, NEW sameLanguage \in BOOLEAN
  PROVE  IsDisputed(Carried(c, g, sameTask, sameLanguage))
<1>1. c \in TaskState
  BY DEF StateInv
<1>2. CASE sameTask /\ sameLanguage
  BY <1>1, <1>2 DEF IsDisputed, Carried, TaskState
<1>3. CASE ~(sameTask /\ sameLanguage)
  BY <1>1, <1>3 DEF IsDisputed, Carried, TaskState, NoReviews
<1> QED
  BY <1>2, <1>3

\* A run is launched in the open generation, over the state of its task: a new one, one that
\* has been carried over, or the one there is.
LEMMA LaunchFields ==
  ASSUME RunInv, NEW g, Launch(g)
  PROVE  /\ LedgerInv'
         /\ g = open /\ g = generation /\ Running = {} /\ DOMAIN turn = {}
         /\ UNCHANGED <<sessionVars, dispatch>>
         /\ g \in DOMAIN task' /\ DOMAIN task \subseteq DOMAIN task'
         /\ \A h \in DOMAIN task : task'[h] = task[h]
         /\ consensus'[task'[g]].generation = g
         /\ \A t \in DOMAIN consensus' :
              \/ t \in DOMAIN consensus /\ consensus'[t] = consensus[t]
              \/ t \in DOMAIN consensus /\ consensus[t].status \notin Concluded /\ t = task'[g]
              \/ t \notin DOMAIN consensus /\ t = task'[g]
         /\ IsDisputed(consensus'[task'[g]])
         /\ consensus'[task'[g]].status \notin Concluded \/ g \in DOMAIN run
<1>1. /\ g = open /\ g = generation /\ Running = {} /\ DOMAIN turn = {}
  BY OneRun DEF Launch, IsOpen, RunInv, LedgerInv, SessionInv
<1>2. /\ \A h \in DOMAIN task : task[h] \in DOMAIN consensus
      /\ \A t \in DOMAIN consensus : StateInv(consensus[t]) /\ IsDisputed(consensus[t])
      /\ \A t \in DOMAIN consensus : consensus[t].generation \in DOMAIN run
      /\ LedgerInv
  BY DEF RunInv, LedgerInv, TaskInv, DisputesOK, RunsOK
<1>3. ASSUME NEW t \in Tasks, Initialize(open, t)
      PROVE  /\ LedgerInv'
             /\ UNCHANGED <<sessionVars, dispatch>>
             /\ g \in DOMAIN task' /\ DOMAIN task \subseteq DOMAIN task'
             /\ \A h \in DOMAIN task : task'[h] = task[h]
             /\ task'[g] = t /\ t \notin DOMAIN consensus
             /\ DOMAIN consensus' = DOMAIN consensus \cup {t}
             /\ \A u \in DOMAIN consensus : consensus'[u] = consensus[u]
             /\ consensus'[t] = NewTask(g)
  BY <1>1, <1>2, <1>3, InitializeKeeps DEF Initialize, Put
<1>4. CASE \E t \in Tasks : Initialize(g, t)
  <2>1. PICK t \in Tasks : Initialize(open, t)
    BY <1>1, <1>4
  <2>2. /\ LedgerInv'
        /\ UNCHANGED <<sessionVars, dispatch>>
        /\ g \in DOMAIN task' /\ DOMAIN task \subseteq DOMAIN task'
        /\ \A h \in DOMAIN task : task'[h] = task[h]
        /\ task'[g] = t /\ t \notin DOMAIN consensus
        /\ DOMAIN consensus' = DOMAIN consensus \cup {t}
        /\ \A u \in DOMAIN consensus : consensus'[u] = consensus[u]
        /\ consensus'[t] = NewTask(g)
    BY <1>3, <2>1
  <2>3. g \in Nat
    BY <1>1 DEF RunInv, LedgerInv, SessionInv
  <2> DEFINE new == NewTask(g)
  <2>4. new.generation = g /\ new.status = "working" /\ IsDisputed(new)
    BY <2>3, NewTaskInv, NewTaskDisputes
  <2> HIDE DEF new
  <2>5. consensus'[task'[g]] = new
    BY <2>2 DEF new
  <2> QED
    BY <1>1, <2>2, <2>4, <2>5 DEF Concluded
<1>5. CASE \E sameTask, sameLanguage \in BOOLEAN : CarryOver(g, sameTask, sameLanguage)
  <2>1. PICK sameTask \in BOOLEAN, sameLanguage \in BOOLEAN : CarryOver(open, sameTask, sameLanguage)
    BY <1>1, <1>5
  <2> DEFINE t == task[g]
             carried == Carried(consensus[t], g, sameTask, sameLanguage)
  <2>2. /\ LedgerInv' /\ consensus[t].status \notin Concluded
    BY <1>1, <1>2, <2>1, CarryOverKeeps
  <2>3. /\ g \in DOMAIN task /\ t \in DOMAIN consensus
        /\ consensus' = [consensus EXCEPT ![t] = carried]
        /\ UNCHANGED <<sessionVars, task, dispatch>>
    BY <1>1, <1>2, <2>1 DEF CarryOver
  <2>4. carried.generation = g /\ carried.status = "working" /\ IsDisputed(carried)
    BY <1>1, <1>2, <2>3, CarriedInv, CarriedDisputes DEF RunInv, LedgerInv, SessionInv
  <2> HIDE DEF carried
  <2>5. consensus'[t] = carried /\ \A u \in DOMAIN consensus \ {t} : consensus'[u] = consensus[u]
    BY <2>3
  <2> QED
    BY <1>1, <2>2, <2>3, <2>4, <2>5 DEF Concluded
<1>6. CASE g \in DOMAIN task /\ consensus[task[g]].generation = g /\ UNCHANGED vars
  <2>1. UNCHANGED <<generation, open, previous, task, consensus, dispatch>>
    BY <1>6 DEF vars, sessionVars
  <2>2. LedgerInv'
    BY <1>2, <2>1 DEF LedgerInv, SessionInv, TaskInv, DispatchInv, ConcludedInv
  <2> QED
    BY <1>1, <1>2, <1>6, <2>1, <2>2 DEF sessionVars
<1> QED
  BY <1>4, <1>5, <1>6 DEF Launch

LEMMA LaunchKeeps ==
  ASSUME RunInv, NEW g, Launch(g)
  PROVE  /\ RunInv'
         /\ run'[g].live /\ ~run'[g].rejected /\ run'[g].result = None
         /\ DOMAIN run' = DOMAIN run \cup {g}
<1> DEFINE new == NewRun(g)
<1>1. /\ LedgerInv'
      /\ g = open /\ g = generation /\ Running = {} /\ DOMAIN turn = {}
      /\ generation' = generation /\ open' = open /\ dispatch' = dispatch
      /\ g \in DOMAIN task' /\ DOMAIN task \subseteq DOMAIN task'
      /\ \A h \in DOMAIN task : task'[h] = task[h]
      /\ consensus'[task'[g]].generation = g
      /\ IsDisputed(consensus'[task'[g]])
  BY LaunchFields DEF sessionVars
<1>2. \A t \in DOMAIN consensus' :
        \/ t \in DOMAIN consensus /\ consensus'[t] = consensus[t]
        \/ t \in DOMAIN consensus /\ consensus[t].status \notin Concluded /\ t = task'[g]
        \/ t \notin DOMAIN consensus /\ t = task'[g]
  BY LaunchFields
<1>3. \A h \in DOMAIN run : run[h] \in RunRecord /\ h \in DOMAIN task
  BY DEF RunInv, RunsOK
<1>4. new \in RunRecord /\ new.live /\ ~new.rejected /\ new.result = None
  BY <1>3 DEF NewRun, RunRecord
<1> HIDE DEF new
<1>5. run' = Put(run, g, new) /\ UNCHANGED <<turn, archived, closed, faulted>>
  BY DEF Launch, new
<1>6. /\ DOMAIN run' = DOMAIN run \cup {g} /\ run'[g] = new
      /\ \A h \in DOMAIN run \ {g} : run'[h] = run[h]
  BY <1>5 DEF Put
<1>7. \A h \in DOMAIN run : ~run[h].live
  BY <1>1 DEF Running
<1>8. RunsOK'
  <2>1. \A h \in DOMAIN run' :
          /\ h \in DOMAIN task' /\ run'[h] \in RunRecord
          /\ run'[h].live => h = g
          /\ ~run'[h].live => run'[h].result # None
    BY <1>1, <1>3, <1>4, <1>6, <1>7 DEF RunInv, RunsOK
  <2>2. run'[g].result # "failed"
    BY <1>4, <1>6, ResultAssumption
  <2>3. \A t \in DOMAIN consensus' : consensus'[t].generation \in DOMAIN run'
    BY <1>1, <1>2, <1>6 DEF RunInv, RunsOK
  <2>4. \A d \in DOMAIN dispatch' : d \in TurnIds /\ d[1] \in DOMAIN run'
    BY <1>1, <1>6 DEF RunInv, RunsOK
  <2> QED
    BY <1>1, <2>1, <2>2, <2>3, <2>4 DEF RunsOK
<1>9. TurnsOK' /\ GateOK'
  BY <1>1, <1>5 DEF TurnsOK, GateOK
<1>10. ClosedOK'
  <2>1. \A h : Confirmed(h)' = Confirmed(h)
    BY <1>1 DEF Confirmed, Pending
  <2>2. \A h \in closed' : h \in DOMAIN run' /\ open' # h /\ run'[h].result \in Outcomes
    BY <1>1, <1>5, <1>6 DEF RunInv, ClosedOK
  <2>3. ASSUME NEW h \in DOMAIN run', run'[h].result \in Outcomes
        PROVE  IsKept(h)'
    <3>1. h # g
      BY <1>4, <1>6, <2>3, ResultAssumption DEF Outcomes
    <3>2. h \in DOMAIN run /\ run'[h] = run[h] /\ IsKept(h)
      BY <1>6, <2>3, <3>1 DEF RunInv, ClosedOK
    <3>3. h \in DOMAIN task /\ task[h] \in DOMAIN consensus /\ task'[h] = task[h]
          /\ task[h] \in DOMAIN consensus'
      BY <1>1, <1>3, <3>2 DEF RunInv, LedgerInv, TaskInv
    <3>4. consensus[task[h]].status \in Concluded
      BY <3>2, KeptIsConcluded
    <3>5. consensus'[task[h]] = consensus[task[h]]
      BY <1>2, <3>3, <3>4
    <3>6. h \in closed' /\ open' # h /\ h \in DOMAIN archived' /\ archived'[h] = archived[h]
      BY <1>1, <1>5, <3>1, <3>2 DEF IsKept
    <3> QED
      BY <2>1, <3>2, <3>3, <3>5, <3>6, KeptStays
  <2> QED
    BY <2>2, <2>3 DEF ClosedOK
<1>11. DisputesOK'
  BY <1>1, <1>2 DEF RunInv, DisputesOK
<1> QED
  BY <1>1, <1>4, <1>6, <1>8, <1>9, <1>10, <1>11 DEF RunInv

\* In a generation that nothing has failed in it is the first one, and has nothing to repeat.
LEMMA LaunchHealthy ==
  ASSUME RunInv, Healthy, NEW g, Launch(g)
  PROVE  Healthy'
<1>1. /\ g = open /\ Running = {} /\ DOMAIN turn = {}
      /\ open' = open /\ dispatch' = dispatch
      /\ consensus'[task'[g]].status \notin Concluded \/ g \in DOMAIN run
  BY LaunchFields DEF sessionVars
<1>2. turn' = turn /\ faulted' = faulted
  BY DEF Launch
<1>3. SUFFICES ASSUME g \notin faulted
               PROVE  run'[g].live /\ run'[g].result = None /\ InOrder(g)'
  BY <1>1, <1>2 DEF Healthy
<1>4. g \notin DOMAIN run
  BY <1>1, <1>3 DEF Healthy, Running
<1>5. \A d \in DOMAIN dispatch : d[1] # g
  BY <1>4 DEF RunInv, RunsOK
<1>6. TurnsOf(g)' = {}
  BY <1>1, <1>2 DEF TurnsOf
<1>7. InOrder(g)'
  BY <1>1, <1>4, <1>5, <1>6, LaunchKeeps DEF InOrder
<1> QED
  BY <1>7, LaunchKeeps

-----------------------------------------------------------------------------
\* A batch begins when no turn is in progress, and is made of turns that are called for.
LEMMA BeginFields ==
  ASSUME RunInv, NEW g, Begin(g)
  PROVE  /\ g \in Running /\ DOMAIN turn = {} /\ ~run[g].rejected
         /\ \A d \in DOMAIN turn' :
              turn'[d] \in NextTurns(consensus[task[g]], g) /\ turn'[d].id = d
<1> DEFINE c == consensus[task[g]]
           batch == Batch(NextTurns(c, g))
<1>1. g \in Running /\ TurnsOf(g) = {} /\ ~run[g].rejected
  BY DEF Begin
<1>2. DOMAIN turn = {}
  BY <1>1, OneRun DEF TurnsOf
<1>3. batch \subseteq NextTurns(c, g)
  BY <1>1, TaskOfRun, NextTurnsType, BatchOfTurns
<1>4. turn' = [d \in DOMAIN turn \cup {t.id : t \in batch} |->
                 IF d \in DOMAIN turn THEN turn[d] ELSE CHOOSE t \in batch : t.id = d]
  BY DEF Begin
<1> HIDE DEF batch
<1>5. ASSUME NEW d \in DOMAIN turn'
      PROVE  turn'[d] \in batch /\ turn'[d].id = d
  <2>1. \E t \in batch : t.id = d
    BY <1>2, <1>4
  <2>2. turn'[d] = CHOOSE t \in batch : t.id = d
    BY <1>2, <1>4
  <2> QED
    BY <2>1, <2>2
<1> QED
  BY <1>1, <1>2, <1>3, <1>5

LEMMA BeginKeeps ==
  ASSUME RunInv, NEW g, Begin(g)
  PROVE  RunInv'
<1> DEFINE c == consensus[task[g]]
<1>0. /\ UNCHANGED <<generation, open, previous, task, consensus, dispatch, archived, closed, run>>
  BY DEF Begin, vars, sessionVars
<1>1. /\ g \in Running /\ g \in Nat /\ StateInv(c)
      /\ \A d \in DOMAIN turn' : turn'[d] \in NextTurns(c, g) /\ turn'[d].id = d
  BY BeginFields, TaskOfRun
<1>2. LedgerInv' /\ DisputesOK'
  BY <1>0 DEF RunInv, LedgerInv, SessionInv, TaskInv, DispatchInv, ConcludedInv, DisputesOK
<1>3. RunsOK'
  BY <1>0 DEF RunInv, RunsOK
<1>4. \A d \in DOMAIN turn' :
        /\ turn'[d] \in TurnRecord /\ turn'[d].id = d /\ d[1] = g
        /\ turn'[d].run = g /\ turn'[d].step = "reserve"
  BY <1>1, NextTurnsType
<1>5. TurnsOK'
  BY <1>0, <1>1, <1>4 DEF TurnsOK, Running, TurnRecord
<1>6. GateOK'
  BY <1>4 DEF GateOK, Gate
<1>7. ClosedOK'
  <2>1. \A h : Confirmed(h)' = Confirmed(h)
    BY <1>0 DEF Confirmed, Pending
  <2> QED
    BY <1>0, <2>1 DEF RunInv, ClosedOK, IsKept
<1> QED
  BY <1>2, <1>3, <1>5, <1>6, <1>7 DEF RunInv

LEMMA BeginHealthy ==
  ASSUME RunInv, Healthy, NEW g, Begin(g)
  PROVE  Healthy'
<1> DEFINE c == consensus[task[g]]
<1>0. UNCHANGED <<open, task, consensus, dispatch, run, faulted>>
  BY DEF Begin, vars, sessionVars
<1>1. g \in Running /\ g \in Nat /\ StateInv(c) /\ IsDisputed(c) /\ DOMAIN turn = {} /\ ~run[g].rejected
  BY BeginFields, TaskOfRun
<1>2. SUFFICES ASSUME open = g, g \notin faulted
               PROVE  InOrder(g)'
  <2>1. \A h \in DOMAIN run : open = h => h = g
    BY <1>1, OneRun DEF RunInv, LedgerInv, SessionInv
  <2> QED
    BY <1>0, <1>2, <2>1 DEF Healthy
<1>3. InOrder(g) /\ TurnsOf(g) = {}
  BY <1>1, <1>2 DEF Healthy, AtTheGate, TurnsOf, Running
<1>4. \A d \in DOMAIN dispatch : d[1] = g => dispatch[d].confirmed /\ IsSpent(c, d)
  BY <1>3 DEF InOrder
<1>5. \A d \in DOMAIN turn' : turn'[d] \in NextTurns(c, g) /\ turn'[d].id = d
  BY BeginFields
<1>6. \A d \in DOMAIN turn' :
        /\ turn'[d].step = "reserve"
        /\ IsDue(c, d, turn'[d]) /\ d \notin DOMAIN dispatch
  BY <1>1, <1>4, <1>5, NextTurnsDue, NextTurnsType
<1>7. \A d, e \in DOMAIN turn' : d[2] = e[2] /\ (d[2] \in Alone => d = e)
  BY <1>1, <1>5, NextTurnsType
<1>8. TurnsOf(g)' \subseteq DOMAIN turn'
  BY DEF TurnsOf
<1>9. ~run'[g].rejected /\ c.status \notin Concluded
  BY <1>0, <1>3 DEF InOrder
<1>10. consensus'[task'[g]] = c /\ dispatch' = dispatch
  BY <1>0
<1> HIDE DEF c
<1> QED
  BY <1>4, <1>6, <1>7, <1>8, <1>9, <1>10 DEF InOrder, IsHeld

-----------------------------------------------------------------------------
\* A reservation adds the row of the turn, as it was read.
LEMMA ReserveNextFields ==
  ASSUME RunInv, NEW d \in DOMAIN turn, ReserveNext(d)
  PROVE  /\ LedgerInv'
         /\ d[1] = open
         /\ DOMAIN dispatch' = DOMAIN dispatch \cup {d} /\ d \notin DOMAIN dispatch
         /\ dispatch'[d] = [targets |-> turn[d].targets, proposal |-> turn[d].body,
                            positions |-> turn[d].positions, confirmed |-> FALSE]
         /\ \A e \in DOMAIN dispatch : dispatch'[e] = dispatch[e]
         /\ DOMAIN turn' = DOMAIN turn
         /\ turn'[d] = [turn[d] EXCEPT !.step = "model"]
         /\ \A e \in DOMAIN turn \ {d} : turn'[e] = turn[e]
         /\ UNCHANGED <<generation, open, task, consensus, run, archived, closed, faulted>>
<1> DEFINE t == turn[d]
<1>1. /\ d \in TurnIds /\ t \in TurnRecord /\ LedgerInv
  BY DEF RunInv, TurnsOK
<1>2. /\ d = <<d[1], d[2], d[3], d[4]>> /\ d[2] \in Kinds /\ d[3] \in Agents
      /\ t.body \in Bodies \cup {None} /\ t.positions \in Positions
      /\ t.targets \in SUBSET Specialists
  BY <1>1 DEF TurnIds, TurnRecord
<1>3. /\ ReserveTurn(d, t.body, t.positions, t.targets)
      /\ turn' = [turn EXCEPT ![d].step = "model"]
      /\ UNCHANGED <<run, archived, closed, faulted>>
  BY DEF ReserveNext
<1>4. d \notin DOMAIN dispatch /\ UNCHANGED <<generation, open, task, consensus>>
  BY <1>3 DEF ReserveTurn, MayReserve, sessionVars
<1>5. /\ DOMAIN turn' = DOMAIN turn
      /\ turn'[d] = [turn[d] EXCEPT !.step = "model"]
      /\ \A e \in DOMAIN turn \ {d} : turn'[e] = turn[e]
  BY <1>3
<1> HIDE DEF t
<1>6. /\ LedgerInv' /\ d[1] = open
      /\ DOMAIN dispatch' = DOMAIN dispatch \cup {d}
      /\ dispatch'[d] = [targets |-> t.targets, proposal |-> t.body, positions |-> t.positions,
                         confirmed |-> FALSE]
      /\ \A e \in DOMAIN dispatch : dispatch'[e] = dispatch[e]
  BY <1>1, <1>2, <1>3, ReserveTurnKeeps
<1> QED
  BY <1>3, <1>4, <1>5, <1>6 DEF t

LEMMA ReserveNextKeeps ==
  ASSUME RunInv, NEW d \in DOMAIN turn, ReserveNext(d)
  PROVE  RunInv'
<1>0. UNCHANGED <<generation, open, task, consensus, run, archived, closed, faulted>>
  BY ReserveNextFields
<1> DEFINE r == [targets |-> turn[d].targets, proposal |-> turn[d].body,
                 positions |-> turn[d].positions, confirmed |-> FALSE]
<1>1. /\ LedgerInv'
      /\ DOMAIN dispatch' = DOMAIN dispatch \cup {d} /\ d \notin DOMAIN dispatch
      /\ dispatch'[d] = r
      /\ \A e \in DOMAIN dispatch : dispatch'[e] = dispatch[e]
  BY ReserveNextFields
<1>10. ~r.confirmed
  OBVIOUS
<1> HIDE DEF r
<1>2. /\ DOMAIN turn' = DOMAIN turn
      /\ turn'[d] = [turn[d] EXCEPT !.step = "model"]
      /\ \A e \in DOMAIN turn \ {d} : turn'[e] = turn[e]
  BY ReserveNextFields
<1>3. \A g : Confirmed(g)' = Confirmed(g)
  BY <1>1, <1>10 DEF Confirmed, Pending
<1>4. RunsOK'
  BY <1>0, <1>1, OneRun DEF RunInv, RunsOK, TurnsOK, Running
<1>5. turn'[d] \in TurnRecord /\ turn'[d].id = turn[d].id /\ turn'[d].run = turn[d].run
      /\ turn'[d].step \notin Gate
  BY <1>2 DEF RunInv, TurnsOK, TurnRecord, Gate
<1>6. TurnsOK'
  BY <1>0, <1>2, <1>5 DEF RunInv, TurnsOK, Running
<1>7. GateOK'
  BY <1>0, <1>2, <1>3, <1>5 DEF RunInv, GateOK, Gate
<1>8. ClosedOK'
  BY <1>0, <1>3 DEF RunInv, ClosedOK, IsKept
<1>9. DisputesOK'
  BY <1>0 DEF RunInv, DisputesOK
<1> QED
  BY <1>1, <1>4, <1>6, <1>7, <1>8, <1>9 DEF RunInv

LEMMA ReserveNextHealthy ==
  ASSUME RunInv, Healthy, NEW d \in DOMAIN turn, ReserveNext(d)
  PROVE  Healthy'
<1>0. UNCHANGED <<generation, open, task, consensus, run, archived, closed, faulted>>
  BY ReserveNextFields
<1>1. /\ d[1] = open
      /\ DOMAIN dispatch' = DOMAIN dispatch \cup {d} /\ d \notin DOMAIN dispatch
      /\ dispatch'[d] = [targets |-> turn[d].targets, proposal |-> turn[d].body,
                         positions |-> turn[d].positions, confirmed |-> FALSE]
      /\ \A e \in DOMAIN dispatch : dispatch'[e] = dispatch[e]
  BY ReserveNextFields
<1>2. /\ DOMAIN turn' = DOMAIN turn
      /\ turn'[d] = [turn[d] EXCEPT !.step = "model"]
      /\ \A e \in DOMAIN turn \ {d} : turn'[e] = turn[e]
  BY ReserveNextFields
<1>3. /\ turn'[d].step = "model" /\ turn'[d].run = turn[d].run /\ turn'[d].body = turn[d].body
      /\ turn'[d].positions = turn[d].positions /\ turn'[d].targets = turn[d].targets
      /\ turn[d].run = d[1] /\ turn[d].step = "reserve"
  BY <1>2 DEF RunInv, TurnsOK, TurnRecord, ReserveNext
<1>4. \A h : TurnsOf(h)' = TurnsOf(h)
  <2>1. \A e \in DOMAIN turn : turn'[e].run = turn[e].run
    BY <1>2, <1>3
  <2> QED
    BY <1>2, <2>1 DEF TurnsOf
<1> SUFFICES ASSUME NEW h \in DOMAIN run, open = h, h \notin faulted
             PROVE  run[h].live /\ run[h].result = None /\ (AtTheGate(h)' \/ InOrder(h)')
  BY <1>0 DEF Healthy
<1>5. run[h].live /\ run[h].result = None /\ (AtTheGate(h) \/ InOrder(h))
  BY DEF Healthy
<1>6. CASE AtTheGate(h)
  <2>1. PICK e \in TurnsOf(h) : turn[e].step \in Gate
    BY <1>6 DEF AtTheGate
  <2>2. e # d
    BY <1>3, <2>1 DEF Gate
  <2> QED
    BY <1>2, <1>4, <1>5, <2>1, <2>2 DEF AtTheGate, TurnsOf
<1>7. CASE InOrder(h)
  <2> DEFINE c == consensus[task[h]]
             HeldNow(e) == IsHeld(e, turn[e])'
  <2>1. /\ ~run[h].rejected /\ c.status \notin Concluded
        /\ \A e, f \in TurnsOf(h) : e[2] = f[2] /\ (e[2] \in Alone => e = f)
    BY <1>7 DEF InOrder
  <2>2. d \in TurnsOf(h)
    BY <1>1, <1>3 DEF TurnsOf
  <2>3. \A e \in TurnsOf(h) : IsDue(c, e, turn'[e])
    <3>1. IsDue(c, d, turn'[d])
      BY <1>3, <1>7, <2>2 DEF InOrder, IsDue
    <3>2. \A e \in TurnsOf(h) \ {d} : IsDue(c, e, turn'[e])
      BY <1>2, <1>7 DEF InOrder, TurnsOf
    <3> QED  BY <3>1, <3>2
  <2>4. \A e \in TurnsOf(h) : HeldNow(e)
    <3>1. HeldNow(d)
      BY <1>1, <1>3 DEF IsHeld
    <3>2. \A e \in TurnsOf(h) \ {d} : IsHeld(e, turn[e])
      BY <1>7 DEF InOrder
    <3>3. ASSUME NEW e \in TurnsOf(h) \ {d}
          PROVE  HeldNow(e)
      BY <1>1, <1>2, <3>2, <3>3 DEF IsHeld, TurnsOf
    <3> QED  BY <3>1, <3>3
  <2>5. \A e \in DOMAIN dispatch' : e[1] = h =>
          IF dispatch'[e].confirmed THEN IsSpent(c, e) ELSE e \in TurnsOf(h)
    BY <1>1, <1>7, <2>2 DEF InOrder
  <2> HIDE DEF c
  <2>6. consensus'[task'[h]] = c /\ run' = run
    BY <1>0 DEF c
  <2>7. InOrder(h)'
    BY <1>4, <2>1, <2>3, <2>4, <2>5, <2>6 DEF InOrder
  <2> QED
    BY <1>5, <2>7
<1> QED
  BY <1>5, <1>6, <1>7

-----------------------------------------------------------------------------
\* A confirmed answer changes the state of the task, by what was still acceptable.
LEMMA AnswerState ==
  ASSUME RunInv, NEW d \in DOMAIN turn, NEW body \in Bodies, NEW decision,
         d[2] \in Reviews => decision \in Decisions, NEW handOff \in BOOLEAN,
         Confirm(d, body, decision, handOff)
  PROVE  LET c == consensus[task[open]]
             updated == Updated(c, d[2], d[3], dispatch[d], body, decision)
         IN  /\ StateInv(c) /\ IsDisputed(c) /\ c.status \notin Concluded
             /\ Confirmable(c, d[2], d[3], dispatch[d])
             /\ consensus'[task[open]] =
                  IF handOff THEN WithOutcome(updated, "unresolved", body) ELSE updated
<1> DEFINE c == consensus[task[open]]
           r == dispatch[d]
           updated == Updated(c, d[2], d[3], r, body, decision)
           next == IF handOff THEN WithOutcome(updated, "unresolved", body) ELSE updated
<1>1. d \in Pending /\ MayConfirm(d, decision, handOff)
  BY DEF Confirm, MayConfirm
<1>2. /\ d \in DOMAIN dispatch /\ d[2] \in Kinds /\ d[3] \in Agents /\ r \in Reservation
      /\ MayTake(d[2], d[3], r.targets)
  BY <1>1 DEF Pending, RunInv, LedgerInv, DispatchInv
<1>3. /\ d[1] = open /\ open \in DOMAIN task /\ task[open] \in DOMAIN consensus
      /\ StateInv(c) /\ IsDisputed(c)
  BY <1>1 DEF MayConfirm, MayDispatch, IsOpen, RunInv, LedgerInv, TaskInv, DisputesOK
<1>4. c.status \notin Concluded /\ Confirmable(c, d[2], d[3], r)
  BY <1>1, <1>2, <1>3 DEF MayConfirm, MayDispatch, Confirmable
<1>5. consensus' = [consensus EXCEPT ![task[open]] = next]
  BY <1>3 DEF Confirm
<1> HIDE DEF next
<1>6. consensus'[task[open]] = next
  BY <1>3, <1>5
<1> QED
  BY <1>3, <1>4, <1>6 DEF next

LEMMA AnswerFields ==
  ASSUME RunInv, NEW d \in DOMAIN turn, NEW body \in Bodies, NEW decision,
         d[2] \in Reviews => decision \in Decisions, NEW handOff \in BOOLEAN,
         Confirm(d, body, decision, handOff)
  PROVE  /\ LedgerInv' /\ DisputesOK'
         /\ d[1] = open /\ open = generation /\ open \in DOMAIN task
         /\ UNCHANGED <<generation, open, task>>
         /\ DOMAIN consensus' = DOMAIN consensus
         /\ \A t \in DOMAIN consensus : consensus'[t].generation = consensus[t].generation
         /\ \A t \in DOMAIN consensus \ {task[open]} : consensus'[t] = consensus[t]
         /\ d \in DOMAIN dispatch /\ ~dispatch[d].confirmed
         /\ DOMAIN dispatch' = DOMAIN dispatch /\ dispatch'[d].confirmed
         /\ \A e \in DOMAIN dispatch \ {d} : dispatch'[e] = dispatch[e]
         /\ \A e \in DOMAIN turn : turn[e].step \notin Gate
<1> DEFINE c == consensus[task[open]]
           r == dispatch[d]
           updated == Updated(c, d[2], d[3], r, body, decision)
<1>0. d \in Pending /\ LedgerInv
  BY DEF Confirm, MayConfirm, RunInv
<1>1. /\ d[1] = open /\ open \in DOMAIN task /\ task[open] \in DOMAIN consensus
      /\ UNCHANGED <<generation, open, task>>
      /\ DOMAIN consensus' = DOMAIN consensus
      /\ \A t \in DOMAIN consensus \ {task[open]} : consensus'[t] = consensus[t]
      /\ c.generation = open /\ consensus'[task[open]].generation = open
  BY <1>0, ConfirmKeeps DEF sessionVars
<1>12. LedgerInv'
  BY <1>0, ConfirmKeeps
<1>13. dispatch' = [dispatch EXCEPT ![d].confirmed = TRUE]
  BY DEF Confirm
<1>2. /\ StateInv(c) /\ IsDisputed(c) /\ c.status \notin Concluded
      /\ Confirmable(c, d[2], d[3], r)
      /\ consensus'[task[open]] = IF handOff THEN WithOutcome(updated, "unresolved", body) ELSE updated
  BY AnswerState
<1>3. /\ d \in DOMAIN dispatch /\ ~dispatch[d].confirmed /\ dispatch[d] \in Reservation
  BY <1>0 DEF Pending, LedgerInv, DispatchInv
<1>4. /\ DOMAIN dispatch' = DOMAIN dispatch /\ dispatch'[d].confirmed
      /\ \A e \in DOMAIN dispatch \ {d} : dispatch'[e] = dispatch[e]
  BY <1>3, <1>13 DEF Reservation
<1>5. \A t \in DOMAIN consensus : consensus'[t].generation = consensus[t].generation
  BY <1>1
<1>6. IsDisputed(updated) /\ StateInv(updated)
  BY <1>2, UpdatedDisputes, UpdatedInv
<1> HIDE DEF updated
<1>7. IsDisputed(WithOutcome(updated, "unresolved", body))
  BY <1>6 DEF IsDisputed, WithOutcome, StateInv, TaskState
<1>8. IsDisputed(consensus'[task[open]])
  BY <1>2, <1>6, <1>7
<1>9. DisputesOK'
  BY <1>1, <1>8 DEF RunInv, DisputesOK
<1>10. open = generation
  BY <1>1, OneRun
<1>11. ASSUME NEW e \in DOMAIN turn, turn[e].step \in Gate
       PROVE  FALSE
  <2>1. e[1] = open
    BY <1>10, OneRun
  <2>2. c.status = StatusOf(turn[e].outcome)
    BY <1>11, <2>1 DEF RunInv, GateOK
  <2> QED
    BY <1>2, <2>2 DEF StatusOf, Concluded
<1> QED
  BY <1>1, <1>3, <1>4, <1>5, <1>9, <1>10, <1>11, <1>12

\* What was settled before stands.
LEMMA AnswerLeaves ==
  ASSUME RunInv, NEW d \in DOMAIN turn, NEW body \in Bodies, NEW decision,
         d[2] \in Reviews => decision \in Decisions, NEW handOff \in BOOLEAN,
         Confirm(d, body, decision, handOff), UNCHANGED <<archived, closed>>,
         DOMAIN run' = DOMAIN run,
         \A g \in DOMAIN run : /\ run'[g] \in RunRecord /\ (run'[g].live <=> run[g].live)
                               /\ run'[g].result = run[g].result
  PROVE  RunsOK' /\ ClosedOK'
<1>1. /\ d[1] = open
      /\ UNCHANGED <<generation, open, task>>
      /\ DOMAIN consensus' = DOMAIN consensus
      /\ \A t \in DOMAIN consensus : consensus'[t].generation = consensus[t].generation
      /\ \A t \in DOMAIN consensus \ {task[open]} : consensus'[t] = consensus[t]
      /\ DOMAIN dispatch' = DOMAIN dispatch
      /\ \A e \in DOMAIN dispatch \ {d} : dispatch'[e] = dispatch[e]
  BY AnswerFields
<1>2. consensus[task[open]].status \notin Concluded
  BY AnswerState
<1>3. RunsOK'
  BY <1>1, RunsKept DEF RunInv, RunsOK
<1>4. \A g \in closed' : g \in DOMAIN run' /\ open' # g /\ run'[g].result \in Outcomes
  BY <1>1 DEF RunInv, ClosedOK
<1>5. ASSUME NEW g \in DOMAIN run, run[g].result \in Outcomes
      PROVE  IsKept(g)'
  <2>1. IsKept(g) /\ g \in DOMAIN task /\ task[g] \in DOMAIN consensus
    BY <1>5 DEF RunInv, ClosedOK, RunsOK, LedgerInv, TaskInv
  <2>2. consensus[task[g]].status \in Concluded
    BY <2>1, KeptIsConcluded
  <2>3. consensus'[task[g]] = consensus[task[g]]
    BY <1>1, <1>2, <2>1, <2>2
  <2>4. g # open /\ g \in closed' /\ g \in DOMAIN archived' /\ archived'[g] = archived[g]
    BY <2>1 DEF IsKept
  <2>5. Confirmed(g)' = Confirmed(g)
    BY <1>1, <2>4 DEF Confirmed, Pending
  <2> QED
    BY <1>1, <2>1, <2>3, <2>4, <2>5, KeptStays
<1> QED
  BY <1>3, <1>4, <1>5 DEF ClosedOK

\* The outcome a turn carries to the gate is the one written in the state.
LEMMA OutcomeWritten ==
  ASSUME RunInv, NEW d \in DOMAIN turn, NEW body \in Bodies, NEW decision,
         d[2] \in Reviews => decision \in Decisions, NEW handOff \in BOOLEAN,
         Confirm(d, body, decision, handOff), handOff \/ d[2] \in {"final", "unresolved"}
  PROVE  LET outcome == IF handOff THEN "safety_handoff" ELSE d[2]
         IN  outcome \in Outcomes /\ consensus'[task[open]].status = StatusOf(outcome)
<1> DEFINE c == consensus[task[open]]
           updated == Updated(c, d[2], d[3], dispatch[d], body, decision)
<1>1. /\ StateInv(c) /\ Confirmable(c, d[2], d[3], dispatch[d])
      /\ consensus'[task[open]] = IF handOff THEN WithOutcome(updated, "unresolved", body) ELSE updated
  BY AnswerState
<1>2. CASE handOff
  <2>1. updated \in TaskState
    BY <1>1, UpdatedInv DEF StateInv
  <2> HIDE DEF updated
  <2>2. WithOutcome(updated, "unresolved", body).status = "unresolved"
    BY <2>1 DEF WithOutcome, TaskState
  <2> QED
    BY <1>1, <1>2, <2>2 DEF Outcomes, StatusOf
<1>3. CASE ~handOff /\ d[2] = "final"
  <2>1. updated.status = "published"
    BY <1>1, <1>3 DEF Updated, Reviews, WithOutcome, StateInv, TaskState
  <2> QED
    BY <1>1, <1>3, <2>1 DEF Outcomes, StatusOf
<1>4. CASE ~handOff /\ d[2] = "unresolved"
  <2>1. updated.status = "unresolved"
    BY <1>1, <1>4 DEF Updated, Reviews, WithOutcome, StateInv, TaskState
  <2> QED
    BY <1>1, <1>4, <2>1 DEF Outcomes, StatusOf
<1> QED
  BY <1>2, <1>3, <1>4

LEMMA AnswerKeeps ==
  ASSUME RunInv, NEW d \in DOMAIN turn, NEW body \in Bodies, NEW decision \in Decisions \cup {None},
         NEW handOff \in BOOLEAN,
         Answer(d, body, decision, handOff) \/ AnswerUndelivered(d, body, decision, handOff)
  PROVE  RunInv'
<1>1. /\ d[2] \in Reviews => decision \in Decisions
      /\ Confirm(d, body, decision, handOff)
      /\ UNCHANGED <<archived, closed>>
  BY DEF Answer, AnswerUndelivered, MaySay
<1>2. /\ LedgerInv' /\ DisputesOK'
      /\ d[1] = open /\ open = generation /\ task' = task
      /\ \A e \in DOMAIN turn : turn[e].step \notin Gate
  BY <1>1, AnswerFields
<1>3. \A e \in DOMAIN turn : /\ e \in TurnIds /\ turn[e] \in TurnRecord /\ turn[e].id = e
                             /\ turn[e].run = e[1] /\ e[1] \in Running
  BY DEF RunInv, TurnsOK
<1>4. ASSUME NEW isRejected \in BOOLEAN, Settle(d, isRejected)
      PROVE  RunInv'
  <2>1. /\ DOMAIN run' = DOMAIN run
        /\ \A g \in DOMAIN run : /\ run'[g] \in RunRecord /\ (run'[g].live <=> run[g].live)
                                 /\ run'[g].result = run[g].result
        /\ DOMAIN turn' = DOMAIN turn \ {d}
        /\ \A e \in DOMAIN turn' : turn'[e] = turn[e]
    BY <1>4, SettleFields
  <2>2. RunsOK' /\ ClosedOK'
    BY <1>1, <2>1, AnswerLeaves
  <2>3. TurnsOK'
    BY <1>3, <2>1 DEF TurnsOK, Running
  <2>4. GateOK'
    BY <1>2, <2>1 DEF GateOK, Gate
  <2> QED
    BY <1>2, <2>2, <2>3, <2>4 DEF RunInv
<1>5. ASSUME Answer(d, body, decision, handOff), handOff \/ d[2] \in {"final", "unresolved"}
      PROVE  RunInv'
  <2> DEFINE outcome == IF handOff THEN "safety_handoff" ELSE d[2]
  <2>1. outcome \in Outcomes /\ consensus'[task[open]].status = StatusOf(outcome)
    BY <1>1, <1>5, OutcomeWritten
  <2>2. /\ turn' = [turn EXCEPT ![d].step = "seal", ![d].outcome = outcome]
        /\ run' = run
    BY <1>5 DEF Answer
  <2> HIDE DEF outcome
  <2>3. /\ DOMAIN turn' = DOMAIN turn
        /\ turn'[d] = [turn[d] EXCEPT !.step = "seal", !.outcome = outcome]
        /\ \A e \in DOMAIN turn \ {d} : turn'[e] = turn[e]
    BY <2>2
  <2>4. /\ turn'[d] \in TurnRecord /\ turn'[d].id = d /\ turn'[d].run = d[1]
        /\ turn'[d].step = "seal" /\ turn'[d].outcome = outcome
    BY <1>3, <2>1, <2>3 DEF TurnRecord, Gate
  <2>5. RunsOK' /\ ClosedOK'
    BY <1>1, <2>2, AnswerLeaves DEF RunInv, RunsOK
  <2>6. TurnsOK'
    BY <1>3, <2>2, <2>3, <2>4 DEF TurnsOK, Running
  <2>7. GateOK'
    BY <1>2, <2>1, <2>3, <2>4 DEF GateOK, Gate
  <2> QED
    BY <1>2, <2>5, <2>6, <2>7 DEF RunInv
<1> QED
  BY <1>4, <1>5 DEF Answer, AnswerUndelivered

\* What the state calls for once one of a batch is confirmed: the rest of it.
LEMMA OrderKept ==
  ASSUME RunInv, NEW d \in DOMAIN turn, NEW body \in Bodies, NEW decision,
         d[2] \in Reviews => decision \in Decisions, Confirm(d, body, decision, FALSE),
         d[2] \notin {"final", "unresolved"}, Settle(d, FALSE), InOrder(open)
  PROVE  InOrder(open)'
<1> DEFINE c == consensus[task[open]]
           r == dispatch[d]
           w == Updated(c, d[2], d[3], r, body, decision)
<1>1. /\ StateInv(c) /\ c.status \notin Concluded /\ Confirmable(c, d[2], d[3], r)
      /\ consensus'[task[open]] = w
  BY AnswerState
<1>2. /\ d[1] = open /\ open = generation
      /\ UNCHANGED <<generation, open, task>>
      /\ d \in DOMAIN dispatch /\ ~dispatch[d].confirmed
      /\ DOMAIN dispatch' = DOMAIN dispatch /\ dispatch'[d].confirmed
      /\ \A e \in DOMAIN dispatch \ {d} : dispatch'[e] = dispatch[e]
  BY AnswerFields
<1>3. /\ DOMAIN turn' = DOMAIN turn \ {d}
      /\ \A e \in DOMAIN turn' : turn'[e] = turn[e]
      /\ \A g \in DOMAIN run : ~run[g].rejected => ~run'[g].rejected
  BY SettleFields
<1>4. \A e \in DOMAIN turn : e \in TurnIds /\ e[1] = open /\ turn[e].run = open /\ open \in DOMAIN run
  BY <1>2, OneRun DEF RunInv, TurnsOK, Running
<1>5. TurnsOf(open) = DOMAIN turn /\ TurnsOf(open)' = DOMAIN turn \ {d}
  <2>1. TurnsOf(open) = DOMAIN turn
    BY <1>4 DEF TurnsOf
  <2>2. open' = open /\ \A e \in DOMAIN turn' : turn'[e].run = open
    BY <1>2, <1>3, <1>4
  <2>3. TurnsOf(open)' = DOMAIN turn'
    BY <2>2 DEF TurnsOf
  <2> QED
    BY <1>3, <2>1, <2>3
<1>6. /\ ~run[open].rejected
      /\ \A e \in DOMAIN turn : IsDue(c, e, turn[e]) /\ IsHeld(e, turn[e])
      /\ \A e, f \in DOMAIN turn : e[2] = f[2] /\ (e[2] \in Alone => e = f)
      /\ \A e \in DOMAIN dispatch : e[1] = open =>
           IF dispatch[e].confirmed THEN IsSpent(c, e) ELSE e \in DOMAIN turn
  BY <1>5 DEF InOrder
<1>7. w.status \notin Concluded
  <2>1. w.status \in Concluded => d[2] \in {"final", "unresolved"}
    BY <1>1, UpdatedInv
  <2> QED
    BY <2>1
<1>8. r.targets = turn[d].targets
  <2>1. IsHeld(d, turn[d])
    BY <1>6
  <2>2. r = [targets |-> turn[d].targets, proposal |-> turn[d].body,
             positions |-> turn[d].positions, confirmed |-> FALSE]
    BY <1>2, <2>1 DEF IsHeld
  <2> HIDE DEF r
  <2> QED
    BY <2>2
<1>9. IsSpent(w, d)
  BY <1>1, <1>4, <1>6, <1>8, SpentNow
<1>10. ASSUME NEW e \in DOMAIN dispatch, e[1] = open, dispatch[e].confirmed
       PROVE  IsSpent(w, e)
  <2>1. e \in TurnIds /\ IsSpent(c, e) /\ MayTake(e[2], e[3], dispatch[e].targets)
    BY <1>6, <1>10 DEF RunInv, RunsOK, LedgerInv, DispatchInv
  <2>2. /\ e[2] = "position" => e[3] \in Specialists
        /\ e[2] = "specialist_review" => e[3] \in Specialists
    BY <2>1 DEF MayTake
  <2> QED
    BY <1>1, <2>1, <2>2, SpentStays
<1>11. ASSUME NEW e \in DOMAIN turn \ {d}
       PROVE  IsDue(w, e, turn[e])
  <2>1. e[2] = d[2] /\ e[2] \notin Alone /\ e[1] = d[1]
    BY <1>2, <1>4, <1>6
  <2> QED
    BY <1>1, <1>4, <1>6, <2>1, DueKept
<1>12. consensus'[task'[open']] = w /\ open' = open
  BY <1>1, <1>2
<1> HIDE DEF w, c, r
<1>13. \A e \in TurnsOf(open)' : IsHeld(e, turn[e])'
  BY <1>2, <1>3, <1>5, <1>6 DEF IsHeld
<1> QED
  BY <1>2, <1>3, <1>4, <1>5, <1>6, <1>7, <1>9, <1>10, <1>11, <1>12, <1>13 DEF InOrder

LEMMA AnswerHealthy ==
  ASSUME RunInv, Healthy, NEW d \in DOMAIN turn, NEW body \in Bodies,
         NEW decision \in Decisions \cup {None}, NEW handOff \in BOOLEAN,
         Answer(d, body, decision, handOff)
  PROVE  Healthy'
<1>1. /\ d[2] \in Reviews => decision \in Decisions
      /\ Confirm(d, body, decision, handOff)
      /\ faulted' = faulted
  BY DEF Answer, MaySay
<1>2. /\ d[1] = open /\ open' = open
      /\ \A e \in DOMAIN turn : turn[e].step \notin Gate
  BY <1>1, AnswerFields
<1>3. turn[d].run = open /\ open \in DOMAIN run
  BY <1>2, OneRun DEF Running
<1>4. CASE open \in faulted
  BY <1>1, <1>2, <1>4 DEF Healthy
<1>5. CASE open \notin faulted
  <2>1. run[open].live /\ run[open].result = None /\ InOrder(open)
    BY <1>2, <1>3, <1>5 DEF Healthy, AtTheGate, TurnsOf
  <2>2. CASE handOff \/ d[2] \in {"final", "unresolved"}
    <3> DEFINE outcome == IF handOff THEN "safety_handoff" ELSE d[2]
    <3>1. /\ turn' = [turn EXCEPT ![d].step = "seal", ![d].outcome = outcome]
          /\ run' = run
      BY <2>2 DEF Answer
    <3> HIDE DEF outcome
    <3>2. DOMAIN turn' = DOMAIN turn
          /\ turn'[d] = [turn[d] EXCEPT !.step = "seal", !.outcome = outcome]
      BY <3>1
    <3>3. turn'[d].run = open /\ turn'[d].step = "seal"
      BY <1>3, <3>2 DEF RunInv, TurnsOK, TurnRecord
    <3>4. AtTheGate(open)'
      BY <1>2, <3>2, <3>3 DEF AtTheGate, TurnsOf, Gate
    <3> QED
      BY <1>2, <2>1, <3>1, <3>4 DEF Healthy
  <2>3. CASE ~handOff /\ d[2] \notin {"final", "unresolved"}
    <3>1. Settle(d, FALSE) /\ Confirm(d, body, decision, FALSE)
      BY <1>1, <2>3 DEF Answer
    <3>2. DOMAIN run' = DOMAIN run /\ run'[open].live /\ run'[open].result = None
      BY <1>3, <2>1, <3>1, SettleFields
    <3>3. InOrder(open)'
      BY <1>1, <2>1, <2>3, <3>1, OrderKept
    <3> QED
      BY <1>2, <3>2, <3>3 DEF Healthy
  <2> QED
    BY <2>2, <2>3
<1> QED
  BY <1>4, <1>5

-----------------------------------------------------------------------------
\* The steps after the answer: a turn seals, and closes its session.
LEMMA SealKeeps ==
  ASSUME RunInv, NEW d \in DOMAIN turn, Seal(d)
  PROVE  RunInv' /\ (Healthy => Healthy')
<1>0. /\ UNCHANGED <<generation, open, previous, task, consensus, dispatch, run, closed, faulted>>
      /\ archived' = Put(archived, d[1], Confirmed(d[1]))
      /\ turn' = [turn EXCEPT ![d].step = "close"]
      /\ turn[d].step = "seal" /\ d[1] = open /\ turn[d].run = d[1]
  BY OneRun DEF Seal, IsOpen, vars, sessionVars
<1>1. /\ DOMAIN turn' = DOMAIN turn
      /\ turn'[d] = [turn[d] EXCEPT !.step = "close"]
      /\ \A e \in DOMAIN turn \ {d} : turn'[e] = turn[e]
  BY <1>0
<1>2. /\ turn'[d] \in TurnRecord /\ turn'[d].id = turn[d].id /\ turn'[d].run = turn[d].run
      /\ turn'[d].step = "close" /\ turn'[d].outcome = turn[d].outcome
  BY <1>1 DEF RunInv, TurnsOK, TurnRecord, Gate
<1>3. /\ DOMAIN archived' = DOMAIN archived \cup {d[1]} /\ archived'[d[1]] = Confirmed(d[1])
      /\ \A g \in DOMAIN archived \ {d[1]} : archived'[g] = archived[g]
  BY <1>0 DEF Put
<1>4. \A g : Confirmed(g)' = Confirmed(g)
  BY <1>0 DEF Confirmed, Pending
<1>5. LedgerInv' /\ DisputesOK'
  BY <1>0 DEF RunInv, LedgerInv, SessionInv, TaskInv, DispatchInv, ConcludedInv, DisputesOK
<1>6. RunsOK'
  BY <1>0 DEF RunInv, RunsOK
<1>7. TurnsOK'
  BY <1>0, <1>1, <1>2 DEF RunInv, TurnsOK, Running
<1>8. GateOK'
  <2>1. \A e \in DOMAIN turn : e[1] = d[1]
    BY OneRun
  <2>2. ASSUME NEW e \in DOMAIN turn, turn'[e].step \in Gate
        PROVE  /\ turn'[e].outcome \in Outcomes
               /\ consensus[task[e[1]]].status = StatusOf(turn'[e].outcome)
    BY <1>0, <1>1, <1>2, <2>2 DEF RunInv, GateOK, Gate
  <2> QED
    BY <1>0, <1>1, <1>3, <1>4, <2>1, <2>2 DEF GateOK
<1>9. ClosedOK'
  <2>1. ASSUME NEW g \in DOMAIN run, run[g].result \in Outcomes
        PROVE  IsKept(g)'
    <3>1. IsKept(g)
      BY <2>1 DEF RunInv, ClosedOK
    <3>2. g # d[1]
      BY <1>0, <3>1 DEF IsKept
    <3>3. g \in DOMAIN archived' /\ archived'[g] = archived[g]
      BY <1>3, <3>1, <3>2 DEF IsKept
    <3> QED
      BY <1>0, <1>4, <3>1, <3>3 DEF IsKept
  <2> QED
    BY <1>0, <2>1 DEF RunInv, ClosedOK
<1>10. AtTheGate(d[1])'
  BY <1>0, <1>1, <1>2 DEF AtTheGate, TurnsOf, Gate
<1>11. Healthy => Healthy'
  BY <1>0, <1>10 DEF Healthy
<1> QED
  BY <1>5, <1>6, <1>7, <1>8, <1>9, <1>11 DEF RunInv

LEMMA CloseKeeps ==
  ASSUME RunInv, NEW d \in DOMAIN turn, Close(d)
  PROVE  RunInv' /\ Healthy'
<1> DEFINE g == d[1]
           result == turn[d].outcome
           x == run[g].rejected \/ turn[d].outcome = "safety_handoff"
<1>0. /\ UNCHANGED <<generation, previous, task, consensus, dispatch, archived, faulted>>
      /\ open' = 0 /\ closed' = closed \cup {g}
      /\ turn' = [e \in DOMAIN turn \ {d} |-> turn[e]]
      /\ run' = [run EXCEPT ![g].result = result, ![g].rejected = x]
      /\ turn[d].step = "close" /\ g = open
  BY OneRun DEF Close, IsOpen, FenceSession
<1>1. FenceSession /\ LedgerInv
  BY DEF Close, RunInv
<1>2. LedgerInv'
  BY <1>1, SessionStepsKeep
<1>3. /\ result \in Outcomes /\ consensus[task[g]].status = StatusOf(result)
      /\ g \in DOMAIN archived /\ archived[g] = Confirmed(g)
  BY <1>0 DEF RunInv, GateOK, Gate
<1>4. x \in BOOLEAN /\ g \in DOMAIN run
  BY OneRun DEF Running, RunInv, RunsOK, RunRecord
<1> HIDE DEF x, result
<1>5. /\ DOMAIN run' = DOMAIN run
      /\ run'[g] = [run[g] EXCEPT !.result = result, !.rejected = x]
      /\ \A h \in DOMAIN run \ {g} : run'[h] = run[h]
  BY <1>0, <1>4
<1>6. /\ run'[g] \in RunRecord /\ (run'[g].live <=> run[g].live) /\ run'[g].result = result
  BY <1>3, <1>4, <1>5 DEF RunInv, RunsOK, RunRecord
<1>7. RunsOK'
  <2>1. result # "failed" /\ result # None
    BY <1>3, ResultAssumption DEF Outcomes
  <2> QED
    BY <1>0, <1>4, <1>5, <1>6, <2>1 DEF RunInv, RunsOK
<1>8. TurnsOK'
  BY <1>0, <1>5, <1>6 DEF RunInv, TurnsOK, Running
<1>9. \A h : Confirmed(h)' = Confirmed(h)
  BY <1>0 DEF Confirmed, Pending
<1>10. GateOK'
  BY <1>0, <1>9 DEF RunInv, GateOK
<1>11. \A h \in DOMAIN run : h # 0
  BY OneRun
<1>12. ClosedOK'
  <2>1. \A h \in closed' : h \in DOMAIN run' /\ open' # h /\ run'[h].result \in Outcomes
    BY <1>0, <1>3, <1>4, <1>5, <1>6, <1>11 DEF RunInv, ClosedOK
  <2>2. IsKept(g)'
    BY <1>0, <1>3, <1>4, <1>6, <1>9, <1>11 DEF IsKept, StatusOf
  <2>3. ASSUME NEW h \in DOMAIN run \ {g}, run[h].result \in Outcomes
        PROVE  IsKept(h)'
    <3>1. IsKept(h)
      BY <2>3 DEF RunInv, ClosedOK
    <3> QED
      BY <1>0, <1>5, <1>9, <1>11, <3>1 DEF IsKept
  <2> QED
    BY <1>5, <2>1, <2>2, <2>3 DEF ClosedOK
<1>13. DisputesOK'
  BY <1>0 DEF RunInv, DisputesOK
<1>14. Healthy'
  BY <1>0, <1>5, <1>11 DEF Healthy
<1> QED
  BY <1>2, <1>7, <1>8, <1>10, <1>12, <1>13, <1>14 DEF RunInv

\* A turn that is refused, fails, or cannot be closed leaves a healthy run healthy: it is
\* refused only beside a turn at the gate, and closed only while its session is open.
LEMMA SettleHealthy ==
  ASSUME RunInv, Healthy, BudgetLeft, NEW d \in DOMAIN turn,
         Refused(d) \/ Fail(d) \/ CloseRefused(d)
  PROVE  Healthy'
<1>1. Settle(d, TRUE) /\ UNCHANGED <<open, task, consensus, dispatch>>
  BY DEF Refused, Fail, CloseRefused, vars, sessionVars
<1>2. /\ DOMAIN run' = DOMAIN run
      /\ \A g \in DOMAIN run : (run'[g].live <=> run[g].live) /\ run'[g].result = run[g].result
      /\ DOMAIN turn' = DOMAIN turn \ {d}
      /\ \A e \in DOMAIN turn' : turn'[e] = turn[e]
  BY <1>1, SettleFields
<1>3. faulted \subseteq faulted'
  BY DEF Refused, Fail, CloseRefused, Fault
<1> SUFFICES ASSUME NEW g \in DOMAIN run, open = g, g \notin faulted'
             PROVE  run'[g].live /\ run'[g].result = None /\ (AtTheGate(g)' \/ InOrder(g)')
  BY <1>1, <1>2 DEF Healthy
<1>4. run[g].live /\ run[g].result = None /\ (AtTheGate(g) \/ InOrder(g)) /\ g \in Running
  BY <1>3 DEF Healthy, Running
<1>5. d[1] = g /\ turn[d].run = g /\ d \in TurnsOf(g)
  BY <1>4, OneRun DEF TurnsOf
<1>6. Refused(d)
  <2>1. g # 0
    BY OneRun
  <2>2. ~Fail(d)
    BY <1>5 DEF Fail, Fault
  <2>3. ~CloseRefused(d)
    BY <1>5, <2>1 DEF CloseRefused, IsOpen
  <2> QED
    BY <2>2, <2>3
<1>7. AtTheGate(g)
  BY <1>4, <1>5, <1>6, NotRefused
<1>8. PICK e \in TurnsOf(g) : turn[e].step \in Gate
  BY <1>7 DEF AtTheGate
<1>9. e # d
  BY <1>6, <1>8 DEF Refused, Gate
<1>10. AtTheGate(g)'
  BY <1>2, <1>8, <1>9 DEF AtTheGate, TurnsOf
<1> QED
  BY <1>2, <1>4, <1>10

\* A run returns with its result, and fails only when it was rejected: never a healthy one.
LEMMA ReturnKeeps ==
  ASSUME RunInv, NEW g, Return(g)
  PROVE  RunInv' /\ (Healthy => Healthy')
<1> DEFINE result == IF run[g].result = None THEN "failed" ELSE run[g].result
<1>0. /\ UNCHANGED <<generation, open, previous, task, consensus, dispatch, turn, archived, closed, faulted>>
      /\ run' = [run EXCEPT ![g].live = FALSE, ![g].result = result]
      /\ g \in Running /\ TurnsOf(g) = {}
      /\ run[g].rejected \/ run[g].result # None
  BY DEF Return, vars, sessionVars
<1>1. DOMAIN turn = {} /\ g = generation /\ g \in DOMAIN run
  BY <1>0, OneRun DEF TurnsOf, Running
<1>2. /\ result # None /\ result \in Outcomes \cup {"failed"}
      /\ result \in Outcomes => result = run[g].result
  BY <1>1, ResultAssumption DEF RunInv, RunsOK, RunRecord, Outcomes
<1> HIDE DEF result
<1>3. /\ DOMAIN run' = DOMAIN run
      /\ run'[g] = [run[g] EXCEPT !.live = FALSE, !.result = result]
      /\ \A h \in DOMAIN run \ {g} : run'[h] = run[h]
  BY <1>0, <1>1
<1>4. run'[g] \in RunRecord /\ ~run'[g].live /\ run'[g].result = result
  BY <1>1, <1>2, <1>3 DEF RunInv, RunsOK, RunRecord
<1>5. LedgerInv' /\ DisputesOK'
  BY <1>0 DEF RunInv, LedgerInv, SessionInv, TaskInv, DispatchInv, ConcludedInv, DisputesOK
<1>6. RunsOK'
  BY <1>0, <1>2, <1>3, <1>4 DEF RunInv, RunsOK
<1>7. TurnsOK' /\ GateOK'
  BY <1>0, <1>1 DEF TurnsOK, GateOK
<1>8. ClosedOK'
  <2>1. \A h : Confirmed(h)' = Confirmed(h)
    BY <1>0 DEF Confirmed, Pending
  <2>2. \A h \in DOMAIN run : run'[h].result \in Outcomes => run'[h].result = run[h].result
    BY <1>2, <1>3, <1>4
  <2>3. \A h \in DOMAIN run : run[h].result \in Outcomes => run'[h].result = run[h].result
    <3>1. run[g].result \in Outcomes => run[g].result = result
      BY ResultAssumption DEF result, Outcomes
    <3> QED
      BY <1>3, <1>4, <3>1
  <2>4. \A h \in closed' : h \in DOMAIN run' /\ open' # h /\ run'[h].result \in Outcomes
    BY <1>0, <1>3, <2>3 DEF RunInv, ClosedOK
  <2>5. ASSUME NEW h \in DOMAIN run, run'[h].result \in Outcomes
        PROVE  IsKept(h)'
    BY <1>0, <2>1, <2>2, <2>5 DEF RunInv, ClosedOK, IsKept
  <2> QED
    BY <1>3, <2>4, <2>5 DEF ClosedOK
<1>9. Healthy => Healthy'
  <2> SUFFICES ASSUME Healthy, NEW h \in DOMAIN run, open = h, h \notin faulted
               PROVE  /\ run'[h].live /\ run'[h].result = None
                      /\ AtTheGate(h)' \/ InOrder(h)'
    BY <1>0, <1>3 DEF Healthy
  <2>1. run[h].live /\ run[h].result = None /\ (AtTheGate(h) \/ InOrder(h))
    BY DEF Healthy
  <2>2. h # g
    BY <1>0, <2>1 DEF AtTheGate, InOrder
  <2>3. run'[h] = run[h]
    BY <1>3, <2>2
  <2>4. AtTheGate(h) => AtTheGate(h)'
    BY <1>0 DEF AtTheGate, TurnsOf
  <2>5. InOrder(h) => InOrder(h)'
    BY <1>0, <2>3 DEF InOrder, TurnsOf, IsHeld
  <2> QED
    BY <2>1, <2>3, <2>4, <2>5
<1> QED
  BY <1>5, <1>6, <1>7, <1>8, <1>9 DEF RunInv

\* Sessions open and are continued when no run is in progress, and are fenced at any time.
LEMMA OutsideKeeps ==
  ASSUME RunInv, Outside
  PROVE  RunInv' /\ Healthy'
<1>1. /\ UNCHANGED <<run, turn, archived, closed, faulted, consensus, dispatch>>
      /\ FenceSession \/ (Running = {} /\ (OpenSession \/ Revise))
      /\ LedgerInv
  BY DEF Outside, routerVars, FenceSession, OpenSession, Revise, RunInv
<1>2. LedgerInv' /\ DisputesOK'
  BY <1>1, SessionStepsKeep DEF RunInv, DisputesOK
<1>3. \A g : Confirmed(g)' = Confirmed(g)
  BY <1>1 DEF Confirmed, Pending
<1>4. /\ DOMAIN run \subseteq DOMAIN task
      /\ \A g \in DOMAIN run : g # 0 /\ g # generation + 1
  BY OneRun DEF RunInv, RunsOK, LedgerInv, SessionInv
<1>5. /\ open' \in {0, generation + 1} /\ DOMAIN task \subseteq DOMAIN task'
      /\ \A g \in DOMAIN run : task'[g] = task[g]
      /\ generation' = generation \/ Running = {}
  <2>1. CASE FenceSession
    BY <2>1 DEF FenceSession
  <2>2. CASE Running = {} /\ OpenSession
    BY <2>2 DEF OpenSession
  <2>3. CASE Running = {} /\ Revise
    BY <1>4, <2>3 DEF Revise, Put
  <2> QED
    BY <1>1, <2>1, <2>2, <2>3
<1>6. RunsOK'
  BY <1>1, <1>4, <1>5 DEF RunInv, RunsOK, Running
<1>7. TurnsOK'
  BY <1>1 DEF RunInv, TurnsOK, Running
<1>8. GateOK'
  <2>1. \A d \in DOMAIN turn : task'[d[1]] = task[d[1]]
    BY <1>5, OneRun DEF Running
  <2> QED
    BY <1>1, <1>3, <2>1 DEF RunInv, GateOK
<1>9. ClosedOK'
  <2>1. \A g \in DOMAIN run : open' # g
    BY <1>4, <1>5
  <2>2. \A g \in DOMAIN run : run[g].result \in Outcomes => IsKept(g)'
    BY <1>1, <1>3, <1>5, <2>1 DEF RunInv, ClosedOK, IsKept
  <2> QED
    BY <1>1, <2>1, <2>2 DEF RunInv, ClosedOK
<1>10. Healthy'
  BY <1>1, <1>4, <1>5 DEF Healthy
<1> QED
  BY <1>2, <1>6, <1>7, <1>8, <1>9, <1>10 DEF RunInv

-----------------------------------------------------------------------------
LEMMA RunInvInit == RouterInit => RunInv /\ Healthy
<1> SUFFICES ASSUME RouterInit PROVE RunInv /\ Healthy
  OBVIOUS
<1>1. /\ task = NoRows /\ consensus = NoRows /\ dispatch = NoRows /\ run = NoRows /\ turn = NoRows
      /\ closed = {} /\ LedgerInv
  BY LedgerInvInit DEF RouterInit, Init
<1> QED
  BY <1>1 DEF NoRows, RunInv, RunsOK, TurnsOK, GateOK, ClosedOK, DisputesOK, Healthy

\* The actions of a run, named; all else is Outside.
LEMMA RouterSteps ==
  ASSUME RunInv, RouterNext
  PROVE  \/ \E g : Launch(g) \/ Begin(g) \/ Return(g)
         \/ \E d \in DOMAIN turn :
              \/ ReserveNext(d) \/ Refused(d) \/ Fail(d) \/ Seal(d) \/ Close(d) \/ CloseRefused(d)
              \/ \E body \in Bodies, decision \in Decisions \cup {None}, handOff \in BOOLEAN :
                   \/ Answer(d, body, decision, handOff)
                   \/ AnswerUndelivered(d, body, decision, handOff)
         \/ Outside
BY DEF RouterNext, Step, Turn, TurnsOf

LEMMA RunInvStep == RunInv /\ [RouterNext]_allVars => RunInv'
<1> SUFFICES ASSUME RunInv, [RouterNext]_allVars PROVE RunInv'
  OBVIOUS
<1>1. ASSUME NEW g, Launch(g) \/ Begin(g) \/ Return(g)
      PROVE  RunInv'
  BY <1>1, LaunchKeeps, BeginKeeps, ReturnKeeps
<1>2. ASSUME NEW d \in DOMAIN turn, Refused(d) \/ Fail(d) \/ CloseRefused(d)
      PROVE  RunInv'
  <2>1. Settle(d, TRUE) /\ UNCHANGED <<vars, archived, closed>>
    BY <1>2 DEF Refused, Fail, CloseRefused
  <2> QED
    BY <2>1, SettleKeeps
<1>3. ASSUME NEW d \in DOMAIN turn, ReserveNext(d) \/ Seal(d) \/ Close(d)
      PROVE  RunInv'
  BY <1>3, ReserveNextKeeps, SealKeeps, CloseKeeps
<1>4. ASSUME NEW d \in DOMAIN turn, NEW body \in Bodies, NEW decision \in Decisions \cup {None},
             NEW handOff \in BOOLEAN,
             Answer(d, body, decision, handOff) \/ AnswerUndelivered(d, body, decision, handOff)
      PROVE  RunInv'
  BY <1>4, AnswerKeeps
<1>5. CASE Outside
  BY <1>5, OutsideKeeps
<1>6. CASE UNCHANGED allVars
  <2>1. UNCHANGED <<generation, open, previous, task, consensus, dispatch, run, turn, archived, closed>>
    BY <1>6 DEF allVars, vars, sessionVars, routerVars
  <2>2. LedgerInv' /\ DisputesOK' /\ RunsOK' /\ TurnsOK'
    BY <2>1 DEF RunInv, LedgerInv, SessionInv, TaskInv, DispatchInv, ConcludedInv, DisputesOK,
                RunsOK, TurnsOK, Running
  <2>3. \A g : Confirmed(g)' = Confirmed(g)
    BY <2>1 DEF Confirmed, Pending
  <2>4. GateOK' /\ ClosedOK'
    BY <2>1, <2>3 DEF RunInv, GateOK, ClosedOK, IsKept
  <2> QED
    BY <2>2, <2>4 DEF RunInv
<1> QED
  BY <1>1, <1>2, <1>3, <1>4, <1>5, <1>6, RouterSteps

\* Tasks, their generations and their reservations are only ever added.
LEMMA OnlyGrows ==
  ASSUME RunInv, [RouterNext]_allVars
  PROVE  /\ DOMAIN consensus \subseteq DOMAIN consensus' /\ DOMAIN dispatch \subseteq DOMAIN dispatch'
         /\ \A g \in DOMAIN task : task'[g] = task[g]
<1>1. ASSUME NEW g, Launch(g)
      PROVE  /\ DOMAIN consensus \subseteq DOMAIN consensus' /\ DOMAIN dispatch \subseteq DOMAIN dispatch'
             /\ \A h \in DOMAIN task : task'[h] = task[h]
  <2>1. dispatch' = dispatch /\ \A h \in DOMAIN task : task'[h] = task[h]
    BY <1>1, LaunchFields
  <2>2. DOMAIN consensus \subseteq DOMAIN consensus'
    BY <1>1 DEF Launch, Initialize, CarryOver, Put, vars
  <2> QED
    BY <2>1, <2>2
<1>2. ASSUME NEW d \in DOMAIN turn, NEW body \in Bodies, NEW decision \in Decisions \cup {None},
             NEW handOff \in BOOLEAN,
             Answer(d, body, decision, handOff) \/ AnswerUndelivered(d, body, decision, handOff)
      PROVE  /\ DOMAIN consensus' = DOMAIN consensus /\ DOMAIN dispatch' = DOMAIN dispatch
             /\ task' = task
  BY <1>2, AnswerFields DEF Answer, AnswerUndelivered, MaySay
<1>3. ASSUME NEW d \in DOMAIN turn, ReserveNext(d)
      PROVE  consensus' = consensus /\ DOMAIN dispatch \subseteq DOMAIN dispatch' /\ task' = task
  BY <1>3, ReserveNextFields
<1>4. ASSUME NEW d, Refused(d) \/ Fail(d) \/ Seal(d) \/ Close(d) \/ CloseRefused(d)
      PROVE  consensus' = consensus /\ dispatch' = dispatch /\ task' = task
  BY <1>4 DEF Refused, Fail, Seal, Close, CloseRefused, FenceSession, vars
<1>5. ASSUME NEW g, Begin(g) \/ Return(g)
      PROVE  consensus' = consensus /\ dispatch' = dispatch /\ task' = task
  BY <1>5 DEF Begin, Return, vars
<1>6. CASE Outside
  <2>1. generation + 1 \notin DOMAIN task
    BY DEF RunInv, LedgerInv, TaskInv, SessionInv
  <2> QED
    BY <1>6, <2>1 DEF Outside, OpenSession, FenceSession, Revise, Put
<1>7. CASE UNCHANGED allVars
  BY <1>7 DEF allVars, vars
<1> QED
  BY <1>1, <1>2, <1>3, <1>4, <1>5, <1>6, <1>7, RouterSteps

\* So a budget that is left was left before.
LEMMA BudgetShrinks ==
  ASSUME RunInv, [RouterNext]_allVars, BudgetLeft'
  PROVE  BudgetLeft
<1> SUFFICES ASSUME NEW t \in DOMAIN consensus
             PROVE  Cardinality(Reserved(t)) < DispatchBudget
  BY DEF BudgetLeft
<1>1. IsFiniteSet(DOMAIN dispatch')
  BY RunInvStep DEF RunInv, LedgerInv, DispatchInv
<1>2. Reserved(t)' \subseteq DOMAIN dispatch' /\ Reserved(t) \subseteq Reserved(t)'
  BY OnlyGrows DEF Reserved, RunInv, LedgerInv, DispatchInv
<1>3. IsFiniteSet(Reserved(t)')
  BY <1>1, <1>2, FS_Subset
<1>4. /\ IsFiniteSet(Reserved(t)) /\ Cardinality(Reserved(t)) <= Cardinality(Reserved(t)')
      /\ Cardinality(Reserved(t)) \in Nat /\ Cardinality(Reserved(t)') \in Nat
  BY <1>2, <1>3, FS_Subset, FS_CardinalityType
<1>5. t \in DOMAIN consensus'
  BY OnlyGrows
<1>6. Cardinality(Reserved(t)') < DispatchBudget
  BY <1>5 DEF BudgetLeft
<1> QED
  BY <1>4, <1>6, BoundAssumption

LEMMA HealthyStep ==
  RunInv /\ Healthy /\ BudgetLeft /\ [RouterNext]_allVars => Healthy'
<1> SUFFICES ASSUME RunInv, Healthy, BudgetLeft, [RouterNext]_allVars PROVE Healthy'
  OBVIOUS
<1>1. ASSUME NEW g, Launch(g) \/ Begin(g) \/ Return(g)
      PROVE  Healthy'
  BY <1>1, LaunchHealthy, BeginHealthy, ReturnKeeps
<1>2. ASSUME NEW d \in DOMAIN turn,
             \/ ReserveNext(d) \/ Refused(d) \/ Fail(d) \/ Seal(d) \/ Close(d) \/ CloseRefused(d)
      PROVE  Healthy'
  BY <1>2, ReserveNextHealthy, SettleHealthy, SealKeeps, CloseKeeps
<1>3. ASSUME NEW d \in DOMAIN turn, NEW body \in Bodies, NEW decision \in Decisions \cup {None},
             NEW handOff \in BOOLEAN, Answer(d, body, decision, handOff)
      PROVE  Healthy'
  BY <1>3, AnswerHealthy
<1>4. ASSUME NEW d \in DOMAIN turn, NEW body \in Bodies, NEW decision \in Decisions \cup {None},
             NEW handOff \in BOOLEAN, AnswerUndelivered(d, body, decision, handOff)
      PROVE  Healthy'
  <2>1. d[1] = open /\ open' = open
    BY <1>4, AnswerFields DEF AnswerUndelivered, MaySay
  <2>2. open' \in faulted'
    BY <1>4, <2>1, OneRun DEF AnswerUndelivered, Fault
  <2> QED
    BY <2>2 DEF Healthy
<1>5. CASE Outside
  BY <1>5, OutsideKeeps
<1>6. CASE UNCHANGED allVars
  <2>1. UNCHANGED <<open, task, consensus, dispatch, run, turn, faulted>>
    BY <1>6 DEF allVars, vars, sessionVars, routerVars
  <2>2. \A g : InOrder(g) => InOrder(g)'
    BY <2>1 DEF InOrder, TurnsOf, IsHeld
  <2>3. \A g : AtTheGate(g) => AtTheGate(g)'
    BY <2>1 DEF AtTheGate, TurnsOf
  <2> QED
    BY <2>1, <2>2, <2>3 DEF Healthy
<1> QED
  BY <1>1, <1>2, <1>3, <1>4, <1>5, <1>6, RouterSteps

LEMMA RunInvHolds == RouterSpec => []RunInv
BY RunInvInit, RunInvStep, PTL DEF RouterSpec

\* What a run returns is true: an outcome is published in the state, and its session closed
\* behind an archive of every message of the generation, whatever is left of the budget; and,
\* while no task has spent its budget, a run that fails has a cause outside (run, confirmTurn,
\* closeAndReturn, handOff).
THEOREM ResultsAreTrue ==
  RouterSpec => [](/\ \A g \in DOMAIN run : Returned(g) /\ run[g].result # "failed" => IsKept(g)
                   /\ BudgetLeft => ResultIsTrue)
<1>1. RouterInit => (BudgetLeft => Healthy)
  BY RunInvInit
<1>2. RunInv /\ (BudgetLeft => Healthy) /\ [RouterNext]_allVars => (BudgetLeft => Healthy)'
  BY BudgetShrinks, HealthyStep
<1>3. RunInv => \A g \in DOMAIN run : Returned(g) /\ run[g].result # "failed" => IsKept(g)
  BY DEF RunInv, RunsOK, RunRecord, ClosedOK, Returned
<1>4. RunInv /\ Healthy => ResultIsTrue
  <2> SUFFICES ASSUME RunInv, Healthy, NEW g \in DOMAIN run, Returned(g), run[g].result = "failed"
               PROVE  HasCause(g)
    BY <1>3 DEF ResultIsTrue
  <2>1. g \in faulted \/ open # g
    BY DEF Healthy, Returned
  <2>2. g \notin closed
    BY DEF RunInv, ClosedOK, Outcomes
  <2> QED
    BY <2>1, <2>2 DEF HasCause
<1> QED
  BY <1>1, <1>2, <1>3, <1>4, RunInvHolds, PTL DEF RouterSpec
=============================================================================
