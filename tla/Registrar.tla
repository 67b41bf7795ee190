------------------------------ MODULE Registrar ------------------------------
(***************************************************************************)
(* The Registrar (src/session/registrar-do.ts): the durable authority for  *)
(* consultation sessions, their generations and their transcripts.         *)
(*                                                                         *)
(* Every public operation runs in one storage transaction that locks the   *)
(* namespace's rows, so each is one action here.  A refused call and a     *)
(* replayed one (the same session id, event id or revision id again) write *)
(* nothing; they are stuttering steps and have no action of their own.     *)
(*                                                                         *)
(* Abstracted: timestamps, formatted text and the hash of a message (a     *)
(* retry with another hash is refused and writes nothing); the delivery    *)
(* row, written with every message and read by tests only; a message's     *)
(* role and authority, kept only as the critic whose critique it is, if    *)
(* any; the settings snapshot, kept only as the critic provider it names.  *)
(***************************************************************************)
EXTENDS Naturals, KeyValue

CONSTANTS
  SessionIds,      \* logical consultation identifiers
  Events,          \* internal event ids chosen by callers
  Revisions,       \* revision ids chosen by callers
  Tasks,           \* consensus task ids
  Critics,         \* critic registrations: agent, role, provider, runtime session
  Providers,       \* critic providers a settings snapshot can name
  ProviderOf,      \* the provider of each critic registration
  None,            \* an absent value
  MaxGeneration,   \* bound on the generation counter
  MaxSequence      \* bound on the messages of one generation

ASSUME ProviderAssumption == ProviderOf \in [Critics -> Providers]
ASSUME NoneAssumption == None \notin Critics /\ None \notin 1..MaxGeneration
ASSUME BoundAssumption == MaxGeneration \in Nat /\ MaxSequence \in Nat

VARIABLES
  generation,      \* the counter row: the last generation number given out
  active,          \* the active-session row: a copy of the latest session, or None
  session,         \* session rows, by generation
  control,         \* private control sequences: next sequence number, by generation
  message,         \* message rows, by <<generation, sequence>>
  event,           \* event ledger rows, by event id
  revision,        \* revision rows, by revision id
  critic,          \* designated critic rows, by generation
  review,          \* critic review receipts, by generation
  task             \* consensus task bound to a generation, by generation

vars == <<generation, active, session, control, message, event, revision,
          critic, review, task>>

transcriptVars == <<control, message, event>>
criticVars == <<critic, review>>

Phases == {"active", "stopped", "closed"}

\* The event id stopSession gives the notice it publishes.
StopEvent(g) == <<"control-stop-event", g>>
ASSUME StopEventAssumption == \A g \in 1..MaxGeneration : StopEvent(g) \notin Events

-----------------------------------------------------------------------------
Init ==
  /\ generation = 0
  /\ active = None
  /\ session = NoRows
  /\ control = NoRows
  /\ message = NoRows
  /\ event = NoRows
  /\ revision = NoRows
  /\ critic = NoRows
  /\ review = NoRows
  /\ task = NoRows

\* Mutants: a check that forgets the phase, or the generation.
IsCurrent_AnyPhase(g, phases) == active # None /\ active.generation = g
IsCurrent_AnyGeneration(g, phases) == active # None /\ active.phase \in phases

\* The check shared by every operation addressed to a generation: it must be
\* the one of the active-session row, and in the given phases.
IsCurrent(g, phases) ==
  /\ active # None
  /\ active.generation = g
  /\ active.phase \in phases

\* Mutant: sequence numbers start at zero.
NewSession_FromZero(g, id, provider, previous) ==
  [generation |-> g, sessionId |-> id, phase |-> "active", stopped |-> FALSE,
   previous |-> previous, provider |-> provider, nextSequence |-> 0]

\* A session as createSession and reviseSession first write it.  previous is 0
\* for a session that revises none; stopped remembers that stoppedAt was set.
NewSession(g, id, provider, previous) ==
  [generation |-> g, sessionId |-> id, phase |-> "active", stopped |-> FALSE,
   previous |-> previous, provider |-> provider, nextSequence |-> 1]

\* Install a session under the next generation number, over the given rows.
Create(rows, id, provider, previous) ==
  LET next == NewSession(generation + 1, id, provider, previous)
  IN  /\ generation < MaxGeneration
      /\ generation' = generation + 1
      /\ active' = next
      /\ session' = Put(rows, generation + 1, next)

\* Write a changed copy of the active session to both of its rows.
WriteActive(updated) ==
  /\ active' = updated
  /\ session' = Put(session, updated.generation, updated)

\* Mutant: closing forgets an earlier stop.
Closed_ForgetsStop(s) == [s EXCEPT !.phase = "closed", !.stopped = FALSE]

Closed(s) == [s EXCEPT !.phase = "closed"]

-----------------------------------------------------------------------------
StartSession(id, provider) ==
  /\ ~(active # None /\ active.phase = "active")
  /\ Create(session, id, provider, 0)
  /\ UNCHANGED <<transcriptVars, revision, criticVars, task>>

\* Mutant: the replaced session is not fenced.
StartNewTask_KeepsOld(id, provider) ==
  /\ active # None => active.sessionId # id
  /\ Create(session, id, provider, 0)
  /\ UNCHANGED <<transcriptVars, revision, criticVars, task>>

StartNewTask(id, provider) ==
  /\ active # None => active.sessionId # id
  /\ Create(IF active = None THEN session
            ELSE Put(session, active.generation, Closed(active)), id, provider, 0)
  /\ UNCHANGED <<transcriptVars, revision, criticVars, task>>

\* Append the message of event e to generation g, under sequence number n.
WriteMessage(g, n, e, kind, author) ==
  LET m == [generation |-> g, sequence |-> n, event |-> e, author |-> author]
  IN  /\ n <= MaxSequence
      /\ message' = Put(message, <<g, n>>, m)
      /\ event' = Put(event, e, [kind |-> kind, message |-> m])

\* Mutant: a retried event is appended again.
AppendMessage_Twice(g, e, author) ==
  /\ IsCurrent(g, {"active"})
  /\ WriteMessage(g, active.nextSequence, e, "message", author)
  /\ WriteActive([active EXCEPT !.nextSequence = @ + 1])
  /\ UNCHANGED control

\* #appendConfirmedMessage: a new event of the current, active generation.
AppendMessage(g, e, author) ==
  /\ e \notin DOMAIN event
  /\ IsCurrent(g, {"active"})
  /\ WriteMessage(g, active.nextSequence, e, "message", author)
  /\ WriteActive([active EXCEPT !.nextSequence = @ + 1])
  /\ UNCHANGED control

\* A generation bound to a consensus task takes its messages only through the
\* consensus ledger.
AppendConfirmedMessage(g, e, author) ==
  /\ g \notin DOMAIN task
  /\ AppendMessage(g, e, author)
  /\ UNCHANGED <<generation, revision, criticVars, task>>

\* A turn of a bound generation is confirmed: the ledger's own checks and rows are
\* in module ConsensusLedger; here, the message it may let through.
ConfirmConsensusMessage(g, e, author) ==
  /\ g \in DOMAIN task
  /\ AppendMessage(g, e, author)
  /\ UNCHANGED <<generation, revision, criticVars, task>>

\* Mutant: the notice does not take a sequence number.
NoticeOfSession_KeepsNext(e) ==
  /\ active # None
  /\ WriteMessage(active.generation, active.nextSequence, e, "control", None)
  /\ UNCHANGED <<generation, active, session, control>>

\* An operational notice joins the transcript of the latest session, whatever
\* its phase.
NoticeOfSession(e) ==
  /\ active # None
  /\ WriteMessage(active.generation, active.nextSequence, e, "control", None)
  /\ WriteActive([active EXCEPT !.nextSequence = @ + 1])
  /\ UNCHANGED <<generation, control>>

\* Before the first session a private sequence reserves a generation of its own.
NoticeBeforeSessions(e) ==
  LET reserved == generation \in DOMAIN control
      g == IF reserved THEN generation ELSE generation + 1
      n == GetOr(control, generation, 1)
  IN  /\ active = None
      /\ g <= MaxGeneration
      /\ generation' = g
      /\ control' = Put(control, g, n + 1)
      /\ WriteMessage(g, n, e, "control", None)
      /\ UNCHANGED <<active, session>>

AppendControlNotice(e) ==
  /\ e \notin DOMAIN event
  /\ NoticeOfSession(e) \/ NoticeBeforeSessions(e)
  /\ UNCHANGED <<revision, criticVars, task>>

CloseSession(g) ==
  /\ IsCurrent(g, {"active"})
  /\ WriteActive(Closed(active))
  /\ UNCHANGED <<generation, transcriptVars, revision, criticVars, task>>

\* concluded: the consensus task bound to g has published an outcome, which the
\* operation re-reads in its own transaction.
ReviseSession(g, r, concluded) ==
  /\ r \notin DOMAIN revision
  /\ IsCurrent(g, {"active", "closed"})
  /\ ~concluded
  /\ Create(Put(session, g, Closed(active)), active.sessionId, active.provider, g)
  /\ task' = IF g \in DOMAIN task THEN Put(task, generation + 1, task[g]) ELSE task
  /\ revision' = Put(revision, r, [source |-> g, target |-> generation + 1])
  /\ UNCHANGED <<transcriptVars, criticVars>>

Stopped(s) == [s EXCEPT !.phase = "stopped", !.stopped = TRUE]

\* With a notice, Stop publishes its control message in the same transaction.
StopSession(g, publishControl) ==
  /\ IsCurrent(g, {"active"})
  /\ IF publishControl
     THEN /\ WriteMessage(g, active.nextSequence, StopEvent(g), "control", None)
          /\ WriteActive([Stopped(active) EXCEPT !.nextSequence = @ + 1])
     ELSE /\ WriteActive(Stopped(active))
          /\ UNCHANGED <<message, event>>
  /\ UNCHANGED <<generation, control, revision, criticVars, task>>

DesignateCritic(g, c) ==
  /\ IsCurrent(g, {"active"})
  /\ ProviderOf[c] = active.provider
  /\ g \notin DOMAIN critic
  /\ critic' = Put(critic, g, [critic |-> c, sessionId |-> active.sessionId])
  /\ UNCHANGED <<generation, active, session, transcriptVars, revision, review, task>>

\* Mutant: any message of the generation counts as the critique.
IsCritique_AnyAuthor(g, e, c) == e \in DOMAIN event /\ event[e].message.generation = g

\* Event e is a critique by c in generation g.
IsCritique(g, e, c) ==
  /\ e \in DOMAIN event
  /\ event[e].message.generation = g
  /\ event[e].message.author = c

RecordCriticReview(g, e, c) ==
  /\ IsCurrent(g, {"active"})
  /\ g \in DOMAIN critic
  /\ critic[g] = [critic |-> c, sessionId |-> active.sessionId]
  /\ g \notin DOMAIN review
  /\ IsCritique(g, e, c)
  /\ review' = Put(review, g, [critic |-> c, sessionId |-> active.sessionId, event |-> e,
                               sequence |-> event[e].message.sequence])
  /\ UNCHANGED <<generation, active, session, transcriptVars, revision, critic, task>>

\* What initializeConsensus writes to the Registrar's own rows the first time a
\* task is initialized, for the critic designated before; the ledger's state is
\* in module ConsensusLedger.
BindTask(g, t) ==
  /\ IsCurrent(g, {"active"})
  /\ g \in DOMAIN critic
  /\ g \notin DOMAIN task
  /\ task' = Put(task, g, t)
  /\ UNCHANGED <<generation, active, session, transcriptVars, revision, criticVars>>

-----------------------------------------------------------------------------
\* Callers may hold any generation number ever given out.
Known == 1..generation

Next ==
  \/ \E id \in SessionIds, p \in Providers : StartSession(id, p) \/ StartNewTask(id, p)
  \/ \E e \in Events : AppendControlNotice(e)
  \/ \E g \in Known :
       \/ \E e \in Events, a \in Critics \cup {None} :
            AppendConfirmedMessage(g, e, a) \/ ConfirmConsensusMessage(g, e, a)
       \/ CloseSession(g)
       \/ \E publishControl \in BOOLEAN : StopSession(g, publishControl)
       \/ \E r \in Revisions, concluded \in BOOLEAN : ReviseSession(g, r, concluded)
       \/ \E c \in Critics : DesignateCritic(g, c)
       \/ \E c \in Critics, e \in Events : RecordCriticReview(g, e, c)
       \/ \E t \in Tasks : BindTask(g, t)

Spec == Init /\ [][Next]_vars

-----------------------------------------------------------------------------
Generations == 1..MaxGeneration
Numbers == 1..MaxSequence
NextNumbers == 1..(MaxSequence + 1)
EventIds == Events \cup {StopEvent(g) : g \in Generations}

SessionRecord ==
  [generation : Generations, sessionId : SessionIds, phase : Phases, stopped : BOOLEAN,
   previous : 0..MaxGeneration, provider : Providers, nextSequence : NextNumbers]

\* The active-session row of a namespace without sessions is no session.
ASSUME NoSessionAssumption == None \notin SessionRecord

MessageRecord ==
  [generation : Generations, sequence : Numbers, event : EventIds,
   author : Critics \cup {None}]

\* The counter, the active-session row and the session rows.
SessionTypeOK ==
  /\ generation \in 0..MaxGeneration
  /\ active = None \/ active \in SessionRecord
  /\ DOMAIN session \subseteq Generations
  /\ \A g \in DOMAIN session : session[g] \in SessionRecord

\* The private sequences, the message rows and the event ledger.
TranscriptTypeOK ==
  /\ DOMAIN control \subseteq Generations
  /\ \A g \in DOMAIN control : control[g] \in NextNumbers
  /\ DOMAIN message \subseteq Generations \X Numbers
  /\ \A k \in DOMAIN message : message[k] \in MessageRecord
  /\ DOMAIN event \subseteq EventIds
  /\ \A e \in DOMAIN event :
       event[e] \in [kind : {"message", "control"}, message : MessageRecord]

\* The rows that relate generations to revisions, critics and tasks.
LinkTypeOK ==
  /\ DOMAIN revision \subseteq Revisions
  /\ \A r \in DOMAIN revision :
       revision[r] \in [source : Generations, target : Generations]
  /\ DOMAIN critic \subseteq Generations
  /\ \A g \in DOMAIN critic : critic[g] \in [critic : Critics, sessionId : SessionIds]
  /\ DOMAIN review \subseteq Generations
  /\ \A g \in DOMAIN review :
       review[g] \in [critic : Critics, sessionId : SessionIds,
                      event : EventIds, sequence : Numbers]
  /\ DOMAIN task \subseteq Generations
  /\ \A g \in DOMAIN task : task[g] \in Tasks

\* Every row holds a value of its declared type, under keys of its declared
\* form (the type declarations at registrar-do.ts:25-107).
TypeOK == SessionTypeOK /\ TranscriptTypeOK /\ LinkTypeOK

\* At most one generation accepts agent output, and it is the one the
\* active-session row names: starting, revising and replacing a session all
\* leave the rows of every earlier generation fenced.
OneActiveGeneration ==
  \A g \in DOMAIN session :
    session[g].phase = "active" => /\ active # None
                                   /\ active.generation = g

\* The next sequence number of generation g: of its session, or of the private
\* sequence reserved before any session existed.
NextSequence(g) == IF g \in DOMAIN session THEN session[g].nextSequence
                   ELSE GetOr(control, g, 1)

\* Stop is never undone: no later generation continues one that was stopped,
\* even after a new task has relabelled the stopped session closed.
StopNeverUndone ==
  \A h \in DOMAIN session :
    session[h].previous # 0 =>
      /\ session[h].previous \in DOMAIN session
      /\ ~session[session[h].previous].stopped
      /\ session[session[h].previous].phase = "closed"

\* Revisions form chains: a generation is continued at most once, by a later
\* one, with the same logical session and the same settings, and the revision
\* row that a retry reads names exactly that continuation.
RevisionLineage ==
  /\ \A h \in DOMAIN session :
       LET g == session[h].previous
       IN  g # 0 => /\ g < h
                    /\ session[g].sessionId = session[h].sessionId
                    /\ session[g].provider = session[h].provider
                    /\ \A i \in DOMAIN session \ {h} : session[i].previous # g
  /\ \A r \in DOMAIN revision :
       /\ revision[r].target \in DOMAIN session
       /\ session[revision[r].target].previous = revision[r].source

\* A recorded critic review stays provable from the rows getCriticReview reads:
\* the bound critic of the generation wrote that message, and the provider is
\* the one the session's own settings selected.
AuthenticReview ==
  \A g \in DOMAIN review :
    /\ g \in DOMAIN critic
    /\ critic[g] = [critic |-> review[g].critic, sessionId |-> session[g].sessionId]
    /\ ProviderOf[review[g].critic] = session[g].provider
    /\ review[g].event \in DOMAIN event
    /\ <<g, review[g].sequence>> \in DOMAIN message
    /\ message[<<g, review[g].sequence>>] = event[review[g].event].message
    /\ message[<<g, review[g].sequence>>].author = review[g].critic

\* The Registrar implements the transcript log: its message rows, read in
\* sequence, are logs without gaps or stray rows that only grow at the end, with
\* each event in one place; agents are heard by the active session alone; and each
\* operation is one step of that log or none.
Transcript(g) ==
  [n \in 1..(NextSequence(g) - 1) \cup {n \in Numbers : <<g, n>> \in DOMAIN message} |->
     LET e == message[<<g, n>>].event IN [event |-> e, kind |-> event[e].kind]]

Log == INSTANCE TranscriptLog WITH
  Nobody <- None,
  log <- [g \in Generations |-> Transcript(g)],
  latest <- generation,
  speaking <- IF active # None /\ active.phase = "active" THEN active.generation ELSE None

ImplementsTranscriptLog == Log!LogSpec

\* A fenced generation stays fenced: no operation reopens a stopped or closed
\* session row, and a stop is never forgotten.
FenceIsFinal ==
  [][\A g \in DOMAIN session :
       /\ g \in DOMAIN session'
       /\ session[g].phase # "active" => session'[g].phase # "active"
       /\ session[g].stopped => session'[g].stopped]_vars

=============================================================================
