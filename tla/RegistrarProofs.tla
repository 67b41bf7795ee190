--------------------------- MODULE RegistrarProofs ---------------------------
(***************************************************************************)
(* Proofs about the Registrar, for every set of sessions, events, revisions*)
(* and critics and every bound on generations and messages, and, in the    *)
(* second and third parts, about its callers: the consultation service and *)
(* the three-phase consilium.                                              *)
(***************************************************************************)
EXTENDS Consultation, PhasedConsilium, SequenceTheorems, TLAPS

USE DEF Generations, Numbers, NextNumbers, Phases

-----------------------------------------------------------------------------
\* Installing a session keeps the session rows well typed.
LEMMA CreateType ==
  ASSUME SessionTypeOK,
         NEW rows, NEW id \in SessionIds, NEW p \in Providers,
         NEW previous \in 0..MaxGeneration,
         DOMAIN rows \subseteq Generations,
         \A g \in DOMAIN rows : rows[g] \in SessionRecord,
         Create(rows, id, p, previous)
  PROVE  SessionTypeOK'
<1> DEFINE next == NewSession(generation + 1, id, p, previous)
<1>1. /\ generation' = generation + 1
      /\ generation' \in Generations
      /\ active' = next
      /\ session' = Put(rows, generation + 1, next)
  BY BoundAssumption DEF Create, SessionTypeOK
<1>2. next \in SessionRecord
  BY <1>1, BoundAssumption DEF NewSession, SessionRecord
<1> HIDE DEF next
<1>3. /\ DOMAIN session' = DOMAIN rows \cup {generation + 1}
      /\ session'[generation + 1] = next
      /\ \A g \in DOMAIN rows : g # generation + 1 => session'[g] = rows[g]
  BY <1>1 DEF Put
<1> QED
  BY <1>1, <1>2, <1>3 DEF SessionTypeOK

\* Rewriting the active session keeps the session rows well typed.
LEMMA WriteActiveType ==
  ASSUME SessionTypeOK, NEW updated \in SessionRecord, WriteActive(updated),
         generation' = generation
  PROVE  SessionTypeOK'
<1>1. updated.generation \in Generations
  BY DEF SessionRecord
<1>2. /\ active' = updated
      /\ DOMAIN session' = DOMAIN session \cup {updated.generation}
      /\ session'[updated.generation] = updated
      /\ \A g \in DOMAIN session : g # updated.generation => session'[g] = session[g]
  BY DEF WriteActive, Put
<1> QED
  BY <1>1, <1>2 DEF SessionTypeOK

\* Closing the active session, before it is replaced, keeps the rows well typed.
LEMMA ClosedType ==
  ASSUME NEW s \in SessionRecord, SessionTypeOK
  PROVE  /\ Closed(s) \in SessionRecord
         /\ DOMAIN Put(session, s.generation, Closed(s)) \subseteq Generations
         /\ \A g \in DOMAIN Put(session, s.generation, Closed(s)) :
              Put(session, s.generation, Closed(s))[g] \in SessionRecord
<1>1. Closed(s) \in SessionRecord /\ s.generation \in Generations
  BY DEF Closed, SessionRecord
<1> QED
  BY <1>1 DEF SessionTypeOK, Put

\* Appending a message keeps the transcript rows well typed.
LEMMA WriteMessageType ==
  ASSUME TranscriptTypeOK, control' = control,
         NEW g \in Generations, NEW n \in Nat \ {0}, NEW e \in EventIds,
         NEW kind \in {"message", "control"}, NEW author \in Critics \cup {None},
         WriteMessage(g, n, e, kind, author)
  PROVE  TranscriptTypeOK'
<1> DEFINE m == [generation |-> g, sequence |-> n, event |-> e, author |-> author]
           entry == [kind |-> kind, message |-> m]
<1>1. /\ n \in Numbers
      /\ message' = Put(message, <<g, n>>, m)
      /\ event' = Put(event, e, entry)
  BY BoundAssumption DEF WriteMessage
<1>2. m \in MessageRecord /\ entry \in [kind : {"message", "control"}, message : MessageRecord]
  BY <1>1 DEF MessageRecord
<1> HIDE DEF m, entry
<1>3. /\ DOMAIN message' \subseteq Generations \X Numbers
      /\ \A k \in DOMAIN message' : message'[k] \in MessageRecord
  BY <1>1, <1>2 DEF TranscriptTypeOK, Put
<1>4. /\ DOMAIN event' \subseteq EventIds
      /\ \A x \in DOMAIN event' :
           event'[x] \in [kind : {"message", "control"}, message : MessageRecord]
  BY <1>1, <1>2 DEF TranscriptTypeOK, Put
<1> QED
  BY <1>3, <1>4 DEF TranscriptTypeOK

\* The active session is a session record of a known generation, and its next
\* number is a positive integer.
LEMMA CurrentType ==
  ASSUME SessionTypeOK, active # None
  PROVE  /\ active \in SessionRecord
         /\ active.generation \in Generations
         /\ active.nextSequence \in Nat \ {0}
         /\ active.sessionId \in SessionIds
         /\ active.provider \in Providers
BY BoundAssumption DEF SessionTypeOK, SessionRecord

\* Taking a sequence number keeps the active session well typed.
LEMMA AdvanceType ==
  ASSUME NEW s \in SessionRecord, s.nextSequence <= MaxSequence
  PROVE  [s EXCEPT !.nextSequence = @ + 1] \in SessionRecord
BY BoundAssumption DEF SessionRecord

-----------------------------------------------------------------------------
\* The storage writes of every operation agree with the row types.
LEMMA TypeStep == TypeOK /\ [Next]_vars => TypeOK'
<1> SUFFICES ASSUME TypeOK, [Next]_vars
             PROVE  TypeOK'
  OBVIOUS
<1>0. SessionTypeOK /\ TranscriptTypeOK /\ LinkTypeOK
  BY DEF TypeOK
<1> USE <1>0
<1>1. ASSUME NEW id \in SessionIds, NEW p \in Providers, StartSession(id, p)
      PROVE  TypeOK'
  <2>1. SessionTypeOK'
    BY <1>1, BoundAssumption, CreateType DEF StartSession, SessionTypeOK
  <2> QED
    BY <1>1, <2>1 DEF StartSession, TypeOK, TranscriptTypeOK, LinkTypeOK,
                      transcriptVars, criticVars
<1>2. ASSUME NEW id \in SessionIds, NEW p \in Providers, StartNewTask(id, p)
      PROVE  TypeOK'
  <2> DEFINE rows == IF active = None THEN session
                     ELSE Put(session, active.generation, Closed(active))
  <2>1. /\ DOMAIN rows \subseteq Generations
        /\ \A g \in DOMAIN rows : rows[g] \in SessionRecord
    <3>1. CASE active = None
      BY <3>1 DEF SessionTypeOK
    <3>2. CASE active # None
      BY <3>2, ClosedType, CurrentType
    <3> QED  BY <3>1, <3>2
  <2>2. Create(rows, id, p, 0) /\ 0 \in 0..MaxGeneration
    BY <1>2, BoundAssumption DEF StartNewTask
  <2> HIDE DEF rows
  <2>3. SessionTypeOK'
    BY <2>1, <2>2, CreateType
  <2> QED
    BY <1>2, <2>3 DEF StartNewTask, TypeOK, TranscriptTypeOK, LinkTypeOK,
                      transcriptVars, criticVars
<1>3. ASSUME NEW g \in Known, NEW e \in Events, NEW a \in Critics \cup {None},
             AppendConfirmedMessage(g, e, a) \/ ConfirmConsensusMessage(g, e, a)
      PROVE  TypeOK'
  <2>1. /\ active # None
        /\ active.generation = g
        /\ WriteMessage(g, active.nextSequence, e, "message", a)
        /\ WriteActive([active EXCEPT !.nextSequence = @ + 1])
        /\ UNCHANGED <<control, generation, revision, critic, review, task>>
    BY <1>3 DEF AppendConfirmedMessage, ConfirmConsensusMessage, AppendMessage, IsCurrent,
                criticVars
  <2>2. SessionTypeOK'
    BY <2>1, CurrentType, AdvanceType, WriteActiveType DEF WriteMessage
  <2>3. TranscriptTypeOK'
    BY <2>1, CurrentType, WriteMessageType DEF EventIds
  <2> QED
    BY <2>1, <2>2, <2>3 DEF TypeOK, LinkTypeOK
<1>4. ASSUME NEW e \in Events, AppendControlNotice(e)
      PROVE  TypeOK'
  <2>1. CASE NoticeOfSession(e)
    <3>1. SessionTypeOK'
      BY <2>1, CurrentType, AdvanceType, WriteActiveType DEF NoticeOfSession, WriteMessage
    <3>2. TranscriptTypeOK'
      BY <2>1, CurrentType, WriteMessageType DEF EventIds, NoticeOfSession
    <3> QED
      BY <1>4, <3>1, <3>2 DEF AppendControlNotice, TypeOK, LinkTypeOK, criticVars
  <2>2. CASE NoticeBeforeSessions(e)
    <3> DEFINE g == IF generation \in DOMAIN control THEN generation ELSE generation + 1
               n == GetOr(control, generation, 1)
    <3>1. /\ g \in Generations
          /\ n \in Nat \ {0}
          /\ n <= MaxSequence
          /\ generation' = g
          /\ control' = Put(control, g, n + 1)
          /\ WriteMessage(g, n, e, "control", None)
          /\ UNCHANGED <<active, session>>
      BY <2>2, BoundAssumption
      DEF NoticeBeforeSessions, GetOr, TranscriptTypeOK, SessionTypeOK, WriteMessage
    <3> HIDE DEF g, n
    <3>2. SessionTypeOK'
      BY <3>1 DEF SessionTypeOK
    <3>3. /\ DOMAIN control' \subseteq Generations
          /\ \A h \in DOMAIN control' : control'[h] \in NextNumbers
      BY <3>1, BoundAssumption DEF TranscriptTypeOK, Put
    <3>4. TranscriptTypeOK'
      <4> DEFINE m == [generation |-> g, sequence |-> n, event |-> e, author |-> None]
                 entry == [kind |-> "control", message |-> m]
      <4>1. /\ message' = Put(message, <<g, n>>, m)
            /\ event' = Put(event, e, entry)
        BY <3>1 DEF WriteMessage
      <4>2. m \in MessageRecord /\ entry \in [kind : {"message", "control"}, message : MessageRecord]
            /\ <<g, n>> \in Generations \X Numbers /\ e \in EventIds
        BY <3>1, BoundAssumption DEF MessageRecord, EventIds
      <4> HIDE DEF m, entry
      <4> QED
        BY <3>3, <4>1, <4>2 DEF TranscriptTypeOK, Put
    <3> QED
      BY <1>4, <3>2, <3>4 DEF AppendControlNotice, TypeOK, LinkTypeOK, criticVars
  <2> QED  BY <1>4, <2>1, <2>2 DEF AppendControlNotice
<1>5. ASSUME NEW g \in Known, CloseSession(g)
      PROVE  TypeOK'
  <2>1. SessionTypeOK'
    BY <1>5, CurrentType, ClosedType, WriteActiveType DEF CloseSession, IsCurrent
  <2> QED
    BY <1>5, <2>1 DEF CloseSession, TypeOK, TranscriptTypeOK, LinkTypeOK,
                      transcriptVars, criticVars
<1>6. ASSUME NEW g \in Known, NEW publishControl \in BOOLEAN, StopSession(g, publishControl)
      PROVE  TypeOK'
  <2>1. /\ active # None
        /\ active.generation = g
        /\ generation' = generation
        /\ control' = control
    BY <1>6 DEF StopSession, IsCurrent
  <2>2. Stopped(active) \in SessionRecord /\ Stopped(active).nextSequence = active.nextSequence
    BY <2>1, CurrentType DEF Stopped, SessionRecord
  <2>3. CASE publishControl
    <3>1. /\ WriteMessage(g, active.nextSequence, StopEvent(g), "control", None)
          /\ WriteActive([Stopped(active) EXCEPT !.nextSequence = @ + 1])
      BY <1>6, <2>3 DEF StopSession
    <3>2. SessionTypeOK'
      BY <2>1, <2>2, <3>1, AdvanceType, WriteActiveType DEF WriteMessage
    <3>3. StopEvent(g) \in EventIds
      BY <2>1, CurrentType DEF EventIds
    <3>4. TranscriptTypeOK'
      BY <2>1, <3>1, <3>3, CurrentType, WriteMessageType
    <3> QED
      BY <1>6, <3>2, <3>4 DEF StopSession, TypeOK, LinkTypeOK, criticVars
  <2>4. CASE ~publishControl
    <3>1. SessionTypeOK'
      BY <1>6, <2>1, <2>2, <2>4, WriteActiveType DEF StopSession
    <3> QED
      BY <1>6, <2>4, <3>1 DEF StopSession, TypeOK, TranscriptTypeOK, LinkTypeOK, criticVars
  <2> QED  BY <2>3, <2>4
<1>7. ASSUME NEW g \in Known, NEW r \in Revisions, NEW concluded \in BOOLEAN,
             ReviseSession(g, r, concluded)
      PROVE  TypeOK'
  <2>1. /\ active # None
        /\ active.generation = g
        /\ g \in Generations
        /\ g \in 0..MaxGeneration
        /\ generation + 1 \in Generations
        /\ Create(Put(session, g, Closed(active)), active.sessionId, active.provider, g)
    BY <1>7, CurrentType, BoundAssumption DEF ReviseSession, IsCurrent, Create, SessionTypeOK
  <2>2. SessionTypeOK'
    BY <2>1, CurrentType, ClosedType, CreateType
  <2>3. LinkTypeOK'
    BY <1>7, <2>1 DEF ReviseSession, LinkTypeOK, Put, criticVars
  <2> QED
    BY <1>7, <2>2, <2>3 DEF ReviseSession, TypeOK, TranscriptTypeOK, transcriptVars
<1>8. ASSUME NEW g \in Known, NEW c \in Critics, DesignateCritic(g, c)
      PROVE  TypeOK'
  <2>1. g \in Generations /\ active.sessionId \in SessionIds
    BY <1>8, CurrentType DEF DesignateCritic, IsCurrent
  <2>2. LinkTypeOK'
    BY <1>8, <2>1 DEF DesignateCritic, LinkTypeOK, Put
  <2> QED
    BY <1>8, <2>2 DEF DesignateCritic, TypeOK, SessionTypeOK, TranscriptTypeOK, transcriptVars
<1>9. ASSUME NEW g \in Known, NEW c \in Critics, NEW e \in Events, RecordCriticReview(g, e, c)
      PROVE  TypeOK'
  <2>1. /\ g \in Generations
        /\ active.sessionId \in SessionIds
        /\ event[e].message.sequence \in Numbers
        /\ e \in EventIds
    BY <1>9, CurrentType
    DEF RecordCriticReview, IsCurrent, IsCritique, TranscriptTypeOK, MessageRecord, EventIds
  <2>2. LinkTypeOK'
    BY <1>9, <2>1 DEF RecordCriticReview, LinkTypeOK, Put
  <2> QED
    BY <1>9, <2>2 DEF RecordCriticReview, TypeOK, SessionTypeOK, TranscriptTypeOK, transcriptVars
<1>10. ASSUME NEW g \in Known, NEW t \in Tasks, BindTask(g, t)
       PROVE  TypeOK'
  <2>1. g \in Generations
    BY <1>10, CurrentType DEF BindTask, IsCurrent
  <2>2. LinkTypeOK'
    BY <1>10, <2>1 DEF BindTask, LinkTypeOK, Put, criticVars
  <2> QED
    BY <1>10, <2>2 DEF BindTask, TypeOK, SessionTypeOK, TranscriptTypeOK, transcriptVars
<1>11. CASE UNCHANGED vars
  BY <1>11 DEF vars, TypeOK, SessionTypeOK, TranscriptTypeOK, LinkTypeOK
<1> QED
  BY <1>1, <1>2, <1>3, <1>4, <1>5, <1>6, <1>7, <1>8, <1>9, <1>10, <1>11 DEF Next

\* The rows of the Registrar always have their declared types: the storage
\* writes of every operation, in every order, agree with the row types.
THEOREM TypeCorrect == Spec => []TypeOK
<1>1. Init => TypeOK
  BY BoundAssumption DEF Init, TypeOK, SessionTypeOK, TranscriptTypeOK, LinkTypeOK, NoRows
<1> QED
  BY <1>1, TypeStep, PTL DEF Spec

-----------------------------------------------------------------------------
(***************************************************************************)
(* What every operation does to the session rows: it leaves them alone, it *)
(* rewrites the active session, or it installs a new one.                  *)
(***************************************************************************)
Waits ==
  /\ UNCHANGED <<active, session, revision>>
  /\ generation' \in {generation, generation + 1}
  /\ generation' # generation => active = None

Rewrites(u) ==
  /\ active # None
  /\ u \in SessionRecord
  /\ WriteActive(u)
  /\ UNCHANGED <<generation, revision>>
  /\ \A field \in {"generation", "sessionId", "previous", "provider"} : u[field] = active[field]
  /\ \/ u.phase = active.phase /\ u.stopped = active.stopped
     \/ active.phase = "active" /\ u.phase = "closed" /\ u.stopped = active.stopped
     \/ active.phase = "active" /\ u.phase = "stopped" /\ u.stopped

Installs(rows, id, p, previous) ==
  /\ id \in SessionIds /\ p \in Providers
  /\ Create(rows, id, p, previous)
  /\ \/ /\ active = None \/ active.phase # "active"
        /\ rows = session /\ previous = 0
        /\ UNCHANGED revision
     \/ /\ active # None
        /\ rows = Put(session, active.generation, Closed(active))
        /\ previous = 0 /\ UNCHANGED revision
     \/ /\ active # None
        /\ rows = Put(session, active.generation, Closed(active))
        /\ previous = active.generation
        /\ active.phase \in {"active", "closed"}
        /\ id = active.sessionId /\ p = active.provider
        /\ \E r : revision' = Put(revision, r, [source |-> previous, target |-> generation + 1])

\* Starting, replacing and revising a session install one.
LEMMA OpeningSteps ==
  ASSUME TypeOK,
         \/ \E id \in SessionIds, p \in Providers : StartSession(id, p) \/ StartNewTask(id, p)
         \/ \E g \in Known, r \in Revisions, concluded \in BOOLEAN : ReviseSession(g, r, concluded)
  PROVE  \E rows, id, p, previous : Installs(rows, id, p, previous)
<1>1. ASSUME NEW id \in SessionIds, NEW p \in Providers, StartSession(id, p)
      PROVE  Installs(session, id, p, 0)
  <2>1. Create(session, id, p, 0)
    BY <1>1 DEF StartSession
  <2>2. active = None \/ active.phase # "active"
    BY <1>1 DEF StartSession
  <2>3. UNCHANGED revision
    BY <1>1 DEF StartSession
  <2> QED
    BY <2>1, <2>2, <2>3 DEF Installs
<1>2. ASSUME NEW id \in SessionIds, NEW p \in Providers, StartNewTask(id, p)
      PROVE  \E rows : Installs(rows, id, p, 0)
  <2> DEFINE rows == IF active = None THEN session
                     ELSE Put(session, active.generation, Closed(active))
  <2>1. Create(rows, id, p, 0) /\ UNCHANGED revision
    BY <1>2 DEF StartNewTask
  <2>2. Installs(rows, id, p, 0)
    <3>1. CASE active = None
      BY <2>1, <3>1 DEF Installs
    <3>2. CASE active # None
      BY <2>1, <3>2 DEF Installs
    <3> QED  BY <3>1, <3>2
  <2> QED  BY <2>2
<1>3. ASSUME NEW g \in Known, NEW r \in Revisions, NEW concluded \in BOOLEAN,
             ReviseSession(g, r, concluded)
      PROVE  \E rows, id, p, previous : Installs(rows, id, p, previous)
  <2> DEFINE rows == Put(session, active.generation, Closed(active))
  <2>1. /\ active # None
        /\ active.generation = g
        /\ active.phase \in {"active", "closed"}
        /\ Create(rows, active.sessionId, active.provider, g)
        /\ revision' = Put(revision, r, [source |-> g, target |-> generation + 1])
    BY <1>3 DEF ReviseSession, IsCurrent
  <2>2. active.sessionId \in SessionIds /\ active.provider \in Providers
    BY <2>1, CurrentType DEF TypeOK
  <2>3. Installs(rows, active.sessionId, active.provider, g)
    BY <2>1, <2>2 DEF Installs
  <2> QED  BY <2>3
<1> QED
  BY <1>1, <1>2, <1>3

\* Every operation is a step of one of these kinds.
LEMMA StepKinds ==
  ASSUME TypeOK, [Next]_vars
  PROVE  \/ Waits
         \/ \E u : Rewrites(u)
         \/ \E rows, id, p, previous : Installs(rows, id, p, previous)
<1>0. SessionTypeOK
  BY DEF TypeOK
<1>1. ASSUME \/ \E id \in SessionIds, p \in Providers : StartSession(id, p) \/ StartNewTask(id, p)
             \/ \E g \in Known, r \in Revisions, concluded \in BOOLEAN :
                  ReviseSession(g, r, concluded)
      PROVE  \E rows, id, p, previous : Installs(rows, id, p, previous)
  BY <1>1, OpeningSteps
<1>2. ASSUME NEW g, NEW e, NEW a,
             AppendConfirmedMessage(g, e, a) \/ ConfirmConsensusMessage(g, e, a)
      PROVE  \E u : Rewrites(u)
  <2> DEFINE u == [active EXCEPT !.nextSequence = @ + 1]
  <2>1. /\ active # None
        /\ active.nextSequence <= MaxSequence
        /\ WriteActive(u)
        /\ UNCHANGED <<generation, revision>>
    BY <1>2 DEF AppendConfirmedMessage, ConfirmConsensusMessage, AppendMessage, IsCurrent,
                WriteMessage
  <2>2. u \in SessionRecord /\ active \in SessionRecord
    BY <1>0, <2>1, CurrentType, AdvanceType
  <2>3. Rewrites(u)
    BY <2>1, <2>2 DEF Rewrites, SessionRecord
  <2> QED  BY <2>3
<1>3. ASSUME NEW e, AppendControlNotice(e)
      PROVE  Waits \/ \E u : Rewrites(u)
  <2>1. CASE NoticeOfSession(e)
    <3> DEFINE u == [active EXCEPT !.nextSequence = @ + 1]
    <3>1. /\ active # None
          /\ active.nextSequence <= MaxSequence
          /\ WriteActive(u)
          /\ UNCHANGED <<generation, revision>>
      BY <1>3, <2>1 DEF AppendControlNotice, NoticeOfSession, WriteMessage
    <3>2. u \in SessionRecord /\ active \in SessionRecord
      BY <1>0, <3>1, CurrentType, AdvanceType
    <3>3. Rewrites(u)
      BY <3>1, <3>2 DEF Rewrites, SessionRecord
    <3> QED  BY <3>3
  <2>2. CASE NoticeBeforeSessions(e)
    BY <1>3, <2>2 DEF AppendControlNotice, NoticeBeforeSessions, Waits
  <2> QED  BY <1>3, <2>1, <2>2 DEF AppendControlNotice
<1>4. ASSUME NEW g, CloseSession(g)
      PROVE  \E u : Rewrites(u)
  <2>1. /\ active # None
        /\ active.phase = "active"
        /\ WriteActive(Closed(active))
        /\ UNCHANGED <<generation, revision>>
    BY <1>4 DEF CloseSession, IsCurrent
  <2>2. Closed(active) \in SessionRecord /\ active \in SessionRecord
    BY <1>0, <2>1, CurrentType, ClosedType
  <2>3. Rewrites(Closed(active))
    BY <2>1, <2>2 DEF Rewrites, Closed, SessionRecord
  <2> QED  BY <2>3
<1>5. ASSUME NEW g, NEW publishControl \in BOOLEAN, StopSession(g, publishControl)
      PROVE  \E u : Rewrites(u)
  <2>1. /\ active # None
        /\ active.phase = "active"
        /\ UNCHANGED <<generation, revision>>
    BY <1>5 DEF StopSession, IsCurrent
  <2>2. /\ active \in SessionRecord
        /\ Stopped(active) \in SessionRecord
        /\ Stopped(active).nextSequence = active.nextSequence
    BY <1>0, <2>1, CurrentType DEF Stopped, SessionRecord
  <2>3. CASE publishControl
    <3> DEFINE u == [Stopped(active) EXCEPT !.nextSequence = @ + 1]
    <3>1. WriteActive(u) /\ active.nextSequence <= MaxSequence
      BY <1>5, <2>3 DEF StopSession, WriteMessage
    <3>2. u \in SessionRecord
      BY <2>2, <3>1, AdvanceType
    <3>3. Rewrites(u)
      BY <2>1, <2>2, <3>1, <3>2 DEF Rewrites, Stopped, SessionRecord
    <3> QED  BY <3>3
  <2>4. CASE ~publishControl
    <3>1. WriteActive(Stopped(active))
      BY <1>5, <2>4 DEF StopSession
    <3>2. Rewrites(Stopped(active))
      BY <2>1, <2>2, <3>1 DEF Rewrites, Stopped, SessionRecord
    <3> QED  BY <3>2
  <2> QED  BY <2>3, <2>4
<1>6. ASSUME NEW g, NEW c, DesignateCritic(g, c)
      PROVE  Waits
  BY <1>6 DEF DesignateCritic, Waits
<1>7. ASSUME NEW g, NEW e, NEW c, RecordCriticReview(g, e, c)
      PROVE  Waits
  BY <1>7 DEF RecordCriticReview, Waits
<1>8. ASSUME NEW g, NEW t, BindTask(g, t)
       PROVE  Waits
  BY <1>8 DEF BindTask, Waits
<1>9. CASE UNCHANGED vars
  BY <1>9 DEF vars, Waits
<1> QED
  BY <1>1, <1>2, <1>3, <1>4, <1>5, <1>6, <1>7, <1>8, <1>9 DEF Next

-----------------------------------------------------------------------------
(***************************************************************************)
(* The inductive invariant: the active-session row is a copy of the latest *)
(* session's row, every earlier session is fenced, and a stopped session   *)
(* that is still the latest is in no other phase than "stopped".  It is    *)
(* what makes a check of the active-session row alone (IsCurrent) a check  *)
(* of every generation.                                                    *)
(***************************************************************************)
LatestIsActive ==
  /\ active = None => DOMAIN session = {}
  /\ active # None =>
       /\ active.generation = generation
       /\ generation \in DOMAIN session
       /\ session[generation] = active
       /\ active.stopped => active.phase = "stopped"

EarlierAreFenced ==
  \A g \in DOMAIN session :
    /\ session[g].generation = g
    /\ g <= generation
    /\ g # generation => session[g].phase # "active"

SessionInv == TypeOK /\ LatestIsActive /\ EarlierAreFenced

\* A rewrite of the active session changes the row of the latest generation and
\* no other.
LEMMA RewriteRows ==
  ASSUME SessionInv, NEW u, Rewrites(u)
  PROVE  /\ active' = u /\ u # None /\ generation' = generation
         /\ generation \in DOMAIN session
         /\ u.generation = generation
         /\ DOMAIN session' = DOMAIN session
         /\ session'[generation] = u
         /\ \A g \in DOMAIN session : g # generation => session'[g] = session[g]
<1>1. /\ active # None
      /\ u \in SessionRecord
      /\ active' = u
      /\ session' = Put(session, u.generation, u)
      /\ generation' = generation
      /\ u["generation"] = active["generation"]
  BY DEF Rewrites, WriteActive
<1>2. u.generation = generation /\ generation \in DOMAIN session /\ u # None
  BY <1>1, NoSessionAssumption DEF SessionInv, LatestIsActive
<1>3. /\ DOMAIN session' = DOMAIN session \cup {generation}
      /\ session'[generation] = u
      /\ \A g \in DOMAIN session : g # generation => session'[g] = session[g]
  BY <1>1, <1>2 DEF Put
<1> QED
  BY <1>1, <1>2, <1>3

\* A new session gets a row of its own, and the row of the one it replaces is
\* closed, or not active already.
LEMMA InstallRows ==
  ASSUME SessionInv, NEW rows, NEW id, NEW p, NEW previous, Installs(rows, id, p, previous)
  PROVE  /\ generation \in Nat /\ generation' = generation + 1
         /\ active' = NewSession(generation + 1, id, p, previous)
         /\ active' # None
         /\ generation + 1 \notin DOMAIN session
         /\ DOMAIN session' = DOMAIN session \cup {generation + 1}
         /\ session'[generation + 1] = active'
         /\ \A g \in DOMAIN session : g # generation => session'[g] = session[g]
         /\ generation \in DOMAIN session =>
              session'[generation] \in {session[generation], Closed(session[generation])}
         /\ generation \in DOMAIN session => session'[generation].phase # "active"
         /\ previous # 0 =>
              /\ previous = generation /\ generation \in DOMAIN session
              /\ session'[generation] = Closed(session[generation])
              /\ session[generation] = active
              /\ active.phase \in {"active", "closed"}
              /\ id = active.sessionId /\ p = active.provider
<1> DEFINE next == NewSession(generation + 1, id, p, previous)
<1>0. SessionTypeOK
  BY DEF SessionInv, TypeOK
<1>1. /\ generation \in Nat
      /\ generation < MaxGeneration
      /\ generation' = generation + 1
      /\ active' = next
      /\ session' = Put(rows, generation + 1, next)
  BY <1>0, BoundAssumption DEF Installs, Create, SessionTypeOK
<1>2. generation + 1 \notin DOMAIN session
  BY <1>1 DEF SessionInv, EarlierAreFenced
<1>3. previous \in 0..MaxGeneration
  BY <1>0, CurrentType, BoundAssumption DEF Installs
<1>4. next # None
  <2>1. next \in SessionRecord
    BY <1>1, <1>3, BoundAssumption DEF Installs, NewSession, SessionRecord
  <2> QED  BY <2>1, NoSessionAssumption
<1>5. /\ DOMAIN rows = DOMAIN session
      /\ \A g \in DOMAIN session : g # generation => rows[g] = session[g]
      /\ generation \in DOMAIN session =>
           /\ rows[generation] \in {session[generation], Closed(session[generation])}
           /\ rows[generation].phase # "active"
      /\ previous # 0 =>
           /\ previous = generation /\ generation \in DOMAIN session
           /\ rows[generation] = Closed(session[generation])
           /\ session[generation] = active
           /\ active.phase \in {"active", "closed"}
           /\ id = active.sessionId /\ p = active.provider
  <2>1. CASE rows = session /\ previous = 0 /\ (active = None \/ active.phase # "active")
    BY <2>1 DEF SessionInv, LatestIsActive
  <2>2. CASE active # None /\ rows = Put(session, active.generation, Closed(active))
    <3>1. /\ active.generation = generation
          /\ generation \in DOMAIN session
          /\ session[generation] = active
      BY <2>2 DEF SessionInv, LatestIsActive
    <3>2. Closed(active).phase = "closed"
      BY <1>0, <2>2, CurrentType DEF Closed, SessionRecord
    <3>3. /\ DOMAIN rows = DOMAIN session
          /\ rows[generation] = Closed(active)
          /\ \A g \in DOMAIN session : g # generation => rows[g] = session[g]
      BY <2>2, <3>1 DEF Put
    <3>4. previous # 0 => /\ previous = generation
                          /\ active.phase \in {"active", "closed"}
                          /\ id = active.sessionId /\ p = active.provider
      BY <3>1 DEF Installs
    <3> QED
      BY <3>1, <3>2, <3>3, <3>4
  <2> QED
    BY <2>1, <2>2 DEF Installs
<1> HIDE DEF next
<1>6. /\ DOMAIN session' = DOMAIN rows \cup {generation + 1}
      /\ session'[generation + 1] = next
      /\ \A g \in DOMAIN rows : g # generation + 1 => session'[g] = rows[g]
  BY <1>1 DEF Put
<1>7. generation # generation + 1
  BY <1>1
<1> QED
  BY <1>1, <1>2, <1>4, <1>5, <1>6, <1>7 DEF next

\* The invariant holds of the empty namespace and is kept by every operation.
LEMMA SessionInvInit == Init => SessionInv
<1>1. Init => TypeOK
  BY BoundAssumption DEF Init, TypeOK, SessionTypeOK, TranscriptTypeOK, LinkTypeOK, NoRows
<1> QED
  BY <1>1 DEF Init, SessionInv, LatestIsActive, EarlierAreFenced, NoRows

\* Every step keeps the latest row active and the earlier ones fenced.
LEMMA SessionInvStep ==
  ASSUME SessionInv, TypeOK', [Next]_vars
  PROVE  SessionInv'
<1>0. TypeOK /\ SessionTypeOK
  BY DEF SessionInv, TypeOK
<1>1. CASE Waits
  <2>1. CASE active = None
    BY <1>1, <2>1 DEF Waits, SessionInv, LatestIsActive, EarlierAreFenced
  <2>2. CASE active # None
    BY <1>1, <2>2 DEF Waits, SessionInv, LatestIsActive, EarlierAreFenced
  <2> QED  BY <2>1, <2>2
<1>2. ASSUME NEW u, Rewrites(u)
      PROVE  SessionInv'
  <2>1. /\ active' = u /\ u # None /\ generation' = generation
        /\ generation \in DOMAIN session
        /\ u.generation = generation
        /\ DOMAIN session' = DOMAIN session
        /\ session'[generation] = u
        /\ \A g \in DOMAIN session : g # generation => session'[g] = session[g]
    BY <1>2, RewriteRows
  <2>2. u.stopped => u.phase = "stopped"
    BY <1>2 DEF Rewrites, SessionInv, LatestIsActive
  <2>3. LatestIsActive'
    BY <2>1, <2>2 DEF LatestIsActive
  <2>4. EarlierAreFenced'
    BY <2>1 DEF EarlierAreFenced, SessionInv
  <2> QED
    BY <2>3, <2>4 DEF SessionInv
<1>3. ASSUME NEW rows, NEW id, NEW p, NEW previous, Installs(rows, id, p, previous)
      PROVE  SessionInv'
  <2>a. generation \in Nat /\ generation' = generation + 1
    BY <1>3, InstallRows
  <2>b. active' = NewSession(generation + 1, id, p, previous) /\ active' # None
    BY <1>3, InstallRows
  <2>c. DOMAIN session' = DOMAIN session \cup {generation + 1}
    BY <1>3, InstallRows
  <2>d. session'[generation + 1] = active'
    BY <1>3, InstallRows
  <2>1. /\ generation \in Nat /\ generation' = generation + 1
        /\ active' = NewSession(generation + 1, id, p, previous)
        /\ active' # None
        /\ DOMAIN session' = DOMAIN session \cup {generation + 1}
        /\ session'[generation + 1] = active'
    BY <2>a, <2>b, <2>c, <2>d
  <2>2. LatestIsActive'
    BY <2>1 DEF LatestIsActive, NewSession
  <2>3. ASSUME NEW g \in DOMAIN session
        PROVE  /\ session'[g].generation = g
               /\ g <= generation
               /\ session'[g].phase # "active"
    <3>1. session[g].generation = g /\ g <= generation
      BY DEF SessionInv, EarlierAreFenced
    <3>2. CASE g = generation
      <4>1. /\ session'[g] \in {session[g], Closed(session[g])}
            /\ session'[g].phase # "active"
        BY <1>3, <3>2, InstallRows
      <4>2. session[g] \in SessionRecord
        BY <1>0 DEF SessionTypeOK
      <4> QED
        BY <3>1, <4>1, <4>2 DEF Closed, SessionRecord
    <3>3. CASE g # generation
      <4>1. session'[g] = session[g]
        BY <1>3, <3>3, InstallRows
      <4> QED
        BY <3>1, <3>3, <4>1 DEF SessionInv, EarlierAreFenced
    <3> QED  BY <3>2, <3>3
  <2>4. DOMAIN session \subseteq Nat
    BY <1>0, BoundAssumption DEF SessionTypeOK
  <2>5. EarlierAreFenced'
    <3> SUFFICES ASSUME NEW g \in DOMAIN session'
                 PROVE  /\ session'[g].generation = g
                        /\ g <= generation'
                        /\ g # generation' => session'[g].phase # "active"
      BY DEF EarlierAreFenced
    <3>1. CASE g \in DOMAIN session
      BY <2>1, <2>3, <2>4, <3>1
    <3>2. CASE g = generation + 1
      BY <2>1, <3>2 DEF NewSession
    <3> QED  BY <2>1, <3>1, <3>2
  <2> QED
    BY <2>2, <2>5 DEF SessionInv
<1> QED
  BY <1>0, <1>1, <1>2, <1>3, StepKinds

\* It therefore holds in every reachable state.
LEMMA SessionInvariant == Spec => []SessionInv
<1>1. SessionInv /\ TypeOK' /\ [Next]_vars => SessionInv'
  BY SessionInvStep
<1> QED
  BY <1>1, SessionInvInit, TypeCorrect, PTL DEF Spec

\* At most one generation accepts agent output, the one of the active-session
\* row: no order of starts, revisions and replacements leaves two of them.
THEOREM OneGeneration == Spec => []OneActiveGeneration
<1>1. SessionInv => OneActiveGeneration
  BY DEF SessionInv, LatestIsActive, EarlierAreFenced, OneActiveGeneration
<1> QED
  BY <1>1, SessionInvariant, PTL

\* No operation reopens a fenced session row or forgets its stop.
LEMMA FenceKept ==
  ASSUME SessionInv, [Next]_vars, NEW g \in DOMAIN session
  PROVE  /\ g \in DOMAIN session'
         /\ session[g].phase # "active" => session'[g].phase # "active"
         /\ session[g].stopped => session'[g].stopped
<1>0. TypeOK /\ SessionTypeOK /\ session[g] \in SessionRecord
  BY DEF SessionInv, TypeOK, SessionTypeOK
<1>1. CASE Waits
  BY <1>1 DEF Waits
<1>2. ASSUME NEW u, Rewrites(u)
      PROVE  /\ g \in DOMAIN session'
             /\ session[g].phase # "active" => session'[g].phase # "active"
             /\ session[g].stopped => session'[g].stopped
  <2>1. /\ DOMAIN session' = DOMAIN session
        /\ session'[generation] = u
        /\ g # generation => session'[g] = session[g]
    BY <1>2, RewriteRows
  <2>2. active # None /\ session[generation] = active
    BY <1>2 DEF Rewrites, SessionInv, LatestIsActive
  <2>3. /\ active.phase # "active" => u.phase # "active"
        /\ active.stopped => u.stopped
    BY <1>2 DEF Rewrites
  <2> QED  BY <2>1, <2>2, <2>3
<1>3. ASSUME NEW rows, NEW id, NEW p, NEW previous, Installs(rows, id, p, previous)
      PROVE  /\ g \in DOMAIN session'
             /\ session[g].phase # "active" => session'[g].phase # "active"
             /\ session[g].stopped => session'[g].stopped
  <2>1. /\ g \in DOMAIN session'
        /\ g # generation => session'[g] = session[g]
        /\ g = generation => session'[g] \in {session[g], Closed(session[g])}
    BY <1>3, InstallRows
  <2>2. /\ Closed(session[g]).phase = "closed"
        /\ Closed(session[g]).stopped = session[g].stopped
    BY <1>0 DEF Closed, SessionRecord
  <2> QED  BY <2>1, <2>2
<1> QED
  BY <1>0, <1>1, <1>2, <1>3, StepKinds

\* A stopped or closed session is never active again, and a stop is never
\* forgotten, whatever operation comes next.
THEOREM FenceStands == Spec => FenceIsFinal
<1>1. SessionInv /\ [Next]_vars =>
        [\A g \in DOMAIN session :
           /\ g \in DOMAIN session'
           /\ session[g].phase # "active" => session'[g].phase # "active"
           /\ session[g].stopped => session'[g].stopped]_vars
  BY FenceKept
<1> QED
  BY <1>1, SessionInvariant, PTL DEF Spec, FenceIsFinal

-----------------------------------------------------------------------------
(***************************************************************************)
(* Revisions.  A revised session keeps the row that its revision closed:   *)
(* only the row of the latest generation is ever rewritten, and a revised  *)
(* generation is not the latest any more.                                  *)
(***************************************************************************)
IsContinuation(h) ==
  LET g == session[h].previous
  IN  g # 0 => /\ g \in DOMAIN session
               /\ g < h
               /\ session[g].phase = "closed" /\ ~session[g].stopped
               /\ session[g].sessionId = session[h].sessionId
               /\ session[g].provider = session[h].provider

Lineage ==
  /\ \A h \in DOMAIN session : IsContinuation(h)
  /\ \A h, i \in DOMAIN session :
       session[h].previous # 0 /\ session[i].previous = session[h].previous => i = h
  /\ \A r \in DOMAIN revision :
       /\ revision[r].target \in DOMAIN session
       /\ session[revision[r].target].previous = revision[r].source

\* No operation removes a session row or relabels it, and only the row of the
\* latest generation is rewritten.
LEMMA RowsKept ==
  ASSUME SessionInv, [Next]_vars, NEW g \in DOMAIN session
  PROVE  /\ g \in DOMAIN session'
         /\ session'[g].previous = session[g].previous
         /\ session'[g].sessionId = session[g].sessionId
         /\ session'[g].provider = session[g].provider
         /\ g # generation => session'[g] = session[g]
<1>0. TypeOK /\ SessionTypeOK /\ session[g] \in SessionRecord
  BY DEF SessionInv, TypeOK, SessionTypeOK
<1> DEFINE Kept == /\ g \in DOMAIN session'
                   /\ session'[g].previous = session[g].previous
                   /\ session'[g].sessionId = session[g].sessionId
                   /\ session'[g].provider = session[g].provider
                   /\ g # generation => session'[g] = session[g]
<1>1. CASE Waits
  BY <1>1 DEF Waits
<1>2. ASSUME NEW u, Rewrites(u)
      PROVE  Kept
  <2>1. /\ DOMAIN session' = DOMAIN session
        /\ session'[generation] = u
        /\ g # generation => session'[g] = session[g]
    BY <1>2, RewriteRows
  <2>2. session[generation] = active
    BY <1>2 DEF Rewrites, SessionInv, LatestIsActive
  <2>3. /\ u["previous"] = active["previous"]
        /\ u["sessionId"] = active["sessionId"]
        /\ u["provider"] = active["provider"]
    BY <1>2 DEF Rewrites
  <2> QED  BY <2>1, <2>2, <2>3
<1>3. ASSUME NEW rows, NEW id, NEW p, NEW previous, Installs(rows, id, p, previous)
      PROVE  Kept
  <2>1. /\ g \in DOMAIN session'
        /\ g # generation => session'[g] = session[g]
        /\ g = generation => session'[g] \in {session[g], Closed(session[g])}
    BY <1>3, InstallRows
  <2>2. /\ Closed(session[g]).previous = session[g].previous
        /\ Closed(session[g]).sessionId = session[g].sessionId
        /\ Closed(session[g]).provider = session[g].provider
    BY <1>0 DEF Closed, SessionRecord
  <2> QED  BY <2>1, <2>2
<1> QED
  BY <1>0, <1>1, <1>2, <1>3, StepKinds

\* What was continued stays continued, by the same generation.
LEMMA ContinuesKept ==
  ASSUME SessionInv, [Next]_vars, NEW h \in DOMAIN session, IsContinuation(h)
  PROVE  IsContinuation(h)'
<1>1. h <= generation /\ generation \in Nat /\ h \in Nat
  BY BoundAssumption DEF SessionInv, EarlierAreFenced, TypeOK, SessionTypeOK
<1>2. CASE session[h].previous # 0
  <2> DEFINE g == session[h].previous
  <2>1. /\ g \in DOMAIN session
        /\ g < h
        /\ g \in Nat
    BY <1>2, BoundAssumption DEF IsContinuation, SessionInv, TypeOK, SessionTypeOK
  <2>2. g # generation
    BY <1>1, <2>1
  <2>3. session'[g] = session[g] /\ g \in DOMAIN session'
    BY <2>1, <2>2, RowsKept
  <2>4. /\ session'[h].previous = g
        /\ session'[h].sessionId = session[h].sessionId
        /\ session'[h].provider = session[h].provider
    BY RowsKept
  <2> QED
    BY <1>2, <2>1, <2>3, <2>4 DEF IsContinuation
<1>3. CASE session[h].previous = 0
  BY <1>3, RowsKept DEF IsContinuation
<1> QED
  BY <1>2, <1>3

\* Every step keeps the chain of generations whole.
LEMMA LineageStep ==
  ASSUME SessionInv, Lineage, [Next]_vars
  PROVE  Lineage'
<1>0. /\ generation \in Nat
      /\ \A h \in DOMAIN session : h \in Nat /\ h <= generation
      /\ DOMAIN session \subseteq DOMAIN session'
      /\ TypeOK
  BY BoundAssumption, RowsKept DEF SessionInv, EarlierAreFenced, TypeOK, SessionTypeOK
<1>1. \A h \in DOMAIN session : IsContinuation(h)'
  BY ContinuesKept DEF Lineage
<1>2. \A h, i \in DOMAIN session :
        session'[h].previous # 0 /\ session'[i].previous = session'[h].previous => i = h
  BY RowsKept DEF Lineage
<1>3. \A r \in DOMAIN revision :
        /\ revision[r].target \in DOMAIN session'
        /\ session'[revision[r].target].previous = revision[r].source
  BY RowsKept DEF Lineage
<1>4. CASE DOMAIN session' = DOMAIN session /\ revision' = revision
  BY <1>1, <1>2, <1>3, <1>4 DEF Lineage
<1>5. ASSUME NEW rows, NEW id, NEW p, NEW previous, Installs(rows, id, p, previous)
      PROVE  Lineage'
  <2>0. PICK next : next = generation + 1
    OBVIOUS
  <2>1. DOMAIN session' = DOMAIN session \cup {next} /\ next \notin DOMAIN session
    BY <1>5, <2>0, InstallRows
  <2>2. /\ session'[next].previous = previous
        /\ session'[next].sessionId = id
        /\ session'[next].provider = p
    <3>1. session'[next] = active' /\ active' = NewSession(next, id, p, previous)
      BY <1>5, <2>0, InstallRows
    <3> QED  BY <3>1 DEF NewSession
  <2>3. previous # 0 =>
          /\ previous = generation /\ generation \in DOMAIN session
          /\ session'[generation] = Closed(session[generation])
          /\ session[generation] = active
          /\ active.phase \in {"active", "closed"}
          /\ id = active.sessionId /\ p = active.provider
    BY <1>5, InstallRows
  <2>4. IsContinuation(next)'
    <3>1. CASE previous # 0
      <4>1. session[generation] \in SessionRecord
        BY <1>0, <2>3, <3>1 DEF TypeOK, SessionTypeOK
      <4>2. active # None /\ (active.stopped => active.phase = "stopped")
        BY <1>0, <2>3, <3>1 DEF SessionInv, LatestIsActive
      <4>3. /\ session'[generation].phase = "closed"
            /\ ~session'[generation].stopped
            /\ session'[generation].sessionId = id
            /\ session'[generation].provider = p
        BY <2>3, <3>1, <4>1, <4>2 DEF Closed, SessionRecord
      <4>4. generation \in DOMAIN session' /\ generation < next
        BY <1>0, <2>0, <2>3, <3>1
      <4> QED
        BY <2>2, <2>3, <3>1, <4>3, <4>4 DEF IsContinuation
    <3>2. CASE previous = 0
      BY <2>2, <3>2 DEF IsContinuation
    <3> QED  BY <3>1, <3>2
  <2>5. \A h \in DOMAIN session : session'[h].previous # 0 => session'[h].previous < generation
    <3> SUFFICES ASSUME NEW h \in DOMAIN session, session'[h].previous # 0
                 PROVE  session'[h].previous < generation
      OBVIOUS
    <3>1. session'[h].previous = session[h].previous
      BY RowsKept
    <3>2. session[h].previous < h /\ session[h].previous \in Nat
      BY <3>1, BoundAssumption DEF Lineage, IsContinuation, SessionInv, TypeOK, SessionTypeOK
    <3> QED  BY <1>0, <3>1, <3>2
  <2>6. \A h, i \in DOMAIN session' :
          session'[h].previous # 0 /\ session'[i].previous = session'[h].previous => i = h
    BY <1>0, <1>2, <2>0, <2>1, <2>2, <2>3, <2>5
  <2>7. \A r \in DOMAIN revision' :
          /\ revision'[r].target \in DOMAIN session'
          /\ session'[revision'[r].target].previous = revision'[r].source
    <3>1. CASE UNCHANGED revision
      BY <1>3, <3>1
    <3>2. ASSUME NEW r, revision' = Put(revision, r, [source |-> previous, target |-> next])
          PROVE  \A q \in DOMAIN revision' :
                   /\ revision'[q].target \in DOMAIN session'
                   /\ session'[revision'[q].target].previous = revision'[q].source
      BY <1>3, <2>0, <2>1, <2>2, <3>2 DEF Put
    <3> QED
      BY <1>5, <2>0, <3>1, <3>2 DEF Installs
  <2> QED
    BY <1>1, <2>1, <2>4, <2>6, <2>7 DEF Lineage
<1>6. ASSUME NEW u, Rewrites(u)
      PROVE  DOMAIN session' = DOMAIN session /\ revision' = revision
  BY <1>6, RewriteRows DEF Rewrites
<1>7. CASE Waits
  BY <1>4, <1>7 DEF Waits
<1> QED
  BY <1>0, <1>4, <1>5, <1>6, <1>7, StepKinds

\* It therefore holds in every reachable state.
LEMMA LineageInvariant == Spec => []Lineage
<1>1. Init => Lineage
  BY DEF Init, Lineage, NoRows
<1>2. SessionInv /\ Lineage /\ [Next]_vars => Lineage'
  BY LineageStep
<1> QED
  BY <1>1, <1>2, SessionInvariant, PTL DEF Spec

\* Stop is never undone: whatever operations follow, a stopped generation is
\* continued by no other, although a new task relabels it closed.
THEOREM StopStands == Spec => []StopNeverUndone
<1>1. Lineage => StopNeverUndone
  BY DEF Lineage, IsContinuation, StopNeverUndone
<1> QED
  BY <1>1, LineageInvariant, PTL

\* Revisions form chains of one session with one settings snapshot, and every
\* revision row names the continuation its retry must answer.
THEOREM RevisionsFormChains == Spec => []RevisionLineage
<1>1. Lineage => RevisionLineage
  BY DEF Lineage, IsContinuation, RevisionLineage
<1> QED
  BY <1>1, LineageInvariant, PTL

-----------------------------------------------------------------------------
(***************************************************************************)
(* Transcripts.  The message rows of a generation are numbered without     *)
(* gaps up to its next sequence number, message rows and event ledger name *)
(* each other, a generation not given out yet has no private sequence, and *)
(* a session that still hears agents has not published its stop.           *)
(***************************************************************************)
NumberedRows ==
  \A g \in Generations, n \in Numbers :
    <<g, n>> \in DOMAIN message <=> n \in 1..(NextSequence(g) - 1)

RowsHaveEvents ==
  \A k \in DOMAIN message :
    /\ k = <<message[k].generation, message[k].sequence>>
    /\ message[k].event \in DOMAIN event
    /\ event[message[k].event].message = message[k]

EventsHaveRows ==
  \A e \in DOMAIN event :
    LET m == event[e].message
    IN  /\ m.event = e
        /\ <<m.generation, m.sequence>> \in DOMAIN message
        /\ message[<<m.generation, m.sequence>>] = m

PrivateSequences ==
  \A g \in DOMAIN control : g <= generation /\ g \notin DOMAIN session

StopsAreFenced ==
  \A g \in Generations :
    StopEvent(g) \in DOMAIN event => g \in DOMAIN session /\ session[g].phase # "active"

TranscriptInv ==
  /\ NumberedRows
  /\ RowsHaveEvents
  /\ EventsHaveRows
  /\ PrivateSequences
  /\ StopsAreFenced

\* The bound critic of a generation belongs to its session and its settings.
CriticsMatch ==
  \A g \in DOMAIN critic :
    /\ g \in DOMAIN session
    /\ critic[g].sessionId = session[g].sessionId
    /\ ProviderOf[critic[g].critic] = session[g].provider

ReviewInv == CriticsMatch /\ AuthenticReview

-----------------------------------------------------------------------------
(***************************************************************************)
(* What every operation does to the transcripts: nothing, or one message   *)
(* of a new event under the next number of a generation.                   *)
(***************************************************************************)
Speaker == IF active # None /\ active.phase = "active" THEN active.generation ELSE None

Still ==
  /\ UNCHANGED <<message, event>>
  /\ \A h \in Generations : NextSequence(h)' = NextSequence(h)

Grows(g, e, kind, author) ==
  /\ g \in Generations
  /\ e \in EventIds \ DOMAIN event
  /\ kind \in {"message", "control"}
  /\ author \in Critics \cup {None}
  /\ WriteMessage(g, NextSequence(g), e, kind, author)
  /\ \A h \in Generations :
       NextSequence(h)' = IF h = g THEN NextSequence(g) + 1 ELSE NextSequence(h)

StutterStep == Still /\ UNCHANGED <<generation, Speaker>>

OpenStep ==
  /\ Still
  /\ generation + 1 \in Generations
  /\ generation' = generation + 1
  /\ Speaker' = generation + 1

FenceStep ==
  /\ Speaker \in Generations
  /\ Speaker' = None
  /\ generation' = generation
  /\ Still \/ Grows(Speaker, StopEvent(Speaker), "control", None)

SpeakStep(e, author) ==
  /\ Speaker \in Generations
  /\ UNCHANGED <<generation, Speaker>>
  /\ Grows(Speaker, e, "message", author)

NoticeStep(e) ==
  \/ Grows(generation, e, "control", None) /\ UNCHANGED <<generation, Speaker>>
  \/ /\ Grows(generation + 1, e, "control", None)
     /\ generation' = generation + 1
     /\ Speaker = None
     /\ UNCHANGED Speaker

LogStep ==
  \/ StutterStep
  \/ OpenStep
  \/ FenceStep
  \/ \E e \in Events : \E author : SpeakStep(e, author)
  \/ \E e \in Events : NoticeStep(e)

\* Sequence numbers are in range, and a generation not given out yet has none.
LEMMA NumberType ==
  ASSUME SessionInv, PrivateSequences, NEW g \in Generations
  PROVE  /\ NextSequence(g) \in NextNumbers
         /\ g > generation => NextSequence(g) = 1
<1>1. /\ \A h \in DOMAIN session : session[h].nextSequence \in NextNumbers /\ h <= generation
      /\ \A h \in DOMAIN control : control[h] \in NextNumbers /\ h <= generation
      /\ 1 \in NextNumbers /\ generation \in Nat /\ g \in Nat
  BY BoundAssumption DEF SessionInv, EarlierAreFenced, PrivateSequences, TypeOK, SessionTypeOK,
                         TranscriptTypeOK, SessionRecord
<1> QED
  BY <1>1 DEF NextSequence, GetOr

\* The latest session's sequence number is the one its active-session row holds.
LEMMA LatestNumber ==
  ASSUME SessionInv, active # None
  PROVE  /\ active.generation = generation
         /\ generation \in Generations
         /\ generation # None
         /\ NextSequence(generation) = active.nextSequence
         /\ Speaker = IF active.phase = "active" THEN generation ELSE None
BY CurrentType, NoneAssumption DEF SessionInv, LatestIsActive, TypeOK, NextSequence, Speaker

\* Rewriting the active session moves the number of the latest generation alone.
LEMMA RewriteNumbers ==
  ASSUME SessionInv, active # None, NEW u \in SessionRecord, u.generation = active.generation,
         WriteActive(u), control' = control
  PROVE  /\ \A h \in Generations :
              NextSequence(h)' = IF h = generation THEN u.nextSequence ELSE NextSequence(h)
         /\ Speaker' = IF u.phase = "active" THEN generation ELSE None
<1>1. u # None /\ u.generation = generation /\ generation \in DOMAIN session
  BY NoSessionAssumption DEF SessionInv, LatestIsActive
<1>2. /\ active' = u
      /\ DOMAIN session' = DOMAIN session
      /\ session'[generation] = u
      /\ \A h \in DOMAIN session : h # generation => session'[h] = session[h]
  BY <1>1 DEF WriteActive, Put
<1>3. Speaker' = IF u.phase = "active" THEN generation ELSE None
  BY <1>1, <1>2 DEF Speaker
<1>4. ASSUME NEW h \in Generations
      PROVE  NextSequence(h)' = IF h = generation THEN u.nextSequence ELSE NextSequence(h)
  BY <1>1, <1>2 DEF NextSequence, GetOr
<1> QED  BY <1>3, <1>4

\* Installing a session leaves every transcript as it is.
LEMMA InstallNumbers ==
  ASSUME SessionInv, PrivateSequences, NEW rows, NEW id, NEW p, NEW previous,
         Installs(rows, id, p, previous), UNCHANGED transcriptVars
  PROVE  OpenStep
<1>1. /\ generation \in Nat
      /\ generation' = generation + 1
      /\ active' = NewSession(generation + 1, id, p, previous) /\ active' # None
      /\ generation + 1 \notin DOMAIN session
      /\ DOMAIN session' = DOMAIN session \cup {generation + 1}
      /\ session'[generation + 1] = active'
      /\ \A g \in DOMAIN session : g # generation => session'[g] = session[g]
      /\ generation \in DOMAIN session =>
           session'[generation] \in {session[generation], Closed(session[generation])}
  <2>1. /\ generation \in Nat /\ generation' = generation + 1
        /\ generation + 1 \notin DOMAIN session
    BY InstallRows
  <2>2. active' = NewSession(generation + 1, id, p, previous) /\ active' # None
    BY InstallRows
  <2>3. DOMAIN session' = DOMAIN session \cup {generation + 1} /\ session'[generation + 1] = active'
    BY InstallRows
  <2>4. /\ \A g \in DOMAIN session : g # generation => session'[g] = session[g]
        /\ generation \in DOMAIN session =>
             session'[generation] \in {session[generation], Closed(session[generation])}
    BY InstallRows
  <2> QED  BY <2>1, <2>2, <2>3, <2>4
<1>2. generation + 1 \in Generations
  BY <1>1, BoundAssumption DEF Installs, Create
<1>3. Speaker' = generation + 1
  BY <1>1 DEF Speaker, NewSession
<1>4. control' = control /\ generation + 1 \notin DOMAIN control
  BY <1>1 DEF transcriptVars, PrivateSequences
<1>5. ASSUME NEW h \in Generations
      PROVE  NextSequence(h)' = NextSequence(h)
  <2>1. CASE h = generation + 1
    BY <1>1, <1>4, <2>1 DEF NextSequence, GetOr, NewSession
  <2>2. CASE h # generation + 1 /\ h \notin DOMAIN session
    BY <1>1, <1>4, <2>2 DEF NextSequence, GetOr
  <2>3. CASE h # generation + 1 /\ h \in DOMAIN session
    <3>1. session[h] \in SessionRecord
      BY <2>3 DEF SessionInv, TypeOK, SessionTypeOK
    <3>2. Closed(session[h]).nextSequence = session[h].nextSequence
      BY <3>1 DEF Closed, SessionRecord
    <3>3. session'[h].nextSequence = session[h].nextSequence /\ h \in DOMAIN session'
      BY <1>1, <2>3, <3>2
    <3> QED  BY <2>3, <3>3 DEF NextSequence
  <2> QED  BY <2>1, <2>2, <2>3
<1> QED
  BY <1>1, <1>2, <1>3, <1>5 DEF OpenStep, Still, transcriptVars

\* A stop has an event of its own.
LEMMA StopEvents ==
  /\ \A g \in Generations : StopEvent(g) \in EventIds /\ StopEvent(g) \notin Events
  /\ \A g, h \in Generations : StopEvent(g) = StopEvent(h) => g = h
BY StopEventAssumption DEF StopEvent, EventIds

\* A message or a notice of the latest session is one entry more in its log.
LEMMA LatestGrows ==
  ASSUME SessionInv, active # None, NEW e \in EventIds \ DOMAIN event,
         NEW kind \in {"message", "control"}, NEW author \in Critics \cup {None},
         NEW u \in SessionRecord, u.generation = active.generation,
         u.nextSequence = active.nextSequence + 1, WriteActive(u), control' = control,
         WriteMessage(active.generation, active.nextSequence, e, kind, author)
  PROVE  Grows(generation, e, kind, author)
<1>1. /\ active.generation = generation
      /\ generation \in Generations
      /\ NextSequence(generation) = active.nextSequence
  BY LatestNumber
<1>2. \A h \in Generations :
        NextSequence(h)' = IF h = generation THEN u.nextSequence ELSE NextSequence(h)
  BY RewriteNumbers
<1> QED
  BY <1>1, <1>2 DEF Grows

\* A notice before the first session is one entry more in a private log.
LEMMA PrivateGrows ==
  ASSUME SessionInv, PrivateSequences, NEW e \in EventIds \ DOMAIN event,
         NoticeBeforeSessions(e)
  PROVE  NoticeStep(e)
<1> DEFINE g == IF generation \in DOMAIN control THEN generation ELSE generation + 1
           n == GetOr(control, generation, 1)
<1>1. /\ active = None /\ active' = active /\ session' = session
      /\ g <= MaxGeneration
      /\ generation' = g
      /\ control' = Put(control, g, n + 1)
      /\ WriteMessage(g, n, e, "control", None)
  BY DEF NoticeBeforeSessions
<1>2. /\ generation \in Nat /\ DOMAIN session = {}
      /\ DOMAIN control \subseteq Generations
      /\ generation + 1 \notin DOMAIN control
  BY <1>1, BoundAssumption
  DEF SessionInv, LatestIsActive, TypeOK, SessionTypeOK, TranscriptTypeOK, PrivateSequences
<1>3. g \in Generations
  BY <1>1, <1>2, BoundAssumption
<1>4. n = NextSequence(g)
  BY <1>2 DEF NextSequence, GetOr
<1>5. /\ DOMAIN control' = DOMAIN control \cup {g}
      /\ control'[g] = n + 1
      /\ \A h \in DOMAIN control : h # g => control'[h] = control[h]
  <2> HIDE DEF g, n
  <2> QED  BY <1>1 DEF Put
<1>6. ASSUME NEW h \in Generations
      PROVE  NextSequence(h)' = IF h = g THEN NextSequence(g) + 1 ELSE NextSequence(h)
  <2> HIDE DEF g, n
  <2> QED  BY <1>1, <1>2, <1>4, <1>5 DEF NextSequence, GetOr
<1>7. Grows(g, e, "control", None)
  <2> HIDE DEF g, n
  <2> QED  BY <1>1, <1>3, <1>4, <1>6 DEF Grows
<1>8. Speaker = None /\ Speaker' = None
  BY <1>1 DEF Speaker
<1>9. CASE generation \in DOMAIN control
  BY <1>1, <1>7, <1>8, <1>9 DEF NoticeStep
<1>10. CASE generation \notin DOMAIN control
  BY <1>1, <1>7, <1>8, <1>10 DEF NoticeStep
<1> QED  BY <1>9, <1>10

\* The operations on the session and link rows alone, and the messages, are steps of a log.
LEMMA LogSteps ==
  ASSUME SessionInv, TranscriptInv, [Next]_vars
  PROVE  LogStep
<1>0. TypeOK /\ SessionTypeOK /\ PrivateSequences /\ StopsAreFenced
  BY DEF SessionInv, TypeOK, TranscriptInv
<1>1. ASSUME \/ \E id \in SessionIds, p \in Providers : StartSession(id, p) \/ StartNewTask(id, p)
             \/ \E g \in Known, r \in Revisions, concluded \in BOOLEAN :
                  ReviseSession(g, r, concluded)
      PROVE  LogStep
  <2>1. \E rows, id, p, previous : Installs(rows, id, p, previous)
    BY <1>0, <1>1, OpeningSteps
  <2>2. UNCHANGED transcriptVars
    BY <1>1 DEF StartSession, StartNewTask, ReviseSession
  <2> QED
    BY <1>0, <2>1, <2>2, InstallNumbers DEF LogStep
<1>2. ASSUME NEW g \in Known, NEW e \in Events, NEW a \in Critics \cup {None},
             AppendConfirmedMessage(g, e, a) \/ ConfirmConsensusMessage(g, e, a)
      PROVE  LogStep
  <2> DEFINE u == [active EXCEPT !.nextSequence = @ + 1]
  <2>1. /\ e \in EventIds \ DOMAIN event
        /\ active # None /\ active.generation = g /\ active.phase = "active"
        /\ active.nextSequence <= MaxSequence
        /\ WriteMessage(g, active.nextSequence, e, "message", a)
        /\ WriteActive(u)
        /\ control' = control /\ generation' = generation
    BY <1>2 DEF AppendConfirmedMessage, ConfirmConsensusMessage, AppendMessage, IsCurrent,
                WriteMessage, EventIds
  <2>2. active \in SessionRecord /\ u \in SessionRecord
    BY <1>0, <2>1, CurrentType, AdvanceType
  <2>3. /\ u.generation = active.generation /\ u.phase = active.phase
        /\ u.nextSequence = active.nextSequence + 1
    BY <2>2 DEF SessionRecord
  <2> HIDE DEF u
  <2>4. Grows(generation, e, "message", a)
    BY <2>1, <2>2, <2>3, LatestGrows
  <2>5. Speaker = generation /\ Speaker' = generation /\ generation \in Generations
    BY <2>1, <2>2, <2>3, LatestNumber, RewriteNumbers
  <2>6. SpeakStep(e, a)
    BY <2>1, <2>4, <2>5 DEF SpeakStep
  <2> QED
    BY <2>1, <2>6 DEF LogStep
<1>3. ASSUME NEW e \in Events, AppendControlNotice(e)
      PROVE  LogStep
  <2>0. e \in EventIds \ DOMAIN event
    BY <1>3 DEF AppendControlNotice, EventIds
  <2>1. CASE NoticeOfSession(e)
    <3> DEFINE u == [active EXCEPT !.nextSequence = @ + 1]
    <3>1. /\ active # None
          /\ active.nextSequence <= MaxSequence
          /\ WriteMessage(active.generation, active.nextSequence, e, "control", None)
          /\ WriteActive(u)
          /\ control' = control /\ generation' = generation
      BY <2>1 DEF NoticeOfSession, WriteMessage
    <3>2. active \in SessionRecord /\ u \in SessionRecord
      BY <1>0, <3>1, CurrentType, AdvanceType
    <3>3. /\ u.generation = active.generation /\ u.phase = active.phase
          /\ u.nextSequence = active.nextSequence + 1
      BY <3>2 DEF SessionRecord
    <3> HIDE DEF u
    <3>4. Grows(generation, e, "control", None)
      BY <2>0, <3>1, <3>2, <3>3, LatestGrows
    <3>5. Speaker' = Speaker
      BY <3>1, <3>2, <3>3, LatestNumber, RewriteNumbers
    <3> QED
      BY <2>0, <3>1, <3>4, <3>5 DEF LogStep, NoticeStep
  <2>2. CASE NoticeBeforeSessions(e)
    BY <1>0, <2>0, <2>2, PrivateGrows DEF LogStep
  <2> QED  BY <1>3, <2>1, <2>2 DEF AppendControlNotice
<1>4. ASSUME NEW g \in Known, CloseSession(g)
      PROVE  LogStep
  <2>1. /\ active # None /\ active.generation = g /\ active.phase = "active"
        /\ WriteActive(Closed(active))
        /\ UNCHANGED <<generation, control, message, event>>
    BY <1>4 DEF CloseSession, IsCurrent, transcriptVars
  <2>2. active \in SessionRecord /\ Closed(active) \in SessionRecord
    BY <1>0, <2>1, CurrentType, ClosedType
  <2>3. /\ Closed(active).generation = active.generation
        /\ Closed(active).nextSequence = active.nextSequence
        /\ Closed(active).phase = "closed"
    BY <2>2 DEF Closed, SessionRecord
  <2>4. Still
    BY <2>1, <2>2, <2>3, LatestNumber, RewriteNumbers DEF Still
  <2>5. Speaker \in Generations /\ Speaker' = None
    BY <2>1, <2>2, <2>3, LatestNumber, RewriteNumbers
  <2> QED
    BY <2>1, <2>4, <2>5 DEF LogStep, FenceStep
<1>5. ASSUME NEW g \in Known, NEW publishControl \in BOOLEAN, StopSession(g, publishControl)
      PROVE  LogStep
  <2>1. /\ active # None /\ active.generation = g /\ active.phase = "active"
        /\ control' = control /\ generation' = generation
    BY <1>5 DEF StopSession, IsCurrent
  <2>2. /\ active \in SessionRecord /\ Stopped(active) \in SessionRecord
        /\ Stopped(active).generation = active.generation
        /\ Stopped(active).nextSequence = active.nextSequence
        /\ Stopped(active).phase = "stopped"
    BY <1>0, <2>1, CurrentType DEF Stopped, SessionRecord
  <2>3. /\ g = generation /\ generation \in Generations /\ Speaker \in Generations
        /\ Speaker = generation
        /\ NextSequence(generation) = active.nextSequence
    BY <2>1, LatestNumber
  <2>4. CASE publishControl
    <3> DEFINE u == [Stopped(active) EXCEPT !.nextSequence = @ + 1]
    <3>1. /\ WriteMessage(g, active.nextSequence, StopEvent(g), "control", None)
          /\ WriteActive(u)
          /\ active.nextSequence <= MaxSequence
      BY <1>5, <2>4 DEF StopSession, WriteMessage
    <3>2. u \in SessionRecord
      BY <2>2, <3>1, AdvanceType
    <3>3. /\ u.generation = active.generation /\ u.phase = "stopped"
          /\ u.nextSequence = active.nextSequence + 1
      BY <2>2 DEF SessionRecord
    <3> HIDE DEF u
    <3>4. StopEvent(g) \in EventIds \ DOMAIN event
      <4>1. session[g] = active
        BY <2>1, <2>3 DEF SessionInv, LatestIsActive
      <4> QED
        BY <1>0, <2>1, <2>3, <4>1, StopEvents DEF StopsAreFenced
    <3>5. Grows(generation, StopEvent(g), "control", None)
      BY <2>1, <3>1, <3>2, <3>3, <3>4, LatestGrows
    <3>6. Speaker' = None
      BY <2>1, <3>1, <3>2, <3>3, RewriteNumbers
    <3> QED
      BY <2>1, <2>3, <3>4, <3>5, <3>6 DEF LogStep, FenceStep
  <2>5. CASE ~publishControl
    <3>1. WriteActive(Stopped(active)) /\ UNCHANGED <<message, event>>
      BY <1>5, <2>5 DEF StopSession
    <3>2. Still /\ Speaker' = None
      BY <2>1, <2>2, <2>3, <3>1, RewriteNumbers DEF Still
    <3> QED
      BY <2>1, <2>3, <3>2 DEF LogStep, FenceStep
  <2> QED  BY <2>4, <2>5
<1>6. ASSUME \/ \E g \in Known, c \in Critics : DesignateCritic(g, c)
             \/ \E g \in Known, c \in Critics, e \in Events : RecordCriticReview(g, e, c)
             \/ \E g \in Known, t \in Tasks : BindTask(g, t)
             \/ UNCHANGED vars
      PROVE  LogStep
  <2>1. UNCHANGED <<generation, active, session, control, message, event>>
    BY <1>6 DEF DesignateCritic, RecordCriticReview, BindTask, vars, transcriptVars
  <2> QED
    BY <2>1 DEF LogStep, StutterStep, Still, Speaker, NextSequence
<1> QED
  BY <1>1, <1>2, <1>3, <1>4, <1>5, <1>6 DEF Next

-----------------------------------------------------------------------------
\* The rows that one more entry writes are new, and the earlier ones stay.
LEMMA GrownRows ==
  ASSUME SessionInv, TranscriptInv, NEW g, NEW e, NEW kind, NEW author,
         Grows(g, e, kind, author)
  PROVE  LET n == NextSequence(g)
             m == [generation |-> g, sequence |-> n, event |-> e, author |-> author]
         IN  /\ n \in Numbers
             /\ <<g, n>> \notin DOMAIN message
             /\ DOMAIN message' = DOMAIN message \cup {<<g, n>>}
             /\ message'[<<g, n>>] = m
             /\ \A k \in DOMAIN message : message'[k] = message[k]
             /\ e \notin DOMAIN event
             /\ DOMAIN event' = DOMAIN event \cup {e}
             /\ event'[e] = [kind |-> kind, message |-> m]
             /\ \A d \in DOMAIN event : event'[d] = event[d]
<1> DEFINE n == NextSequence(g)
           m == [generation |-> g, sequence |-> n, event |-> e, author |-> author]
           entry == [kind |-> kind, message |-> m]
<1>1. /\ g \in Generations /\ e \notin DOMAIN event
      /\ n <= MaxSequence
      /\ message' = Put(message, <<g, n>>, m)
      /\ event' = Put(event, e, entry)
  BY DEF Grows, WriteMessage
<1>2. n \in Numbers
  BY <1>1, BoundAssumption, NumberType DEF TranscriptInv
<1>3. <<g, n>> \notin DOMAIN message
  <2>1. n \notin 1..(n - 1)
    BY <1>2
  <2> QED  BY <1>1, <1>2, <2>1 DEF TranscriptInv, NumberedRows
<1> HIDE DEF n, m, entry
<1>4. /\ DOMAIN message' = DOMAIN message \cup {<<g, n>>}
      /\ message'[<<g, n>>] = m
      /\ \A k \in DOMAIN message : message'[k] = message[k]
  BY <1>1, <1>3 DEF Put
<1>5. /\ DOMAIN event' = DOMAIN event \cup {e}
      /\ event'[e] = entry
      /\ \A d \in DOMAIN event : event'[d] = event[d]
  BY <1>1 DEF Put
<1> QED
  BY <1>1, <1>2, <1>3, <1>4, <1>5 DEF n, m, entry

\* A step of the log writes one entry or none.
LEMMA StillOrGrows ==
  ASSUME LogStep
  PROVE  Still \/ \E g, e, kind, author : Grows(g, e, kind, author)
BY DEF LogStep, StutterStep, OpenStep, FenceStep, SpeakStep, NoticeStep

\* No message row is ever changed or removed, nor an event.
LEMMA TranscriptKept ==
  ASSUME SessionInv, TranscriptInv, [Next]_vars
  PROVE  /\ \A k \in DOMAIN message : k \in DOMAIN message' /\ message'[k] = message[k]
         /\ \A e \in DOMAIN event : e \in DOMAIN event' /\ event'[e] = event[e]
<1>1. CASE Still
  BY <1>1 DEF Still
<1>2. ASSUME NEW g, NEW e, NEW kind, NEW author, Grows(g, e, kind, author)
      PROVE  /\ \A k \in DOMAIN message : k \in DOMAIN message' /\ message'[k] = message[k]
             /\ \A d \in DOMAIN event : d \in DOMAIN event' /\ event'[d] = event[d]
  BY <1>2, GrownRows
<1> QED
  BY <1>1, <1>2, LogSteps, StillOrGrows

\* Private sequences belong to generations given out, and to no session.
LEMMA PrivateStep ==
  ASSUME SessionInv, PrivateSequences, [Next]_vars
  PROVE  PrivateSequences'
<1>0. TypeOK /\ generation \in Nat /\ DOMAIN control \subseteq Generations
  BY BoundAssumption DEF SessionInv, TypeOK, SessionTypeOK, TranscriptTypeOK
<1>1. CASE \E e \in Events : NoticeBeforeSessions(e)
  <2>1. /\ active = None /\ session' = session
        /\ LET g == IF generation \in DOMAIN control THEN generation ELSE generation + 1
               n == GetOr(control, generation, 1)
           IN  generation' = g /\ control' = Put(control, g, n + 1)
    BY <1>1 DEF NoticeBeforeSessions
  <2>2. DOMAIN session' = {}
    BY <2>1 DEF SessionInv, LatestIsActive
  <2>3. PICK g : /\ g \in {generation, generation + 1}
                 /\ generation' = g
                 /\ DOMAIN control' = DOMAIN control \cup {g}
    BY <2>1 DEF Put
  <2> QED
    BY <1>0, <2>2, <2>3 DEF PrivateSequences
<1>2. CASE control' = control
  <2>1. CASE Waits
    BY <1>0, <1>2, <2>1 DEF Waits, PrivateSequences
  <2>2. ASSUME NEW u, Rewrites(u)
        PROVE  PrivateSequences'
    <3>1. generation' = generation /\ DOMAIN session' = DOMAIN session
      BY <2>2, RewriteRows
    <3> QED  BY <1>2, <3>1 DEF PrivateSequences
  <2>3. ASSUME NEW rows, NEW id, NEW p, NEW previous, Installs(rows, id, p, previous)
        PROVE  PrivateSequences'
    <3>1. generation' = generation + 1 /\ DOMAIN session' = DOMAIN session \cup {generation + 1}
      BY <2>3, InstallRows
    <3> QED  BY <1>0, <1>2, <3>1 DEF PrivateSequences
  <2> QED
    BY <1>0, <2>1, <2>2, <2>3, StepKinds
<1>3. \/ \E e \in Events : NoticeBeforeSessions(e)
      \/ control' = control
  <2>1. ASSUME NEW g \in Known, NEW e \in Events, NEW a \in Critics \cup {None},
               AppendConfirmedMessage(g, e, a) \/ ConfirmConsensusMessage(g, e, a)
        PROVE  control' = control
    BY <2>1 DEF AppendConfirmedMessage, ConfirmConsensusMessage, AppendMessage
  <2>2. ASSUME NEW e \in Events, AppendControlNotice(e)
        PROVE  NoticeBeforeSessions(e) \/ control' = control
    BY <2>2 DEF AppendControlNotice, NoticeOfSession
  <2>3. ASSUME NEW g \in Known, NEW publishControl \in BOOLEAN, StopSession(g, publishControl)
        PROVE  control' = control
    BY <2>3 DEF StopSession
  <2>4. ASSUME \/ \E id \in SessionIds, p \in Providers : StartSession(id, p) \/ StartNewTask(id, p)
               \/ \E g \in Known : CloseSession(g)
               \/ \E g \in Known, r \in Revisions, concluded \in BOOLEAN :
                    ReviseSession(g, r, concluded)
               \/ \E g \in Known, c \in Critics : DesignateCritic(g, c)
               \/ \E g \in Known, c \in Critics, e \in Events : RecordCriticReview(g, e, c)
               \/ \E g \in Known, t \in Tasks : BindTask(g, t)
               \/ UNCHANGED vars
        PROVE  control' = control
    BY <2>4 DEF StartSession, StartNewTask, CloseSession, ReviseSession, DesignateCritic,
                RecordCriticReview, BindTask, vars, transcriptVars
  <2> QED
    BY <2>1, <2>2, <2>3, <2>4 DEF Next
<1> QED
  BY <1>1, <1>2, <1>3

\* A stop is published by a session that does not hear agents after it.
LEMMA StopStep ==
  ASSUME SessionInv, SessionInv', TranscriptInv, [Next]_vars
  PROVE  StopsAreFenced'
<1> SUFFICES ASSUME NEW h \in Generations, StopEvent(h) \in DOMAIN event'
             PROVE  h \in DOMAIN session' /\ session'[h].phase # "active"
  BY DEF StopsAreFenced, StopEvent
<1>1. CASE StopEvent(h) \in DOMAIN event
  BY <1>1, FenceKept DEF TranscriptInv, StopsAreFenced
<1>2. CASE StopEvent(h) \notin DOMAIN event
  <2>0. StopEvent(h) \notin Events
    BY StopEvents
  <2>1. FenceStep /\ Grows(Speaker, StopEvent(Speaker), "control", None)
    <3>1. CASE Still
      BY <1>2, <3>1 DEF Still
    <3>2. ASSUME NEW e \in Events, NEW g, NEW kind, NEW author, Grows(g, e, kind, author)
          PROVE  FALSE
      <4>1. DOMAIN event' = DOMAIN event \cup {e}
        BY <3>2, GrownRows
      <4> QED  BY <1>2, <2>0, <4>1
    <3> QED
      BY <3>1, <3>2, LogSteps DEF LogStep, StutterStep, OpenStep, FenceStep, SpeakStep, NoticeStep
  <2>2. Speaker \in Generations /\ Speaker' = None
    BY <2>1 DEF FenceStep
  <2>3. DOMAIN event' = DOMAIN event \cup {StopEvent(Speaker)}
    BY <2>1, GrownRows
  <2>4. h = Speaker
    BY <1>2, <2>2, <2>3, StopEvents
  <2>5. h \in DOMAIN session
    BY <2>2, <2>4, NoneAssumption DEF Speaker, SessionInv, LatestIsActive
  <2>6. h \in DOMAIN session'
    BY <2>5, FenceKept
  <2>7. session'[h].phase = "active" => Speaker' = h
    BY <2>6 DEF Speaker, SessionInv, LatestIsActive, EarlierAreFenced
  <2> QED
    BY <2>2, <2>4, <2>6, <2>7, NoneAssumption
<1> QED  BY <1>1, <1>2

\* A new entry keeps rows and numbers in step.
LEMMA GrownInv ==
  ASSUME SessionInv, TranscriptInv, NEW g, NEW e, NEW kind, NEW author,
         Grows(g, e, kind, author)
  PROVE  NumberedRows' /\ RowsHaveEvents' /\ EventsHaveRows'
<1> DEFINE n == NextSequence(g)
           m == [generation |-> g, sequence |-> n, event |-> e, author |-> author]
           entry == [kind |-> kind, message |-> m]
<1>1. /\ n \in Numbers
      /\ <<g, n>> \notin DOMAIN message
      /\ DOMAIN message' = DOMAIN message \cup {<<g, n>>}
      /\ message'[<<g, n>>] = m
      /\ \A k \in DOMAIN message : message'[k] = message[k]
      /\ e \notin DOMAIN event
      /\ DOMAIN event' = DOMAIN event \cup {e}
      /\ event'[e] = entry
      /\ \A d \in DOMAIN event : event'[d] = event[d]
  BY GrownRows
<1>2. /\ g \in Generations
      /\ \A h \in Generations :
           NextSequence(h)' = IF h = g THEN n + 1 ELSE NextSequence(h)
  BY DEF Grows
<1>3. m.generation = g /\ m.sequence = n /\ m.event = e /\ entry.message = m
  OBVIOUS
<1> HIDE DEF n, m, entry
<1>4. NumberedRows'
  <2> SUFFICES ASSUME NEW h \in Generations, NEW i \in Numbers
               PROVE  <<h, i>> \in DOMAIN message' <=> i \in 1..(NextSequence(h)' - 1)
    BY DEF NumberedRows
  <2>1. <<h, i>> \in DOMAIN message <=> i \in 1..(NextSequence(h) - 1)
    BY DEF TranscriptInv, NumberedRows
  <2>2. CASE h = g
    <3>1. <<h, i>> \in DOMAIN message' <=> <<h, i>> \in DOMAIN message \/ i = n
      BY <1>1, <2>2
    <3>2. i \in 1..n <=> i \in 1..(n - 1) \/ i = n
      BY <1>1
    <3>3. NextSequence(h)' - 1 = n
      BY <1>1, <1>2, <2>2
    <3> QED  BY <2>1, <2>2, <3>1, <3>2, <3>3 DEF n
  <2>3. CASE h # g
    <3>1. <<h, i>> \in DOMAIN message' <=> <<h, i>> \in DOMAIN message
      BY <1>1, <2>3
    <3>2. NextSequence(h)' = NextSequence(h)
      BY <1>2, <2>3
    <3> QED  BY <2>1, <3>1, <3>2
  <2> QED  BY <2>2, <2>3
<1>5. RowsHaveEvents'
  BY <1>1, <1>3 DEF TranscriptInv, RowsHaveEvents
<1>6. EventsHaveRows'
  BY <1>1, <1>3 DEF TranscriptInv, EventsHaveRows
<1> QED  BY <1>4, <1>5, <1>6

\* Every operation keeps the transcript rows in step.
LEMMA TranscriptInvStep ==
  ASSUME SessionInv, SessionInv', TranscriptInv, [Next]_vars
  PROVE  TranscriptInv'
<1>1. CASE Still
  BY <1>1, PrivateStep, StopStep
  DEF Still, TranscriptInv, NumberedRows, RowsHaveEvents, EventsHaveRows
<1>2. ASSUME NEW g, NEW e, NEW kind, NEW author, Grows(g, e, kind, author)
      PROVE  TranscriptInv'
  BY <1>2, GrownInv, PrivateStep, StopStep DEF TranscriptInv
<1> QED
  BY <1>1, <1>2, LogSteps, StillOrGrows

\* They are in step in the empty namespace.
LEMMA TranscriptInvInit == Init => TranscriptInv
BY BoundAssumption
DEF Init, NoRows, TranscriptInv, NumberedRows, RowsHaveEvents, EventsHaveRows,
    PrivateSequences, StopsAreFenced, NextSequence, GetOr

\* The transcript rows are in step in every reachable state.
LEMMA TranscriptInvariant == Spec => []TranscriptInv
<1>1. SessionInv /\ SessionInv' /\ TranscriptInv /\ [Next]_vars => TranscriptInv'
  BY TranscriptInvStep
<1> QED
  BY <1>1, TranscriptInvInit, SessionInvariant, PTL DEF Spec

-----------------------------------------------------------------------------
\* A critic is bound once, to the session and the provider of its generation.
LEMMA CriticsMatchStep ==
  ASSUME SessionInv, CriticsMatch, [Next]_vars
  PROVE  /\ CriticsMatch'
         /\ \A g \in DOMAIN critic : g \in DOMAIN critic' /\ critic'[g] = critic[g]
<1>0. TypeOK /\ SessionTypeOK
  BY DEF SessionInv, TypeOK
<1>1. CASE critic' = critic
  BY <1>1, RowsKept DEF CriticsMatch
<1>2. ASSUME NEW g \in Known, NEW c \in Critics, DesignateCritic(g, c)
      PROVE  /\ CriticsMatch'
             /\ \A h \in DOMAIN critic : h \in DOMAIN critic' /\ critic'[h] = critic[h]
  <2> DEFINE row == [critic |-> c, sessionId |-> active.sessionId]
  <2>1. /\ active # None /\ active.generation = g
        /\ ProviderOf[c] = active.provider
        /\ g \notin DOMAIN critic
        /\ critic' = Put(critic, g, row)
        /\ session' = session
    BY <1>2 DEF DesignateCritic, IsCurrent
  <2>2. g \in DOMAIN session /\ session[g] = active
    BY <2>1 DEF SessionInv, LatestIsActive
  <2>3. row.critic = c /\ row.sessionId = active.sessionId
    OBVIOUS
  <2> HIDE DEF row
  <2>4. /\ DOMAIN critic' = DOMAIN critic \cup {g}
        /\ critic'[g] = row
        /\ \A h \in DOMAIN critic : critic'[h] = critic[h]
    BY <2>1 DEF Put
  <2> QED
    BY <2>1, <2>2, <2>3, <2>4 DEF CriticsMatch
<1>3. \/ critic' = critic
      \/ \E g \in Known, c \in Critics : DesignateCritic(g, c)
  BY DEF Next, StartSession, StartNewTask, AppendConfirmedMessage, ConfirmConsensusMessage,
         AppendControlNotice, CloseSession, ReviseSession, StopSession, RecordCriticReview, BindTask, vars, criticVars
<1> QED  BY <1>1, <1>2, <1>3

\* A receipt, once recorded, agrees with rows that never change.
LEMMA ReviewInvStep ==
  ASSUME SessionInv, TranscriptInv, ReviewInv, [Next]_vars
  PROVE  ReviewInv'
<1>0. TypeOK /\ SessionTypeOK /\ CriticsMatch /\ AuthenticReview
  BY DEF SessionInv, TypeOK, ReviewInv
<1>1. /\ CriticsMatch'
      /\ \A g \in DOMAIN critic : g \in DOMAIN critic' /\ critic'[g] = critic[g]
  BY <1>0, CriticsMatchStep
<1>2. \A g \in DOMAIN critic :
        /\ g \in DOMAIN session
        /\ session'[g].sessionId = session[g].sessionId
        /\ session'[g].provider = session[g].provider
  BY <1>0, RowsKept DEF CriticsMatch
<1>3. /\ \A k \in DOMAIN message : k \in DOMAIN message' /\ message'[k] = message[k]
      /\ \A e \in DOMAIN event : e \in DOMAIN event' /\ event'[e] = event[e]
  BY TranscriptKept
<1>4. CASE review' = review
  <2>1. ASSUME NEW g \in DOMAIN review
        PROVE  /\ g \in DOMAIN critic'
               /\ critic'[g] = [critic |-> review[g].critic, sessionId |-> session'[g].sessionId]
               /\ ProviderOf[review[g].critic] = session'[g].provider
    BY <1>0, <1>1, <1>2 DEF AuthenticReview
  <2>2. ASSUME NEW g \in DOMAIN review
        PROVE  /\ review[g].event \in DOMAIN event'
               /\ <<g, review[g].sequence>> \in DOMAIN message'
               /\ message'[<<g, review[g].sequence>>] = event'[review[g].event].message
               /\ message'[<<g, review[g].sequence>>].author = review[g].critic
    BY <1>0, <1>3 DEF AuthenticReview
  <2> QED
    BY <1>1, <1>4, <2>1, <2>2 DEF AuthenticReview, ReviewInv
<1>5. ASSUME NEW g \in Known, NEW c \in Critics, NEW e \in Events, RecordCriticReview(g, e, c)
      PROVE  ReviewInv'
  <2> DEFINE receipt == [critic |-> c, sessionId |-> active.sessionId, event |-> e,
                         sequence |-> event[e].message.sequence]
  <2>1. /\ active # None /\ active.generation = g
        /\ g \in DOMAIN critic
        /\ critic[g] = [critic |-> c, sessionId |-> active.sessionId]
        /\ e \in DOMAIN event
        /\ event[e].message.generation = g
        /\ event[e].message.author = c
        /\ review' = Put(review, g, receipt)
        /\ UNCHANGED <<session, message, event, critic>>
    BY <1>5 DEF RecordCriticReview, IsCurrent, IsCritique, transcriptVars
  <2>2. session[g] = active
    BY <2>1 DEF SessionInv, LatestIsActive
  <2>3. /\ <<g, event[e].message.sequence>> \in DOMAIN message
        /\ message[<<g, event[e].message.sequence>>] = event[e].message
    BY <2>1 DEF TranscriptInv, EventsHaveRows
  <2>4. ProviderOf[c] = session[g].provider
    <3>1. critic[g].critic = c
      BY <2>1
    <3> QED  BY <1>0, <2>1, <3>1 DEF CriticsMatch
  <2>5. /\ receipt.critic = c /\ receipt.event = e
        /\ receipt.sequence = event[e].message.sequence
    OBVIOUS
  <2> HIDE DEF receipt
  <2>6. /\ DOMAIN review' = DOMAIN review \cup {g}
        /\ review'[g] = receipt
        /\ \A h \in DOMAIN review : h # g => review'[h] = review[h]
    BY <2>1 DEF Put
  <2>7. AuthenticReview'
    BY <1>0, <2>1, <2>2, <2>3, <2>4, <2>5, <2>6 DEF AuthenticReview
  <2> QED  BY <1>1, <2>7 DEF ReviewInv
<1>6. \/ review' = review
      \/ \E g \in Known, c \in Critics, e \in Events : RecordCriticReview(g, e, c)
  BY DEF Next, StartSession, StartNewTask, AppendConfirmedMessage, ConfirmConsensusMessage,
         AppendControlNotice, CloseSession, ReviseSession, StopSession, DesignateCritic, BindTask, vars, criticVars
<1> QED  BY <1>4, <1>5, <1>6

\* A recorded critic review stays provable from the rows it names: no operation rewrites
\* the bound critic, the critique or the session's settings (getCriticReview).
THEOREM ReviewsStayAuthentic == Spec => []AuthenticReview
<1>1. Init => ReviewInv
  BY DEF Init, NoRows, ReviewInv, CriticsMatch, AuthenticReview
<1>2. SessionInv /\ TranscriptInv /\ ReviewInv /\ [Next]_vars => ReviewInv'
  BY ReviewInvStep
<1>3. ReviewInv => AuthenticReview
  BY DEF ReviewInv
<1> QED
  BY <1>1, <1>2, <1>3, SessionInvariant, TranscriptInvariant, PTL DEF Spec

-----------------------------------------------------------------------------
(***************************************************************************)
(* The transcript log.  Given the rows in step, a transcript is a sequence *)
(* of entries; a step that grows a generation appends one.                 *)
(***************************************************************************)
Entry(g, n) == LET e == message[<<g, n>>].event IN [event |-> e, kind |-> event[e].kind]

Entries == [event : EventIds, kind : {"message", "control"}]

\* A transcript is the sequence of the generation's entries, up to its next number.
TranscriptIsSequence(g) ==
  /\ Transcript(g) = [n \in 1..(NextSequence(g) - 1) |-> Entry(g, n)]
  /\ \A n \in 1..(NextSequence(g) - 1) :
       /\ <<g, n>> \in DOMAIN message
       /\ message[<<g, n>>].event \in DOMAIN event
       /\ Entry(g, n) \in Entries
  /\ Transcript(g) \in Seq(Entries)
  /\ Len(Transcript(g)) = NextSequence(g) - 1

AllAreSequences == \A g \in Generations : TranscriptIsSequence(g)

\* Rows in step with their numbers make every transcript a sequence.
LEMMA TranscriptSequences == SessionInv /\ TranscriptInv => AllAreSequences
<1> SUFFICES ASSUME SessionInv, TranscriptInv, NEW g \in Generations
             PROVE  TranscriptIsSequence(g)
  BY DEF AllAreSequences
<1> DEFINE k == NextSequence(g) - 1
<1>1. k \in Nat /\ k <= MaxSequence
  BY NumberType, BoundAssumption DEF TranscriptInv
<1>2. \A n \in Numbers : <<g, n>> \in DOMAIN message <=> n \in 1..k
  BY DEF TranscriptInv, NumberedRows
<1> HIDE DEF k
<1>3. 1..k \subseteq Numbers
  BY <1>1, BoundAssumption
<1>4. 1..k \cup {n \in Numbers : <<g, n>> \in DOMAIN message} = 1..k
  BY <1>2
<1>5. Transcript(g) = [n \in 1..k |-> Entry(g, n)]
  BY <1>4 DEF Transcript, Entry, k
<1>6. ASSUME NEW n \in 1..k
      PROVE  /\ <<g, n>> \in DOMAIN message
             /\ message[<<g, n>>].event \in DOMAIN event
             /\ Entry(g, n) \in Entries
  <2>1. <<g, n>> \in DOMAIN message
    BY <1>2, <1>3
  <2>2. message[<<g, n>>].event \in DOMAIN event
    BY <2>1 DEF TranscriptInv, RowsHaveEvents
  <2>3. /\ message[<<g, n>>].event \in EventIds
        /\ event[message[<<g, n>>].event].kind \in {"message", "control"}
    BY <2>2 DEF SessionInv, TypeOK, TranscriptTypeOK
  <2> QED  BY <2>1, <2>2, <2>3 DEF Entry, Entries
<1>7. Transcript(g) \in Seq(Entries)
  <2>1. Transcript(g) \in [1..k -> Entries]
    BY <1>5, <1>6
  <2> QED  BY <1>1, <2>1, SeqDef
<1>8. Len(Transcript(g)) = k
  BY <1>1, <1>5, <1>7
<1> QED
  BY <1>5, <1>6, <1>7, <1>8 DEF k, TranscriptIsSequence

\* While rows and numbers stay, so do the transcripts.
LEMMA StillTranscripts ==
  ASSUME Still
  PROVE  \A g \in Generations : Transcript(g)' = Transcript(g)
BY DEF Still, Transcript

\* The abstract log of each generation.
Logs == [g \in Generations |-> Transcript(g)]

\* A new entry goes to the end of its generation's transcript and to no other, and its
\* event was in none.
LEMMA GrownLog ==
  ASSUME SessionInv, SessionInv', TranscriptInv, TranscriptInv',
         NEW g, NEW e, NEW kind, NEW author, Grows(g, e, kind, author)
  PROVE  /\ g \in Generations
         /\ Logs' = [Logs EXCEPT ![g] = Append(@, [event |-> e, kind |-> kind])]
         /\ \A h \in Generations : \A n \in DOMAIN Logs[h] : Logs[h][n].event # e
<1>0. PICK next \in Numbers : next = NextSequence(g)
  BY GrownRows
<1> DEFINE new == [event |-> e, kind |-> kind]
           m == [generation |-> g, sequence |-> next, event |-> e, author |-> author]
           old == Transcript(g)
<1>1. /\ g \in Generations /\ e \in EventIds /\ kind \in {"message", "control"}
      /\ \A h \in Generations : NextSequence(h)' = IF h = g THEN next + 1 ELSE NextSequence(h)
  BY <1>0 DEF Grows
<1>2. /\ next \in Numbers
      /\ message'[<<g, next>>] = m
      /\ \A i \in DOMAIN message : message'[i] = message[i]
      /\ e \notin DOMAIN event
      /\ event'[e] = [kind |-> kind, message |-> m]
      /\ \A d \in DOMAIN event : event'[d] = event[d]
  BY <1>0, GrownRows
<1>3. new \in Entries
  BY <1>1 DEF Entries
<1>a. AllAreSequences
  BY TranscriptSequences
<1>b. AllAreSequences'
  BY TranscriptSequences, PTL
<1>4. ASSUME NEW h \in Generations, NEW n \in 1..(NextSequence(h) - 1)
      PROVE  Entry(h, n)' = Entry(h, n) /\ Entry(h, n).event # e
  <2>1. <<h, n>> \in DOMAIN message /\ message[<<h, n>>].event \in DOMAIN event
    BY <1>a DEF AllAreSequences, TranscriptIsSequence
  <2> QED  BY <1>2, <2>1 DEF Entry
<1>5. ASSUME NEW h \in Generations
      PROVE  Transcript(h)' = [n \in 1..(NextSequence(h)' - 1) |-> Entry(h, n)']
  BY <1>b DEF AllAreSequences, TranscriptIsSequence
<1>6. ASSUME NEW h \in Generations, h # g
      PROVE  Transcript(h)' = Transcript(h)
  <2>1. NextSequence(h)' = NextSequence(h)
    BY <1>1, <1>6
  <2>2. Transcript(h) = [n \in 1..(NextSequence(h) - 1) |-> Entry(h, n)]
    BY <1>a DEF AllAreSequences, TranscriptIsSequence
  <2> QED  BY <1>4, <1>5, <2>1, <2>2
<1>7. Transcript(g)' = Append(old, new)
  <2>1. /\ old = [n \in 1..(next - 1) |-> Entry(g, n)]
        /\ old \in Seq(Entries) /\ Len(old) = next - 1
        /\ Transcript(g)' \in Seq(Entries)'
        /\ Transcript(g)' = [n \in 1..(NextSequence(g)' - 1) |-> Entry(g, n)']
        /\ Len(Transcript(g)') = NextSequence(g)' - 1
    BY <1>0, <1>1, <1>a, <1>b DEF AllAreSequences, TranscriptIsSequence
  <2>2. Entry(g, next)' = new
    <3>1. message'[<<g, next>>].event = e /\ event'[e].kind = kind
      BY <1>2
    <3> QED  BY <3>1 DEF Entry
  <2>3. \A n \in 1..(next - 1) : Entry(g, n)' = old[n]
    BY <1>0, <1>1, <1>4, <2>1
  <2>4. next \in Nat \ {0} /\ NextSequence(g)' = next + 1
    BY <1>1, <1>2
  <2>5. Transcript(g)' \in Seq(Entries)
    BY <2>1 DEF Entries, EventIds, StopEvent
  <2> HIDE DEF new, old
  <2>6. Transcript(g)' = [n \in 1..next |-> Entry(g, n)'] /\ Len(Transcript(g)') = next
    BY <2>1, <2>4
  <2>7. /\ Append(old, new) \in Seq(Entries)
        /\ Len(Append(old, new)) = next
        /\ \A n \in 1..(next - 1) : Append(old, new)[n] = old[n]
        /\ Append(old, new)[next] = new
    <3>1. /\ Append(old, new) \in Seq(Entries)
          /\ Len(Append(old, new)) = Len(old) + 1
          /\ \A n \in 1..Len(old) : Append(old, new)[n] = old[n]
          /\ Append(old, new)[Len(old) + 1] = new
      BY <1>3, <2>1
    <3> QED  BY <2>1, <2>4, <3>1
  <2>8. ASSUME NEW n \in 1..next
        PROVE  Transcript(g)'[n] = Append(old, new)[n]
    <3>1. CASE n = next
      BY <2>2, <2>6, <2>7, <3>1
    <3>2. CASE n # next
      <4>1. n \in 1..(next - 1)
        BY <2>4, <3>2
      <4> QED  BY <2>3, <2>6, <2>7, <4>1
    <3> QED  BY <3>1, <3>2
  <2> QED
    BY <2>5, <2>6, <2>7, <2>8, SeqEqual
<1>8. Logs' = [Logs EXCEPT ![g] = Append(@, new)]
  BY <1>1, <1>6, <1>7 DEF Logs
<1>9. ASSUME NEW h \in Generations, NEW n \in DOMAIN Logs[h]
      PROVE  Logs[h][n].event # e
  <2>1. Logs[h] = [i \in 1..(NextSequence(h) - 1) |-> Entry(h, i)]
    BY <1>a DEF AllAreSequences, Logs, TranscriptIsSequence
  <2> QED  BY <1>4, <2>1
<1> QED
  BY <1>1, <1>8, <1>9

\* Each kind of step is a step of the transcript log, or leaves it alone.
LEMMA LogStepIsAbstract ==
  ASSUME SessionInv, SessionInv', TranscriptInv, TranscriptInv', LogStep
  PROVE  [Log!LogNext]_(Log!logVars)
<1>1. ASSUME Still
      PROVE  Logs' = Logs
  BY <1>1, StillTranscripts DEF Logs
<1>2. ASSUME NEW g, NEW e, NEW kind, NEW author, Grows(g, e, kind, author)
      PROVE  Log!Add(g, e, kind)
  <2>1. /\ g \in Generations
        /\ Logs' = [Logs EXCEPT ![g] = Append(@, [event |-> e, kind |-> kind])]
        /\ \A h \in Generations : \A n \in DOMAIN Logs[h] : Logs[h][n].event # e
    BY <1>2, GrownLog
  <2> QED  BY <2>1 DEF Log!Add, Log!IsLogged, Logs
<1>3. CASE StutterStep
  BY <1>1, <1>3 DEF StutterStep, Log!logVars, Logs, Speaker
<1>4. CASE OpenStep
  <2>1. Log!Open
    BY <1>1, <1>4 DEF OpenStep, Log!Open, Logs, Speaker
  <2> QED  BY <2>1 DEF Log!LogNext
<1>5. CASE FenceStep
  <2>1. StopEvent(Speaker) \in EventIds
    BY <1>5, StopEvents DEF FenceStep
  <2>2. Log!Fence
    <3>1. CASE Still
      BY <1>1, <1>5, <3>1, NoneAssumption DEF FenceStep, Log!Fence, Logs, Speaker
    <3>2. CASE Grows(Speaker, StopEvent(Speaker), "control", None)
      <4>1. Log!Add(Speaker, StopEvent(Speaker), "control")
        BY <1>2, <3>2
      <4> QED
        BY <1>5, <2>1, <4>1, NoneAssumption DEF FenceStep, Log!Fence, Speaker
    <3> QED  BY <1>5, <3>1, <3>2 DEF FenceStep
  <2> QED  BY <2>2 DEF Log!LogNext
<1>6. ASSUME NEW e \in Events, NEW author, SpeakStep(e, author)
      PROVE  Log!LogNext
  <2>1. Log!Add(Speaker, e, "message")
    BY <1>2, <1>6 DEF SpeakStep
  <2>2. Log!Speak(e)
    BY <1>6, <2>1, NoneAssumption DEF SpeakStep, Log!Speak, Speaker
  <2> QED  BY <2>2 DEF Log!LogNext, EventIds
<1>7. ASSUME NEW e \in Events, NoticeStep(e)
      PROVE  Log!LogNext
  <2>1. Log!Notice(e)
    <3>1. CASE Grows(generation, e, "control", None) /\ UNCHANGED <<generation, Speaker>>
      BY <1>2, <3>1 DEF Log!Notice, Speaker
    <3>2. CASE /\ Grows(generation + 1, e, "control", None)
               /\ generation' = generation + 1
               /\ Speaker = None
               /\ UNCHANGED Speaker
      BY <1>2, <3>2 DEF Log!Notice, Speaker
    <3> QED  BY <1>7, <3>1, <3>2 DEF NoticeStep
  <2> QED  BY <2>1 DEF Log!LogNext, EventIds
<1> QED
  BY <1>3, <1>4, <1>5, <1>6, <1>7 DEF LogStep

\* The Registrar implements the transcript log for every set of sessions, events and
\* critics: whatever its operations write is one entry at the end of one log, the opening
\* of a newer generation, a fence, or nothing.
THEOREM RegistrarImplementsLog == Spec => ImplementsTranscriptLog
<1>1. Init => Log!LogInit
  <2> SUFFICES ASSUME Init
               PROVE  Log!LogInit
    OBVIOUS
  <2>1. ASSUME NEW g \in Generations
        PROVE  Transcript(g) = <<>>
    <3>1. NextSequence(g) = 1 /\ DOMAIN message = {}
      BY DEF Init, NoRows, NextSequence, GetOr
    <3>2. 1..(NextSequence(g) - 1) \cup {n \in Numbers : <<g, n>> \in DOMAIN message} = {}
      BY <3>1
    <3> QED  BY <3>2 DEF Transcript
  <2> QED
    BY <2>1 DEF Init, Log!LogInit
<1>2. SessionInv /\ SessionInv' /\ TranscriptInv /\ TranscriptInv' /\ [Next]_vars
        => [Log!LogNext]_(Log!logVars)
  BY LogSteps, LogStepIsAbstract
<1> QED
  BY <1>1, <1>2, SessionInvariant, TranscriptInvariant, PTL
  DEF Spec, ImplementsTranscriptLog, Log!LogSpec

-----------------------------------------------------------------------------
(***************************************************************************)
(* The second part: the consultation service that calls the Registrar, for *)
(* all values of its constants.  What it does to the Registrar's rows,     *)
(* what a finished request has behind it, and who holds the leadership     *)
(* lock.                                                                   *)
(***************************************************************************)

USE DEF Requests

(***************************************************************************)
(* The inductive invariant.  It says, for each step a call can be at, what *)
(* the copy of the record it holds is worth: where it writes that copy     *)
(* back as finished, the rows already bear it out.                         *)
(***************************************************************************)

\* An answer to request r is in the transcript of generation g, ...
HasAnswer(r, g) ==
  \E body \in Bodies : /\ Answer(r, body) \in DOMAIN event
                       /\ event[Answer(r, body)].message.generation = g

\* ... and that session was closed, and never stopped.
IsPublished(r, g) ==
  /\ HasAnswer(r, g)
  /\ g \in DOMAIN session
  /\ session[g].phase = "closed" /\ ~session[g].stopped

IsFenced(g) == g # 0 => session[g].phase # "active"

HasSession(record) == record.generation # 0 => record.generation \in DOMAIN session

RecordOK(r, record) ==
  /\ HasSession(record)
  /\ record.status = "completed" => IsPublished(r, record.generation)
  /\ faults = 0 /\ Finished(record.status) => IsFenced(record.generation)

\* Before its session is started a request has no generation, and no record
\* before the first one is saved.
Unsaved == {"admit", "check", "lead", "save"}
Unstarted == Unsaved \cup {"prepare", "start"}
Executing == {"begin", "plan", "enlist", "publish", "close", "complete"}

CallOK(f, r, record, step) ==
  LET g == record.generation
  IN  /\ HasSession(record)
      /\ step \in Unstarted => g = 0
      /\ step \in {"bind", "launch"} => g # 0
      /\ step # "read" => r \in Requests
      /\ step \notin Unsaved \cup {"read"} => r \in DOMAIN request
      /\ step \in Executing => g # 0 /\ f = Run(g)
      /\ step = "close" => HasAnswer(r, g)
      /\ step = "complete" => IsPublished(r, g)
      /\ faults = 0 /\ step \in {"mark", "write"} => IsFenced(g)

\* Only a fail goes on after its execution has given back the lock.
Failing == {"fail", "fence", "mark"}

CallRecord ==
  {call \in [request : Requests \cup {None}, record : Records, step : Steps,
              aborted : BOOLEAN, released : BOOLEAN] :
     call.released => call.step \in Failing}

RequestsOK ==
  /\ request \in [DOMAIN request -> Records] /\ DOMAIN request \subseteq Requests
  /\ activeRequest = None \/ activeRequest \in DOMAIN request
  /\ \A r \in DOMAIN request : RecordOK(r, request[r])

FlowsOK ==
  /\ flow \in [DOMAIN flow -> CallRecord]
  /\ \A f \in DOMAIN flow : CallOK(f, flow[f].request, flow[f].record, flow[f].step)

\* The steps of a call that holds the leadership lock, or lets it go, ...
Holding == Steps \ {"admit", "check", "lead", "abort", "halt", "write", "read"}

\* ... unless it already has.
Holds(call) == call.step \in Holding /\ ~call.released

LockInv ==
  /\ locked => \E f \in DOMAIN flow : Holds(flow[f])
  /\ ~up => flow = NoRows /\ ~locked

ServiceInv ==
  /\ SessionInv
  /\ task = NoRows
  /\ RequestsOK
  /\ FlowsOK
  /\ LockInv
  /\ faults \in Nat

-----------------------------------------------------------------------------
(***************************************************************************)
(* What the service asks of the Registrar, and what that leaves alone.     *)
(***************************************************************************)
PublishesAnswer(g, r, body) ==
  AppendMessage(g, Answer(r, body), None) /\ UNCHANGED <<generation, revision, criticVars, task>>

RegistrarCall ==
  \/ UNCHANGED vars
  \/ \E r \in Requests, p \in Providers : StartSession(r, p)
  \/ \E g \in Generations, r \in Requests, body \in Bodies : PublishesAnswer(g, r, body)
  \/ \E g \in Generations : CloseSession(g) \/ StopSession(g, FALSE)

\* Each of these calls is a step of the Registrar, and binds no task.
LEMMA CallsAreSteps ==
  ASSUME SessionInv, task = NoRows, RegistrarCall
  PROVE  [Next]_vars /\ task' = NoRows
<1>0. generation \in Nat
  BY BoundAssumption DEF SessionInv, TypeOK, SessionTypeOK
<1>1. CASE UNCHANGED vars
  BY <1>1 DEF vars
<1>2. ASSUME NEW r \in Requests, NEW p \in Providers, StartSession(r, p)
      PROVE  [Next]_vars /\ task' = NoRows
  <2>1. Next
    BY <1>2 DEF Next
  <2>2. UNCHANGED task
    BY <1>2 DEF StartSession
  <2> QED  BY <2>1, <2>2
<1>3. ASSUME NEW g \in Generations, NEW r \in Requests, NEW body \in Bodies,
             PublishesAnswer(g, r, body)
      PROVE  [Next]_vars /\ task' = NoRows
  <2>1. g \in Known
    BY <1>0, <1>3 DEF PublishesAnswer, AppendMessage, IsCurrent, Known, SessionInv, LatestIsActive
  <2>2. g \notin DOMAIN task /\ Answer(r, body) \in Events
    BY <1>3, AnswerAssumption DEF NoRows, Requests, Answer
  <2>3. AppendConfirmedMessage(g, Answer(r, body), None)
    BY <1>3, <2>2 DEF AppendConfirmedMessage, PublishesAnswer
  <2> QED
    BY <1>3, <2>1, <2>2, <2>3 DEF Next, PublishesAnswer
<1>4. ASSUME NEW g \in Generations, CloseSession(g) \/ StopSession(g, FALSE)
      PROVE  [Next]_vars /\ task' = NoRows
  <2>1. g \in Known
    BY <1>0, <1>4 DEF CloseSession, StopSession, IsCurrent, Known, SessionInv, LatestIsActive
  <2> QED
    BY <1>4, <2>1 DEF Next, CloseSession, StopSession
<1> QED
  BY <1>1, <1>2, <1>3, <1>4 DEF RegistrarCall

RowsStay ==
  /\ DOMAIN session \subseteq DOMAIN session'
  /\ \A g \in DOMAIN session : session[g].phase # "active" => session'[g] = session[g]
  /\ \A e \in DOMAIN event : e \in DOMAIN event' /\ event'[e] = event[e]

\* A call changes no fenced session and no event that is there.
LEMMA CallsKeepRows ==
  ASSUME SessionInv, RegistrarCall
  PROVE  RowsStay
<1>1. CASE UNCHANGED vars
  BY <1>1 DEF vars, RowsStay
<1>2. ASSUME NEW r \in Requests, NEW p \in Providers, StartSession(r, p)
      PROVE  RowsStay
  <2>1. UNCHANGED event
    BY <1>2 DEF StartSession, transcriptVars
  <2>2. session' = Put(session, generation + 1, NewSession(generation + 1, r, p, 0))
    BY <1>2 DEF StartSession, Create
  <2>3. generation + 1 \notin DOMAIN session
    BY BoundAssumption DEF SessionInv, EarlierAreFenced, TypeOK, SessionTypeOK
  <2> QED
    BY <2>1, <2>2, <2>3 DEF RowsStay, Put
<1>3. ASSUME active # None, active.phase = "active", NEW u, u.generation = active.generation,
             WriteActive(u),
             \A e \in DOMAIN event : e \in DOMAIN event' /\ event'[e] = event[e]
      PROVE  RowsStay
  <2>1. session' = Put(session, generation, u) /\ session[generation].phase = "active"
    BY <1>3 DEF WriteActive, SessionInv, LatestIsActive
  <2> QED
    BY <1>3, <2>1 DEF RowsStay, Put
<1>4. active # None => active \in SessionRecord
  BY DEF SessionInv, TypeOK, SessionTypeOK
<1>5. ASSUME NEW g \in Generations, NEW r \in Requests, NEW body \in Bodies,
             PublishesAnswer(g, r, body)
      PROVE  RowsStay
  <2>1. active # None /\ active.phase = "active"
    BY <1>5 DEF PublishesAnswer, AppendMessage, IsCurrent
  <2>2. WriteActive([active EXCEPT !.nextSequence = @ + 1])
    BY <1>5 DEF PublishesAnswer, AppendMessage
  <2>3. [active EXCEPT !.nextSequence = @ + 1].generation = active.generation
    BY <1>4, <2>1 DEF SessionRecord
  <2>4. \A e \in DOMAIN event : e \in DOMAIN event' /\ event'[e] = event[e]
    BY <1>5 DEF PublishesAnswer, AppendMessage, WriteMessage, Put
  <2> QED
    BY <1>3, <2>1, <2>2, <2>3, <2>4
<1>6. ASSUME NEW g \in Generations, CloseSession(g)
      PROVE  RowsStay
  <2>1. active # None /\ active.phase = "active" /\ WriteActive(Closed(active)) /\ UNCHANGED event
    BY <1>6 DEF CloseSession, IsCurrent, transcriptVars
  <2>2. Closed(active).generation = active.generation
    BY <1>4, <2>1 DEF SessionRecord, Closed
  <2> QED
    BY <1>3, <2>1, <2>2
<1>7. ASSUME NEW g \in Generations, StopSession(g, FALSE)
      PROVE  RowsStay
  <2>1. active # None /\ active.phase = "active" /\ WriteActive(Stopped(active)) /\ UNCHANGED event
    BY <1>7 DEF StopSession, IsCurrent
  <2>2. Stopped(active).generation = active.generation
    BY <1>4, <2>1 DEF SessionRecord, Stopped
  <2> QED
    BY <1>3, <2>1, <2>2
<1> QED
  BY <1>1, <1>2, <1>5, <1>6, <1>7 DEF RegistrarCall

-----------------------------------------------------------------------------
(***************************************************************************)
(* What a step leaves behind: rows stay, records stay, and a call that     *)
(* rejected is not forgotten.  What was good of a record or a call then    *)
(* stays good.                                                             *)
(***************************************************************************)
Leaves ==
  /\ RowsStay
  /\ DOMAIN request \subseteq DOMAIN request'
  /\ faults' = 0 => faults = 0

\* What a record is worth outlives every step that only adds to the rows.
LEMMA RecordKept ==
  ASSUME Leaves, NEW r, NEW record, RecordOK(r, record)
  PROVE  RecordOK(r, record)'
  BY DEF Leaves, RowsStay, RecordOK, HasSession, IsPublished, HasAnswer, IsFenced

\* So does what a call in flight is worth.
LEMMA CallKept ==
  ASSUME Leaves, NEW f, NEW r, NEW record, NEW step, CallOK(f, r, record, step)
  PROVE  CallOK(f, r, record, step)'
  BY DEF Leaves, RowsStay, CallOK, HasSession, IsPublished, HasAnswer, IsFenced

\* Nothing is written to the database: the records stay good.
LEMMA RequestsKept ==
  ASSUME RequestsOK, RowsStay, UNCHANGED durableVars, faults' = 0 => faults = 0
  PROVE  Leaves /\ RequestsOK'
<1>1. Leaves
  BY DEF Leaves, durableVars
<1>2. \A r \in DOMAIN request : RecordOK(r, request[r])'
  BY <1>1, RecordKept DEF RequestsOK, durableVars
<1> QED
  BY <1>1, <1>2 DEF RequestsOK, durableVars

\* A record is written.
LEMMA SaveKept ==
  ASSUME RequestsOK, RowsStay, faults' = 0 => faults = 0,
         NEW r \in Requests, NEW record \in Records, Save(r, record),
         Leaves => RecordOK(r, record)'
  PROVE  Leaves /\ RequestsOK' /\ r \in DOMAIN request'
<1>1. request' = Put(request, r, record)
  BY DEF Save
<1>2. /\ DOMAIN request' = DOMAIN request \cup {r}
      /\ request'[r] = record
      /\ \A q \in DOMAIN request : q # r => request'[q] = request[q]
  BY <1>1 DEF Put
<1>3. Leaves
  BY <1>2 DEF Leaves
<1>4. request' \in [DOMAIN request' -> Records]
  BY <1>1, <1>2 DEF Put, RequestsOK
<1>5. \A q \in DOMAIN request' : RecordOK(q, request[q])'
  BY <1>2, <1>3, RecordKept DEF RequestsOK
<1>6. activeRequest' = None \/ activeRequest' \in DOMAIN request'
  BY <1>2 DEF Save
<1> QED
  BY <1>2, <1>3, <1>4, <1>5, <1>6 DEF RequestsOK

\* A call that is there and goes on unchanged stays good.
LEMMA OthersKept ==
  ASSUME FlowsOK, Leaves, NEW f \in DOMAIN flow, NEW call, call = flow'[f],
         /\ call.request = flow[f].request
         /\ call.record = flow[f].record
         /\ call.step = flow[f].step
  PROVE  CallOK(f, flow[f].request, flow[f].record, flow[f].step)'
<1>1. CallOK(f, call.request, call.record, call.step)
  BY DEF FlowsOK
<1> QED
  BY <1>1, CallKept

\* A call goes on to its next step.
LEMMA MoveKept ==
  ASSUME FlowsOK, Leaves, NEW f \in DOMAIN flow, NEW call \in CallRecord,
         flow' = [flow EXCEPT ![f] = call],
         CallOK(f, call.request, call.record, call.step)'
  PROVE  FlowsOK'
<1>1. /\ DOMAIN flow' = DOMAIN flow
      /\ flow'[f] = call
      /\ \A g \in DOMAIN flow : g # f => flow'[g] = flow[g]
  OBVIOUS
<1>2. flow' \in [DOMAIN flow' -> CallRecord]
  BY DEF FlowsOK
<1>3. \A g \in DOMAIN flow' : CallOK(g, flow[g].request, flow[g].record, flow[g].step)'
  BY <1>1, OthersKept
<1> QED
  BY <1>2, <1>3 DEF FlowsOK

\* A call returns.
LEMMA EndKept ==
  ASSUME FlowsOK, Leaves, NEW f, End(f)
  PROVE  FlowsOK'
<1>1. /\ DOMAIN flow' = DOMAIN flow \ {f}
      /\ \A g \in DOMAIN flow' : flow'[g] = flow[g]
  BY DEF End, Without
<1>2. flow' \in [DOMAIN flow' -> CallRecord]
  BY DEF FlowsOK, End, Without
<1>3. \A g \in DOMAIN flow' : CallOK(g, flow[g].request, flow[g].record, flow[g].step)'
  BY <1>1, OthersKept
<1> QED
  BY <1>2, <1>3 DEF FlowsOK

\* A call begins, or an execution takes over from its submission.
LEMMA BeginKept ==
  ASSUME FlowsOK, Leaves, NEW rows, NEW f, NEW call \in CallRecord,
         \/ rows = flow
         \/ \E h : rows = Without(flow, h),
         flow' = Put(rows, f, call),
         CallOK(f, call.request, call.record, call.step)'
  PROVE  FlowsOK'
<1>1. /\ DOMAIN rows \subseteq DOMAIN flow
      /\ \A g \in DOMAIN rows : rows[g] = flow[g]
  BY DEF Without
<1>2. /\ DOMAIN flow' = DOMAIN rows \cup {f}
      /\ flow'[f] = call
      /\ \A g \in DOMAIN rows : g # f => flow'[g] = flow[g]
  BY <1>1 DEF Put
<1>3. flow' \in [DOMAIN flow' -> CallRecord]
  BY <1>1, <1>2 DEF FlowsOK, Put
<1>4. \A g \in DOMAIN flow' : CallOK(g, flow[g].request, flow[g].record, flow[g].step)'
  BY <1>1, <1>2, OthersKept
<1> QED
  BY <1>3, <1>4 DEF FlowsOK

\* The controllers of executions are aborted.
LEMMA AbortKept ==
  ASSUME FlowsOK, Leaves, NEW executions, flow' = Abort(executions)
  PROVE  FlowsOK'
<1>1. ASSUME NEW f \in DOMAIN flow
      PROVE  /\ flow'[f] \in CallRecord
             /\ flow'[f].request = flow[f].request
             /\ flow'[f].record = flow[f].record
             /\ flow'[f].step = flow[f].step
  <2>1. flow[f] \in CallRecord
    BY DEF FlowsOK
  <2> QED
    BY <2>1 DEF Abort, CallRecord
<1>2. DOMAIN flow' = DOMAIN flow
  BY DEF Abort
<1>3. flow' \in [DOMAIN flow' -> CallRecord]
  BY <1>1, <1>2 DEF Abort
<1>4. \A f \in DOMAIN flow' : CallOK(f, flow[f].request, flow[f].record, flow[f].step)'
  BY <1>1, <1>2, OthersKept
<1> QED
  BY <1>3, <1>4 DEF FlowsOK

-----------------------------------------------------------------------------
(***************************************************************************)
(* The three ways in which the code between two awaits ends.               *)
(***************************************************************************)
StepOK ==
  /\ RegistrarCall
  /\ RequestsOK'
  /\ FlowsOK'
  /\ LockInv'
  /\ faults' \in Nat

\* What is known of a call that is about to take a step.
LEMMA AtStep ==
  ASSUME FlowsOK, NEW f, NEW step, At(f, step)
  PROVE  \E r \in Requests \cup {None}, record \in Records :
           /\ f \in DOMAIN flow /\ flow[f] \in CallRecord
           /\ flow[f].request = r /\ flow[f].record = record /\ flow[f].step = step
           /\ CallOK(f, r, record, step)
<1>1. f \in DOMAIN flow /\ flow[f] \in CallRecord /\ flow[f].step = step
  BY DEF At, FlowsOK
<1>2. flow[f].request \in Requests \cup {None} /\ flow[f].record \in Records
  BY <1>1 DEF CallRecord
<1> QED
  BY <1>1, <1>2 DEF FlowsOK

\* Nothing but the memory of the process changes.
LEMMA Quietly ==
  ASSUME ServiceInv, UNCHANGED vars, UNCHANGED durableVars, faults' \in {faults, faults + 1}
  PROVE  RegistrarCall /\ Leaves /\ RequestsOK' /\ faults' \in Nat
<1>1. RegistrarCall
  BY DEF RegistrarCall
<1>2. RowsStay
  BY <1>1, CallsKeepRows DEF ServiceInv
<1>3. faults' \in Nat /\ (faults' = 0 => faults = 0)
  BY DEF ServiceInv
<1> QED
  BY <1>1, <1>2, <1>3, RequestsKept DEF ServiceInv

\* A call to the Registrar is made, and no record written.
LEMMA Calling ==
  ASSUME ServiceInv, RegistrarCall, UNCHANGED durableVars, UNCHANGED faults
  PROVE  Leaves /\ RequestsOK' /\ faults' \in Nat
<1>1. RowsStay
  BY CallsKeepRows DEF ServiceInv
<1>2. faults' \in Nat /\ (faults' = 0 => faults = 0)
  BY DEF ServiceInv
<1> QED
  BY <1>1, <1>2, RequestsKept DEF ServiceInv

\* A record is written that is not finished, or whose session is fenced, or
\* has its answer.
LEMMA Saving ==
  ASSUME ServiceInv, UNCHANGED vars, UNCHANGED faults, NEW r \in Requests, NEW record \in Records,
         Save(r, record), RecordOK(r, record)
  PROVE  RegistrarCall /\ Leaves /\ RequestsOK' /\ r \in DOMAIN request' /\ faults' \in Nat
<1>1. RegistrarCall
  BY DEF RegistrarCall
<1>2. RowsStay
  BY <1>1, CallsKeepRows DEF ServiceInv
<1>3. faults' \in Nat /\ (faults' = 0 => faults = 0)
  BY DEF ServiceInv
<1>4. Leaves => RecordOK(r, record)'
  BY RecordKept
<1> QED
  BY <1>1, <1>2, <1>3, <1>4, SaveKept DEF ServiceInv

\* The call goes on: what its next step needs is there, and the lock stays with
\* a call that holds it.
LEMMA GoesOn ==
  ASSUME ServiceInv, Leaves, UNCHANGED up, NEW f \in DOMAIN flow,
         NEW r, r = flow[f].request, NEW record \in Records, NEW step \in Steps,
         NEW from, from = flow[f].step,
         \/ Goto(f, step) /\ record = flow[f].record
         \/ GotoHolding(f, step, record),
         CallOK(f, r, record, step)',
         from \in Holding => step \in Holding,
         from \in Failing => step \in Failing \/ ~flow[f].released,
         locked' => locked \/ (step \in Holding /\ from \notin Failing)
  PROVE  FlowsOK' /\ LockInv'
<1>1. flow[f] \in CallRecord
  BY DEF ServiceInv, FlowsOK
<1>2. PICK call \in CallRecord :
        /\ flow' = [flow EXCEPT ![f] = call]
        /\ call.request = r /\ call.record = record /\ call.step = step
        /\ call.released = flow[f].released
  <2>1. CASE Goto(f, step) /\ record = flow[f].record
    <3>1. [flow[f] EXCEPT !.step = step] \in CallRecord
      BY <1>1 DEF CallRecord
    <3>2. flow' = [flow EXCEPT ![f] = [flow[f] EXCEPT !.step = step]]
      BY <2>1 DEF Goto
    <3> QED
      BY <1>1, <2>1, <3>1, <3>2 DEF CallRecord
  <2>2. CASE GotoHolding(f, step, record)
    <3> DEFINE call == [flow[f] EXCEPT !.step = step, !.record = record]
    <3>1. /\ call \in CallRecord /\ call.request = r /\ call.record = record
          /\ call.step = step /\ call.released = flow[f].released
      BY <1>1 DEF CallRecord
    <3>2. flow' = [flow EXCEPT ![f] = call]
      BY <1>1, <2>2 DEF GotoHolding, CallRecord
    <3> QED
      BY <3>1, <3>2
  <2> QED  BY <2>1, <2>2
<1>3. FlowsOK'
  BY <1>2, MoveKept DEF ServiceInv
<1>4. /\ DOMAIN flow' = DOMAIN flow
      /\ flow'[f] = call
      /\ \A g \in DOMAIN flow : g # f => flow'[g] = flow[g]
  BY <1>2
<1>5. up /\ up'
  BY DEF ServiceInv, LockInv, NoRows
<1>6. ASSUME locked'
      PROVE  \E g \in DOMAIN flow' : Holds(flow'[g])
  <2>1. CASE step \in Holding /\ ~flow[f].released
    BY <1>2, <1>4, <2>1 DEF Holds
  <2>2. CASE ~(step \in Holding /\ ~flow[f].released)
    <3>1. locked
      BY <1>1, <1>6, <2>2 DEF CallRecord
    <3>2. PICK g \in DOMAIN flow : Holds(flow[g])
      BY <3>1 DEF ServiceInv, LockInv
    <3>3. g # f
      BY <2>2, <3>2 DEF Holds
    <3> QED  BY <1>4, <3>2, <3>3
  <2> QED  BY <2>1, <2>2
<1> QED
  BY <1>3, <1>5, <1>6 DEF LockInv

\* The call returns, and if it held the lock it lets it go.
LEMMA Returns ==
  ASSUME ServiceInv, Leaves, UNCHANGED up, NEW f \in DOMAIN flow, End(f),
         locked' => locked /\ (flow[f].step \notin Holding \/ flow[f].released)
  PROVE  FlowsOK' /\ LockInv'
<1>1. FlowsOK'
  BY EndKept DEF ServiceInv
<1>2. up /\ up'
  BY DEF ServiceInv, LockInv, NoRows
<1>3. ASSUME locked'
      PROVE  \E g \in DOMAIN flow' : Holds(flow'[g])
  <2>1. PICK g \in DOMAIN flow : Holds(flow[g])
    BY <1>3 DEF ServiceInv, LockInv
  <2>2. g # f
    BY <1>3, <2>1 DEF Holds
  <2> QED
    BY <2>1, <2>2 DEF End, Without
<1> QED
  BY <1>1, <1>2, <1>3 DEF LockInv

\* A call begins.
LEMMA BeginsOK ==
  ASSUME ServiceInv, Leaves, NEW f, f \notin DOMAIN flow, NEW call \in CallRecord,
         flow' = Put(flow, f, call),
         CallOK(f, call.request, call.record, call.step)',
         UNCHANGED locked, up'
  PROVE  FlowsOK' /\ LockInv'
<1>1. FlowsOK'
  BY BeginKept DEF ServiceInv
<1>2. ASSUME locked'
      PROVE  \E g \in DOMAIN flow' : Holds(flow'[g])
  <2>1. PICK g \in DOMAIN flow : Holds(flow[g])
    BY <1>2 DEF ServiceInv, LockInv
  <2> QED
    BY <2>1 DEF Put
<1> QED
  BY <1>1, <1>2 DEF LockInv

-----------------------------------------------------------------------------
(***************************************************************************)
(* The steps of a submission.                                              *)
(***************************************************************************)
\* A request that has no session is refused: its record names none.
LEMMA RejectStep ==
  ASSUME ServiceInv, UNCHANGED vars, NEW h \in DOMAIN flow, NEW r \in Requests, NEW record \in Records,
         flow[h].request = r, flow[h].record = record, record.generation = 0,
         Reject(h)
  PROVE  StepOK
<1> DEFINE failed == [record EXCEPT !.status = "failed"]
<1>1. failed \in Records /\ failed.generation = 0 /\ failed.status = "failed"
  BY DEF Records, Statuses
<1> HIDE DEF failed
<1>2. RecordOK(r, failed)
  BY <1>1 DEF RecordOK, HasSession, IsFenced
<1>3. Save(r, failed)
  BY DEF Reject, Update, failed
<1>4. UNCHANGED <<faults, up>> /\ locked' = FALSE /\ End(h)
  BY DEF Reject
<1>5. RegistrarCall /\ Leaves /\ RequestsOK' /\ faults' \in Nat
  BY <1>1, <1>2, <1>3, <1>4, Saving
<1>6. FlowsOK' /\ LockInv'
  BY <1>4, <1>5, Returns
<1> QED
  BY <1>5, <1>6 DEF StepOK

\* The steps of a submission, from its admission to the start of the session.
LEMMA SubmitStepsOK ==
  ASSUME ServiceInv, NEW h \in Handlers, SubmitSteps(h)
  PROVE  StepOK
<1> USE DEF Unsaved, Unstarted, Executing, Failing, Holding, Steps
<1>1. ASSUME SubmitAdmits(h)
      PROVE  StepOK
  <2>0. At(h, "admit") /\ UNCHANGED <<vars, durableVars, locked, up, faults>>
    BY <1>1 DEF SubmitAdmits
  <2>1. PICK r \in Requests \cup {None}, record \in Records :
          /\ h \in DOMAIN flow /\ flow[h].request = r /\ flow[h].record = record
          /\ flow[h].step = "admit" /\ CallOK(h, r, record, "admit")
    BY <2>0, AtStep DEF ServiceInv
  <2>2. RegistrarCall /\ Leaves /\ RequestsOK' /\ faults' \in Nat
    BY <2>0, Quietly
  <2>3. FlowsOK' /\ LockInv'
    <3>1. CASE End(h)
      BY <2>0, <2>1, <2>2, <3>1, Returns
    <3>2. CASE Goto(h, "check")
      <4>1. CallOK(h, r, record, "check")'
        BY <2>1, <2>2, CallKept DEF CallOK
      <4> QED
        BY <2>0, <2>1, <2>2, <3>2, <4>1, GoesOn
    <3> QED
      BY <1>1, <3>1, <3>2 DEF SubmitAdmits
  <2> QED
    BY <2>2, <2>3 DEF StepOK
<1>2. ASSUME SubmitChecks(h)
      PROVE  StepOK
  <2>0. At(h, "check") /\ UNCHANGED <<vars, durableVars, locked, up, faults>>
    BY <1>2 DEF SubmitChecks
  <2>1. PICK r \in Requests \cup {None}, record \in Records :
          /\ h \in DOMAIN flow /\ flow[h].request = r /\ flow[h].record = record
          /\ flow[h].step = "check" /\ CallOK(h, r, record, "check")
    BY <2>0, AtStep DEF ServiceInv
  <2>2. RegistrarCall /\ Leaves /\ RequestsOK' /\ faults' \in Nat
    BY <2>0, Quietly
  <2>3. FlowsOK' /\ LockInv'
    <3>1. CASE End(h)
      BY <2>0, <2>1, <2>2, <3>1, Returns
    <3>2. CASE Goto(h, "lead")
      <4>1. CallOK(h, r, record, "lead")'
        BY <2>1, <2>2, CallKept DEF CallOK
      <4> QED
        BY <2>0, <2>1, <2>2, <3>2, <4>1, GoesOn
    <3> QED
      BY <1>2, <3>1, <3>2 DEF SubmitChecks
  <2> QED
    BY <2>2, <2>3 DEF StepOK
<1>3. ASSUME SubmitLeads(h)
      PROVE  StepOK
  <2>0. At(h, "lead") /\ UNCHANGED <<vars, durableVars, up, faults>>
    BY <1>3 DEF SubmitLeads
  <2>1. PICK r \in Requests \cup {None}, record \in Records :
          /\ h \in DOMAIN flow /\ flow[h].request = r /\ flow[h].record = record
          /\ flow[h].step = "lead" /\ CallOK(h, r, record, "lead")
    BY <2>0, AtStep DEF ServiceInv
  <2>2. RegistrarCall /\ Leaves /\ RequestsOK' /\ faults' \in Nat
    BY <2>0, Quietly
  <2>3. FlowsOK' /\ LockInv'
    <3>1. CASE End(h) /\ UNCHANGED locked
      BY <2>0, <2>1, <2>2, <3>1, Returns
    <3>2. CASE Goto(h, "save")
      <4>1. CallOK(h, r, record, "save")'
        BY <2>1, <2>2, CallKept DEF CallOK
      <4> QED
        BY <2>0, <2>1, <2>2, <3>2, <4>1, GoesOn
    <3> QED
      BY <1>3, <3>1, <3>2 DEF SubmitLeads
  <2> QED
    BY <2>2, <2>3 DEF StepOK
<1>4. ASSUME SubmitSaves(h)
      PROVE  StepOK
  <2>0. /\ At(h, "save") /\ UNCHANGED <<vars, processVars, locked, up, faults>>
        /\ Update(h, "preparing") /\ Goto(h, "prepare")
    BY <1>4 DEF SubmitSaves, processVars
  <2>1. PICK r \in Requests \cup {None}, record \in Records :
          /\ h \in DOMAIN flow /\ flow[h].request = r /\ flow[h].record = record
          /\ flow[h].step = "save" /\ CallOK(h, r, record, "save")
    BY <2>0, AtStep DEF ServiceInv
  <2> DEFINE saved == [record EXCEPT !.status = "preparing"]
  <2>2. /\ saved \in Records /\ saved.generation = record.generation
        /\ saved.status = "preparing"
    BY DEF Records, Statuses
  <2>3. Save(r, saved) /\ r \in Requests
    BY <2>0, <2>1 DEF Update, CallOK
  <2> HIDE DEF saved
  <2>4. RecordOK(r, saved)
    BY <2>1, <2>2 DEF RecordOK, CallOK, HasSession, Finished
  <2>5. RegistrarCall /\ Leaves /\ RequestsOK' /\ r \in DOMAIN request' /\ faults' \in Nat
    BY <2>0, <2>2, <2>3, <2>4, Saving
  <2>6. CallOK(h, r, record, "prepare")'
    BY <2>1, <2>5, CallKept DEF CallOK
  <2>7. FlowsOK' /\ LockInv'
    BY <2>0, <2>1, <2>5, <2>6, GoesOn
  <2> QED
    BY <2>5, <2>7 DEF StepOK
<1>5. ASSUME SubmitPrepares(h)
      PROVE  StepOK
  <2>0. At(h, "prepare") /\ UNCHANGED vars
    BY <1>5 DEF SubmitPrepares
  <2>1. PICK r \in Requests \cup {None}, record \in Records :
          /\ h \in DOMAIN flow /\ flow[h].request = r /\ flow[h].record = record
          /\ flow[h].step = "prepare" /\ CallOK(h, r, record, "prepare")
    BY <2>0, AtStep DEF ServiceInv
  <2>2. CASE Goto(h, "start") /\ UNCHANGED <<durableVars, processVars>>
    <3>0. UNCHANGED durableVars /\ UNCHANGED <<faults, up, locked>>
      BY <2>2 DEF processVars
    <3>1. RegistrarCall /\ Leaves /\ RequestsOK' /\ faults' \in Nat
      BY <2>0, <3>0, Quietly
    <3>2. CallOK(h, r, record, "start")'
      BY <2>1, <3>1, CallKept DEF CallOK
    <3>3. FlowsOK' /\ LockInv'
      BY <2>1, <2>2, <3>0, <3>1, <3>2, GoesOn
    <3> QED
      BY <3>1, <3>3 DEF StepOK
  <2>3. CASE Reject(h)
    <3>1. r \in Requests /\ record.generation = 0
      BY <2>1 DEF CallOK
    <3> QED
      BY <2>0, <2>1, <2>3, <3>1, RejectStep
  <2> QED
    BY <1>5, <2>2, <2>3 DEF SubmitPrepares
<1>6. ASSUME SubmitStarts(h)
      PROVE  StepOK
  <2>0. At(h, "start")
    BY <1>6 DEF SubmitStarts
  <2>1. PICK r \in Requests \cup {None}, record \in Records :
          /\ h \in DOMAIN flow /\ flow[h].request = r /\ flow[h].record = record
          /\ flow[h].step = "start" /\ CallOK(h, r, record, "start")
    BY <2>0, AtStep DEF ServiceInv
  <2>2. r \in Requests /\ r \in DOMAIN request /\ record.generation = 0
    BY <2>1 DEF CallOK
  <2>3. ASSUME NEW g \in Generations, GotoHolding(h, "bind", [record EXCEPT !.generation = g]),
               RegistrarCall, UNCHANGED <<durableVars, processVars>>, g \in DOMAIN session'
        PROVE  StepOK
    <3> DEFINE bound == [record EXCEPT !.generation = g]
    <3>1. bound \in Records /\ bound.generation = g
      BY DEF Records
    <3> HIDE DEF bound
    <3>2. UNCHANGED durableVars /\ UNCHANGED <<faults, up, locked>>
      BY <2>3 DEF processVars
    <3>3. Leaves /\ RequestsOK' /\ faults' \in Nat
      BY <2>3, <3>2, Calling
    <3>4. CallOK(h, r, bound, "bind")'
      BY <2>2, <2>3, <3>1, <3>2, BoundAssumption DEF CallOK, HasSession, durableVars
    <3>5. FlowsOK' /\ LockInv'
      BY <2>1, <2>3, <3>1, <3>2, <3>3, <3>4, GoesOn DEF bound
    <3> QED
      BY <2>3, <3>3, <3>5 DEF StepOK
  <2>4. CASE /\ \E p \in Providers : StartSession(r, p)
             /\ GotoHolding(h, "bind", [record EXCEPT !.generation = generation + 1])
             /\ UNCHANGED <<durableVars, processVars>>
    <3>1. PICK p \in Providers : StartSession(r, p)
      BY <2>4
    <3>2. generation + 1 \in Generations
      BY <3>1, BoundAssumption DEF StartSession, Create, ServiceInv, SessionInv, TypeOK, SessionTypeOK
    <3>3. generation + 1 \in DOMAIN session'
      BY <3>1 DEF StartSession, Create, Put
    <3>4. RegistrarCall
      BY <2>2, <3>1 DEF RegistrarCall
    <3> QED
      BY <2>3, <2>4, <3>2, <3>3, <3>4
  <2>5. CASE /\ active # None
             /\ GotoHolding(h, "bind", [record EXCEPT !.generation = active.generation])
             /\ UNCHANGED <<vars, durableVars, processVars>>
    <3>1. active.generation \in Generations /\ active.generation \in DOMAIN session
      BY <2>5 DEF ServiceInv, SessionInv, LatestIsActive, TypeOK, SessionTypeOK
    <3>2. active.generation \in DOMAIN session'
      BY <2>5, <3>1 DEF vars
    <3>3. RegistrarCall
      BY <2>5 DEF RegistrarCall
    <3> QED
      BY <2>3, <2>5, <3>1, <3>2, <3>3
  <2>6. CASE Reject(h) /\ UNCHANGED vars
    BY <2>1, <2>2, <2>6, RejectStep
  <2> QED
    BY <1>6, <2>1, <2>4, <2>5, <2>6 DEF SubmitStarts
<1>7. ASSUME SubmitBinds(h)
      PROVE  StepOK
  <2>0. /\ At(h, "bind") /\ UNCHANGED <<vars, processVars, locked, up, faults>>
        /\ Update(h, "preparing") /\ Goto(h, "launch")
    BY <1>7 DEF SubmitBinds, processVars
  <2>1. PICK r \in Requests \cup {None}, record \in Records :
          /\ h \in DOMAIN flow /\ flow[h].request = r /\ flow[h].record = record
          /\ flow[h].step = "bind" /\ CallOK(h, r, record, "bind")
    BY <2>0, AtStep DEF ServiceInv
  <2> DEFINE saved == [record EXCEPT !.status = "preparing"]
  <2>2. /\ saved \in Records /\ saved.generation = record.generation
        /\ saved.status = "preparing"
    BY DEF Records, Statuses
  <2>3. Save(r, saved) /\ r \in Requests
    BY <2>0, <2>1 DEF Update, CallOK
  <2> HIDE DEF saved
  <2>4. RecordOK(r, saved)
    BY <2>1, <2>2 DEF RecordOK, CallOK, HasSession, Finished
  <2>5. RegistrarCall /\ Leaves /\ RequestsOK' /\ r \in DOMAIN request' /\ faults' \in Nat
    BY <2>0, <2>2, <2>3, <2>4, Saving
  <2>6. CallOK(h, r, record, "launch")'
    BY <2>1, <2>5, CallKept DEF CallOK
  <2>7. FlowsOK' /\ LockInv'
    BY <2>0, <2>1, <2>5, <2>6, GoesOn
  <2> QED
    BY <2>5, <2>7 DEF StepOK
<1>8. ASSUME SubmitLaunches(h)
      PROVE  StepOK
  <2>0. At(h, "launch") /\ UNCHANGED <<vars, durableVars, locked, up, faults>>
    BY <1>8 DEF SubmitLaunches
  <2>1. PICK r \in Requests \cup {None}, record \in Records :
          /\ h \in DOMAIN flow /\ flow[h].request = r /\ flow[h].record = record
          /\ flow[h].step = "launch" /\ CallOK(h, r, record, "launch")
    BY <2>0, AtStep DEF ServiceInv
  <2> DEFINE g == record.generation
             call == NewFlow(r, record, "begin")
  <2>2. /\ call \in CallRecord
        /\ call.request = r /\ call.record = record /\ call.step = "begin" /\ ~call.released
    BY DEF NewFlow, CallRecord
  <2> HIDE DEF call
  <2>3. RegistrarCall /\ Leaves /\ RequestsOK' /\ faults' \in Nat
    BY <2>0, Quietly
  <2>4. CallOK(Run(g), r, record, "begin")'
    BY <2>1, <2>3, CallKept DEF CallOK
  <2>5. flow' = Put(Without(flow, h), Run(g), call)
    BY <1>8, <2>1 DEF SubmitLaunches, call
  <2>6. FlowsOK'
    BY <2>2, <2>3, <2>4, <2>5, BeginKept DEF ServiceInv
  <2>7. LockInv'
    <3>1. up'
      BY <2>0, <2>1 DEF ServiceInv, LockInv, NoRows
    <3>2. Run(g) \in DOMAIN flow' /\ Holds(flow'[Run(g)])
      BY <2>2, <2>5 DEF Put, Holds
    <3> QED
      BY <3>1, <3>2 DEF LockInv
  <2> QED
    BY <2>3, <2>6, <2>7 DEF StepOK
<1> QED
  BY <1>1, <1>2, <1>3, <1>4, <1>5, <1>6, <1>7, <1>8 DEF SubmitSteps

-----------------------------------------------------------------------------
(***************************************************************************)
(* The way out of a call: the fence, and the record that says so.          *)
(***************************************************************************)
\* A fence is a call to the Registrar after which the generation hears nobody.
LEMMA Fences ==
  ASSUME SessionInv, NEW record \in Records, HasSession(record), FenceSession(record.generation)
  PROVE  RegistrarCall /\ IsFenced(record.generation)'
<1> DEFINE g == record.generation
<1>1. CASE IsCurrent(g, {"active"})
  <2>1. StopSession(g, FALSE) /\ active # None /\ active.generation = g
    BY <1>1 DEF FenceSession, IsCurrent
  <2>2. g \in Generations /\ active \in SessionRecord
    BY <2>1 DEF SessionInv, LatestIsActive, TypeOK, SessionTypeOK
  <2>3. session' = Put(session, g, Stopped(active))
    <3>1. Stopped(active).generation = g
      BY <2>1, <2>2 DEF Stopped, SessionRecord
    <3> QED
      BY <2>1, <3>1 DEF StopSession, WriteActive
  <2>4. session'[g].phase = "stopped"
    BY <2>2, <2>3 DEF Put, Stopped, SessionRecord
  <2> QED
    BY <2>1, <2>2, <2>4 DEF RegistrarCall, IsFenced
<1>2. CASE ~IsCurrent(g, {"active"})
  <2>1. UNCHANGED vars
    BY <1>2 DEF FenceSession
  <2>2. g # 0 => session[g].phase # "active"
    BY <1>2 DEF HasSession, SessionInv, LatestIsActive, EarlierAreFenced, IsCurrent
  <2> QED
    BY <2>1, <2>2 DEF RegistrarCall, IsFenced, vars
<1> QED
  BY <1>1, <1>2

\* The last step of fail: back to its caller, or to nobody.
LEMMA FailEnds ==
  ASSUME ServiceInv, Leaves, UNCHANGED <<up, locked>>, NEW f \in DOMAIN flow,
         NEW r, r = flow[f].request, NEW record \in Records, record = flow[f].record,
         flow[f].step \in Failing,
         FailReturns(f), CallOK(f, r, record, "finish")'
  PROVE  FlowsOK' /\ LockInv'
<1> USE DEF Holding, Steps, Failing
<1>1. CASE flow[f].released /\ End(f)
  BY <1>1, Returns
<1>2. CASE ~flow[f].released /\ Goto(f, "finish")
  BY <1>2, GoesOn
<1> QED
  BY <1>1, <1>2 DEF FailReturns

\* The steps that record a failure and interrupt the session.
LEMMA FailStepsOK ==
  ASSUME ServiceInv, NEW f, FailSteps(f)
  PROVE  StepOK
<1> USE DEF Unsaved, Unstarted, Executing, Failing, Holding, Steps
<1>1. ASSUME FailReads(f)
      PROVE  StepOK
  <2>0. At(f, "fail") /\ UNCHANGED vars /\ UNCHANGED durableVars /\ UNCHANGED <<locked, up, faults>>
    BY <1>1 DEF FailReads, processVars
<2>1. PICK r \in Requests \cup {None}, record \in Records :
          /\ f \in DOMAIN flow /\ flow[f].request = r /\ flow[f].record = record
          /\ flow[f].step = "fail" /\ CallOK(f, r, record, "fail")
    BY <2>0, AtStep DEF ServiceInv
  <2>2. RegistrarCall /\ Leaves /\ RequestsOK' /\ faults' \in Nat
    BY <2>0, Quietly
  <2>3. r \in Requests /\ r \in DOMAIN request
    BY <2>1 DEF CallOK
  <2>4. PICK current \in Records : current = request[r] /\ RecordOK(r, current)
    BY <2>3 DEF ServiceInv, RequestsOK
  <2>5. CASE FailReturns(f)
    <3>1. CallOK(f, r, record, "finish")'
      BY <2>1, <2>2, CallKept DEF CallOK
    <3>2. FlowsOK' /\ LockInv'
      BY <2>0, <2>1, <2>2, <2>5, <3>1, FailEnds
    <3> QED
      BY <2>2, <3>2 DEF StepOK
  <2>6. CASE current.generation = 0 /\ GotoHolding(f, "mark", current)
    <3>1. CallOK(f, r, current, "mark")
      BY <2>3, <2>4, <2>6 DEF CallOK, RecordOK, IsFenced
    <3>2. CallOK(f, r, current, "mark")'
      BY <2>2, <3>1, CallKept
    <3> QED
      BY <2>0, <2>1, <2>2, <2>6, <3>2, GoesOn DEF StepOK
  <2>7. CASE GotoHolding(f, "fence", current)
    <3>1. CallOK(f, r, current, "fence")
      BY <2>3, <2>4 DEF CallOK, RecordOK
    <3>2. CallOK(f, r, current, "fence")'
      BY <2>2, <3>1, CallKept
    <3> QED
      BY <2>0, <2>1, <2>2, <2>7, <3>2, GoesOn DEF StepOK
  <2> QED
    BY <1>1, <2>1, <2>4, <2>5, <2>6, <2>7 DEF FailReads
<1>2. ASSUME FailFences(f)
      PROVE  StepOK
  <2>0. /\ At(f, "fence") /\ UNCHANGED durableVars /\ UNCHANGED <<locked, up, faults>>
        /\ Goto(f, "mark")
    BY <1>2 DEF FailFences, processVars
<2>1. PICK r \in Requests \cup {None}, record \in Records :
          /\ f \in DOMAIN flow /\ flow[f].request = r /\ flow[f].record = record
          /\ flow[f].step = "fence" /\ CallOK(f, r, record, "fence")
    BY <2>0, AtStep DEF ServiceInv
  <2>2. RegistrarCall /\ IsFenced(record.generation)'
    <3>1. HasSession(record) /\ FenceSession(record.generation)
      BY <1>2, <2>1 DEF CallOK, FailFences
    <3> QED
      BY <3>1, Fences DEF ServiceInv
  <2>3. Leaves /\ RequestsOK' /\ faults' \in Nat
    BY <2>0, <2>2, Calling
  <2>4. CallOK(f, r, record, "mark")'
    BY <2>1, <2>2, <2>3, CallKept DEF CallOK
  <2>5. FlowsOK' /\ LockInv'
    BY <2>0, <2>1, <2>3, <2>4, GoesOn
  <2> QED
    BY <2>2, <2>3, <2>5 DEF StepOK
<1>3. ASSUME FailMarks(f)
      PROVE  StepOK
  <2>0. /\ At(f, "mark") /\ UNCHANGED vars /\ UNCHANGED <<locked, up, faults>>
        /\ Update(f, "failed") /\ FailReturns(f)
    BY <1>3 DEF FailMarks, processVars
<2>1. PICK r \in Requests \cup {None}, record \in Records :
          /\ f \in DOMAIN flow /\ flow[f].request = r /\ flow[f].record = record
          /\ flow[f].step = "mark" /\ CallOK(f, r, record, "mark")
    BY <2>0, AtStep DEF ServiceInv
  <2> DEFINE failed == [record EXCEPT !.status = "failed"]
  <2>2. /\ failed \in Records /\ failed.generation = record.generation
        /\ failed.status = "failed"
    BY DEF Records, Statuses
  <2>3. Save(r, failed) /\ r \in Requests
    BY <2>0, <2>1 DEF Update, CallOK
  <2> HIDE DEF failed
  <2>4. RecordOK(r, failed)
    BY <2>1, <2>2 DEF RecordOK, CallOK, HasSession
  <2>5. RegistrarCall /\ Leaves /\ RequestsOK' /\ r \in DOMAIN request' /\ faults' \in Nat
    BY <2>0, <2>2, <2>3, <2>4, Saving
  <2>6. CallOK(f, r, record, "finish")'
    BY <2>1, <2>5, CallKept DEF CallOK
  <2>7. FlowsOK' /\ LockInv'
    BY <2>0, <2>1, <2>5, <2>6, FailEnds
  <2> QED
    BY <2>5, <2>7 DEF StepOK
<1> QED
  BY <1>1, <1>2, <1>3 DEF FailSteps

\* The steps of a stop: abort, fence, and write the record back.
LEMMA StopStepsOK ==
  ASSUME ServiceInv, NEW h \in Handlers, StopSteps(h)
  PROVE  StepOK
<1> USE DEF Unsaved, Unstarted, Executing, Failing, Holding, Steps
<1>1. ASSUME StopAborts(h)
      PROVE  StepOK
  <2>0. At(h, "abort") /\ UNCHANGED vars /\ UNCHANGED durableVars /\ UNCHANGED <<locked, up, faults>>
    BY <1>1 DEF StopAborts, processVars
<2>1. PICK r \in Requests \cup {None}, record \in Records :
          /\ h \in DOMAIN flow /\ flow[h].request = r /\ flow[h].record = record
          /\ flow[h].step = "abort" /\ CallOK(h, r, record, "abort")
    BY <2>0, AtStep DEF ServiceInv
  <2>2. RegistrarCall /\ Leaves /\ RequestsOK' /\ faults' \in Nat
    BY <2>0, Quietly
  <2> DEFINE next == IF record.generation = 0 THEN "write" ELSE "halt"
             executions == IF r \in DOMAIN running THEN {Run(running[r])} ELSE {}
  <2>3. PICK aborted : aborted = Abort(executions)
    OBVIOUS
  <2>4. /\ DOMAIN aborted = DOMAIN flow
        /\ aborted \in [DOMAIN flow -> CallRecord]
        /\ \A j \in DOMAIN flow : /\ aborted[j].request = flow[j].request
                                  /\ aborted[j].record = flow[j].record
                                  /\ aborted[j].step = flow[j].step
                                  /\ aborted[j].released = flow[j].released
    <3>1. \A j \in DOMAIN flow : flow[j] \in CallRecord
      BY DEF ServiceInv, FlowsOK
    <3> HIDE DEF executions
    <3> QED
      BY <2>3, <3>1 DEF Abort, CallRecord
  <2>5. flow' = [aborted EXCEPT ![h].step = next]
    BY <1>1, <2>1, <2>3 DEF StopAborts
  <2>6. CallOK(h, r, record, next)'
    BY <2>1, <2>2, CallKept DEF CallOK, IsFenced
  <2> HIDE DEF executions, next
  <2>7. next \in {"write", "halt"}
    BY DEF next
  <2>8. /\ DOMAIN flow' = DOMAIN flow
        /\ flow' \in [DOMAIN flow -> CallRecord]
        /\ flow'[h].request = r /\ flow'[h].record = record /\ flow'[h].step = next
        /\ \A j \in DOMAIN flow : j # h => flow'[j] = aborted[j]
    <3>1. aborted[h] \in CallRecord /\ aborted[h].step = "abort"
      BY <2>1, <2>4
    <3> DEFINE call == [aborted[h] EXCEPT !.step = next]
    <3>2. /\ call \in CallRecord /\ call.request = r /\ call.record = record
          /\ call.step = next
      BY <2>1, <2>4, <2>7, <3>1 DEF CallRecord
    <3>3. flow' = [aborted EXCEPT ![h] = call]
      BY <2>5
    <3> HIDE DEF call
    <3> QED
      BY <2>1, <2>4, <3>2, <3>3
  <2>9. FlowsOK'
    <3>1. ASSUME NEW j \in DOMAIN flow, j # h
          PROVE  CallOK(j, flow[j].request, flow[j].record, flow[j].step)'
      BY <2>2, <2>4, <2>8, <3>1, OthersKept DEF ServiceInv
    <3> QED
      BY <2>6, <2>8, <3>1 DEF FlowsOK
  <2>10. LockInv'
    <3>1. up'
      BY <2>0, <2>1 DEF ServiceInv, LockInv, NoRows
    <3>2. ASSUME locked'
          PROVE  \E j \in DOMAIN flow' : Holds(flow'[j])
      <4>1. PICK j \in DOMAIN flow : Holds(flow[j])
        BY <2>0, <3>2 DEF ServiceInv, LockInv
      <4>2. j # h
        BY <2>1, <4>1 DEF Holds
      <4> QED
        BY <2>4, <2>8, <4>1, <4>2 DEF Holds
    <3> QED
      BY <3>1, <3>2 DEF LockInv
  <2> QED
    BY <2>2, <2>9, <2>10 DEF StepOK
<1>2. ASSUME StopHalts(h)
      PROVE  StepOK
  <2>0. /\ At(h, "halt") /\ UNCHANGED durableVars /\ UNCHANGED <<locked, up, faults>>
        /\ Goto(h, "write")
    BY <1>2 DEF StopHalts, processVars
<2>1. PICK r \in Requests \cup {None}, record \in Records :
          /\ h \in DOMAIN flow /\ flow[h].request = r /\ flow[h].record = record
          /\ flow[h].step = "halt" /\ CallOK(h, r, record, "halt")
    BY <2>0, AtStep DEF ServiceInv
  <2>2. RegistrarCall /\ IsFenced(record.generation)'
    <3>1. HasSession(record) /\ FenceSession(record.generation)
      BY <1>2, <2>1 DEF CallOK, StopHalts
    <3> QED
      BY <3>1, Fences DEF ServiceInv
  <2>3. Leaves /\ RequestsOK' /\ faults' \in Nat
    BY <2>0, <2>2, Calling
  <2>4. CallOK(h, r, record, "write")'
    BY <2>1, <2>2, <2>3, CallKept DEF CallOK
  <2>5. FlowsOK' /\ LockInv'
    BY <2>0, <2>1, <2>3, <2>4, GoesOn
  <2> QED
    BY <2>2, <2>3, <2>5 DEF StepOK
<1>3. ASSUME StopWrites(h)
      PROVE  StepOK
  <2>0. /\ At(h, "write") /\ UNCHANGED vars /\ UNCHANGED <<locked, up, faults>>
        /\ Update(h, "stopped") /\ End(h)
    BY <1>3 DEF StopWrites, processVars
<2>1. PICK r \in Requests \cup {None}, record \in Records :
          /\ h \in DOMAIN flow /\ flow[h].request = r /\ flow[h].record = record
          /\ flow[h].step = "write" /\ CallOK(h, r, record, "write")
    BY <2>0, AtStep DEF ServiceInv
  <2> DEFINE stopped == [record EXCEPT !.status = "stopped"]
  <2>2. /\ stopped \in Records /\ stopped.generation = record.generation
        /\ stopped.status = "stopped"
    BY DEF Records, Statuses
  <2>3. Save(r, stopped) /\ r \in Requests
    BY <2>0, <2>1 DEF Update, CallOK
  <2> HIDE DEF stopped
  <2>4. RecordOK(r, stopped)
    BY <2>1, <2>2 DEF RecordOK, CallOK, HasSession
  <2>5. RegistrarCall /\ Leaves /\ RequestsOK' /\ faults' \in Nat
    BY <2>0, <2>2, <2>3, <2>4, Saving
  <2>6. FlowsOK' /\ LockInv'
    BY <2>0, <2>1, <2>5, Returns
  <2> QED
    BY <2>5, <2>6 DEF StepOK
<1> QED
  BY <1>1, <1>2, <1>3 DEF StopSteps

-----------------------------------------------------------------------------
(***************************************************************************)
(* The steps of an execution.                                              *)
(***************************************************************************)
\* An execution is named by its generation.
LEMMA RunIsOne == \A g, h : Run(g) = Run(h) => g = h
  BY DEF Run

\* A successful close leaves the session closed, and not stopped.
LEMMA ClosesOK ==
  ASSUME SessionInv, NEW g, CloseSession(g)
  PROVE  /\ RegistrarCall
         /\ UNCHANGED event
         /\ g \in DOMAIN session'
         /\ session'[g].phase = "closed" /\ ~session'[g].stopped
<1>1. /\ active # None /\ active.generation = g /\ active.phase = "active"
      /\ WriteActive(Closed(active)) /\ UNCHANGED event
  BY DEF CloseSession, IsCurrent, transcriptVars
<1>2. active \in SessionRecord /\ g \in Generations /\ ~active.stopped
  BY <1>1 DEF SessionInv, TypeOK, SessionTypeOK, LatestIsActive, SessionRecord
<1>3. /\ Closed(active).generation = g /\ Closed(active).phase = "closed"
      /\ ~Closed(active).stopped
  BY <1>1, <1>2 DEF Closed, SessionRecord
<1>4. session' = Put(session, g, Closed(active))
  BY <1>1, <1>3 DEF WriteActive
<1> QED
  BY <1>1, <1>2, <1>3, <1>4 DEF RegistrarCall, Put

\* The execution returns, and leaves its fail to go on alone.
LEMMA ReturnsToFail ==
  ASSUME ServiceInv, UNCHANGED <<vars, durableVars, up, faults>>, NEW g,
         NEW step \in Executing, At(Run(g), step), ReturnsFail(g)
  PROVE  StepOK
<1> DEFINE f == Run(g)
<1> USE DEF Unsaved, Unstarted, Executing, Failing, Holding, Steps
<1>1. PICK r \in Requests \cup {None}, record \in Records :
        /\ f \in DOMAIN flow /\ flow[f] \in CallRecord
        /\ flow[f].request = r /\ flow[f].record = record /\ flow[f].step = step
        /\ CallOK(f, r, record, step)
  BY AtStep DEF ServiceInv
<1> DEFINE call == [flow[f] EXCEPT !.step = "fail", !.released = TRUE]
<1>2. /\ call \in CallRecord
      /\ call.request = r /\ call.record = record /\ call.step = "fail"
  BY <1>1 DEF CallRecord
<1>3. flow' = [flow EXCEPT ![f] = call] /\ locked' = FALSE
  BY <1>1 DEF ReturnsFail, GivesBack, CallRecord
<1> HIDE DEF call
<1>4. RegistrarCall /\ Leaves /\ RequestsOK' /\ faults' \in Nat
  BY Quietly
<1>5. CallOK(f, r, record, "fail")'
  BY <1>1, <1>4, CallKept DEF CallOK
<1>6. FlowsOK'
  BY <1>1, <1>2, <1>3, <1>4, <1>5, MoveKept DEF ServiceInv
<1>7. LockInv'
  BY <1>1, <1>3 DEF ServiceInv, LockInv, NoRows
<1> QED
  BY <1>4, <1>6, <1>7 DEF StepOK

\* The steps of an execution, up to the published answer and its completion.
LEMMA RunStepsOK ==
  ASSUME ServiceInv, NEW g \in Generations, RunSteps(g)
  PROVE  StepOK
<1> DEFINE f == Run(g)
<1> USE DEF Unsaved, Unstarted, Executing, Failing, Holding, Steps
<1>1. ASSUME RunBegins(g)
      PROVE  StepOK
  <2>0. /\ At(f, "begin") /\ UNCHANGED vars /\ UNCHANGED <<locked, up, faults>>
        /\ Update(f, "planning")
        /\ GotoHolding(f, "plan", [flow[f].record EXCEPT !.status = "planning"])
    BY <1>1 DEF RunBegins, processVars
<2>1. PICK r \in Requests \cup {None}, record \in Records :
          /\ f \in DOMAIN flow /\ flow[f].request = r /\ flow[f].record = record
          /\ flow[f].step = "begin" /\ CallOK(f, r, record, "begin")
    BY <2>0, AtStep DEF ServiceInv
  <2> DEFINE saved == [record EXCEPT !.status = "planning"]
  <2>2. /\ saved \in Records /\ saved.generation = record.generation
        /\ saved.status = "planning"
    BY DEF Records, Statuses
  <2>3. Save(r, saved) /\ r \in Requests /\ GotoHolding(f, "plan", saved)
    BY <2>0, <2>1 DEF Update, CallOK
  <2> HIDE DEF saved
  <2>4. RecordOK(r, saved)
    BY <2>1, <2>2 DEF RecordOK, CallOK, HasSession, Finished
  <2>5. RegistrarCall /\ Leaves /\ RequestsOK' /\ r \in DOMAIN request' /\ faults' \in Nat
    BY <2>0, <2>2, <2>3, <2>4, Saving
  <2>6. CallOK(f, r, saved, "plan")
    BY <2>1, <2>2 DEF CallOK, HasSession
  <2>7. CallOK(f, r, saved, "plan")'
    BY <2>5, <2>6, CallKept
  <2>8. FlowsOK' /\ LockInv'
    BY <2>0, <2>1, <2>2, <2>3, <2>5, <2>7, GoesOn
  <2> QED
    BY <2>5, <2>8 DEF StepOK
<1>2. ASSUME RunPlans(g)
      PROVE  StepOK
  <2>0. At(f, "plan") /\ UNCHANGED vars /\ UNCHANGED durableVars /\ UNCHANGED <<up, faults>>
    BY <1>2 DEF RunPlans
<2>1. PICK r \in Requests \cup {None}, record \in Records :
          /\ f \in DOMAIN flow /\ flow[f].request = r /\ flow[f].record = record
          /\ flow[f].step = "plan" /\ CallOK(f, r, record, "plan")
    BY <2>0, AtStep DEF ServiceInv
  <2>2. RegistrarCall /\ Leaves /\ RequestsOK' /\ faults' \in Nat
    BY <2>0, Quietly
  <2>3. ASSUME NEW next \in {"publish", "enlist"}, Goto(f, next), UNCHANGED locked
        PROVE  StepOK
    <3>1. CallOK(f, r, record, next)'
      BY <2>1, <2>2, CallKept DEF CallOK
    <3>2. FlowsOK' /\ LockInv'
      BY <2>0, <2>1, <2>2, <2>3, <3>1, GoesOn
    <3> QED
      BY <2>2, <3>2 DEF StepOK
  <2>4. CASE ReturnsFail(g)
    BY <2>0, <2>4, ReturnsToFail
  <2> QED
    BY <1>2, <2>3, <2>4 DEF RunPlans
<1>3. ASSUME RunEnlists(g)
      PROVE  StepOK
  <2>0. /\ At(f, "enlist") /\ UNCHANGED vars /\ UNCHANGED <<locked, up, faults>>
        /\ Update(f, "running")
        /\ GotoHolding(f, "publish", [flow[f].record EXCEPT !.status = "running"])
    BY <1>3 DEF RunEnlists, processVars
<2>1. PICK r \in Requests \cup {None}, record \in Records :
          /\ f \in DOMAIN flow /\ flow[f].request = r /\ flow[f].record = record
          /\ flow[f].step = "enlist" /\ CallOK(f, r, record, "enlist")
    BY <2>0, AtStep DEF ServiceInv
  <2> DEFINE saved == [record EXCEPT !.status = "running"]
  <2>2. /\ saved \in Records /\ saved.generation = record.generation
        /\ saved.status = "running"
    BY DEF Records, Statuses
  <2>3. Save(r, saved) /\ r \in Requests /\ GotoHolding(f, "publish", saved)
    BY <2>0, <2>1 DEF Update, CallOK
  <2> HIDE DEF saved
  <2>4. RecordOK(r, saved)
    BY <2>1, <2>2 DEF RecordOK, CallOK, HasSession, Finished
  <2>5. RegistrarCall /\ Leaves /\ RequestsOK' /\ r \in DOMAIN request' /\ faults' \in Nat
    BY <2>0, <2>2, <2>3, <2>4, Saving
  <2>6. CallOK(f, r, saved, "publish")
    BY <2>1, <2>2 DEF CallOK, HasSession
  <2>7. CallOK(f, r, saved, "publish")'
    BY <2>5, <2>6, CallKept
  <2>8. FlowsOK' /\ LockInv'
    BY <2>0, <2>1, <2>2, <2>3, <2>5, <2>7, GoesOn
  <2> QED
    BY <2>5, <2>8 DEF StepOK
<1>4. ASSUME RunPublishes(g)
      PROVE  StepOK
  <2>0. At(f, "publish") /\ UNCHANGED durableVars /\ UNCHANGED <<up, faults>>
    BY <1>4 DEF RunPublishes
<2>1. PICK r \in Requests \cup {None}, record \in Records :
          /\ f \in DOMAIN flow /\ flow[f].request = r /\ flow[f].record = record
          /\ flow[f].step = "publish" /\ CallOK(f, r, record, "publish")
    BY <2>0, AtStep DEF ServiceInv
  <2>2. r \in Requests /\ record.generation = g
    BY <2>1, RunIsOne DEF CallOK
  <2>3. ASSUME NEW body \in Bodies, PublishesAnswer(g, r, body), Goto(f, "close"), UNCHANGED locked
        PROVE  StepOK
    <3>1. RegistrarCall
      BY <2>2, <2>3 DEF RegistrarCall
    <3>2. Leaves /\ RequestsOK' /\ faults' \in Nat
      BY <2>0, <3>1, Calling
    <3>3. HasAnswer(r, g)'
      BY <2>3 DEF PublishesAnswer, AppendMessage, WriteMessage, Put, HasAnswer
    <3>4. CallOK(f, r, record, "close")'
      BY <2>1, <2>2, <3>2, <3>3, CallKept DEF CallOK
    <3>5. FlowsOK' /\ LockInv'
      BY <2>0, <2>1, <2>3, <3>2, <3>4, GoesOn
    <3> QED
      BY <3>1, <3>2, <3>5 DEF StepOK
  <2>4. CASE HasAnswer(r, g) /\ Goto(f, "close") /\ UNCHANGED vars /\ UNCHANGED locked
    <3>1. RegistrarCall /\ Leaves /\ RequestsOK' /\ faults' \in Nat
      BY <2>0, <2>4, Quietly
    <3>2. CallOK(f, r, record, "close")
      BY <2>1, <2>2, <2>4 DEF CallOK
    <3>3. CallOK(f, r, record, "close")'
      BY <3>1, <3>2, CallKept
    <3>4. FlowsOK' /\ LockInv'
      BY <2>0, <2>1, <2>4, <3>1, <3>3, GoesOn
    <3> QED
      BY <3>1, <3>4 DEF StepOK
  <2>5. CASE ReturnsFail(g) /\ UNCHANGED vars
    BY <2>0, <2>5, ReturnsToFail
  <2> QED
    BY <1>4, <2>1, <2>3, <2>4, <2>5 DEF RunPublishes, PublishesAnswer, HasAnswer
<1>5. ASSUME RunCloses(g)
      PROVE  StepOK
  <2>0. At(f, "close") /\ UNCHANGED durableVars /\ UNCHANGED <<up, faults>>
    BY <1>5 DEF RunCloses
<2>1. PICK r \in Requests \cup {None}, record \in Records :
          /\ f \in DOMAIN flow /\ flow[f].request = r /\ flow[f].record = record
          /\ flow[f].step = "close" /\ CallOK(f, r, record, "close")
    BY <2>0, AtStep DEF ServiceInv
  <2>2. r \in Requests /\ record.generation = g /\ HasAnswer(r, g)
    BY <2>1, RunIsOne DEF CallOK
  <2>3. CASE CloseSession(g) /\ Goto(f, "complete") /\ UNCHANGED locked
    <3>1. /\ RegistrarCall
          /\ IsPublished(r, g)'
      BY <2>2, <2>3, ClosesOK DEF ServiceInv, IsPublished, HasAnswer
    <3>2. Leaves /\ RequestsOK' /\ faults' \in Nat
      BY <2>0, <3>1, Calling
    <3>3. CallOK(f, r, record, "complete")'
      BY <2>1, <2>2, <3>1, <3>2, CallKept DEF CallOK
    <3>4. FlowsOK' /\ LockInv'
      BY <2>0, <2>1, <2>3, <3>2, <3>3, GoesOn
    <3> QED
      BY <3>1, <3>2, <3>4 DEF StepOK
  <2>4. CASE ReturnsFail(g) /\ UNCHANGED vars
    BY <2>0, <2>4, ReturnsToFail
  <2> QED
    BY <1>5, <2>3, <2>4 DEF RunCloses
<1>6. ASSUME RunCompletes(g)
      PROVE  StepOK
  <2>0. At(f, "complete") /\ UNCHANGED vars /\ UNCHANGED <<up, faults>>
    BY <1>6 DEF RunCompletes
<2>1. PICK r \in Requests \cup {None}, record \in Records :
          /\ f \in DOMAIN flow /\ flow[f].request = r /\ flow[f].record = record
          /\ flow[f].step = "complete" /\ CallOK(f, r, record, "complete")
    BY <2>0, AtStep DEF ServiceInv
  <2>2. r \in Requests /\ record.generation = g /\ IsPublished(r, g)
    BY <2>1, RunIsOne DEF CallOK
  <2>3. CASE ReturnsFail(g) /\ UNCHANGED durableVars
    BY <2>0, <2>3, ReturnsToFail
  <2>4. CASE Update(f, "completed") /\ Goto(f, "finish") /\ UNCHANGED locked
    <3> DEFINE kept == [record EXCEPT !.status = "completed"]
    <3>1. /\ kept \in Records /\ kept.generation = record.generation
          /\ kept.status = "completed"
      BY DEF Records, Statuses
    <3>2. Save(r, kept)
      BY <2>1, <2>4 DEF Update
    <3> HIDE DEF kept
    <3>3. RecordOK(r, kept)
      BY <2>2, <3>1 DEF RecordOK, HasSession, IsPublished, IsFenced
    <3>4. RegistrarCall /\ Leaves /\ RequestsOK' /\ r \in DOMAIN request' /\ faults' \in Nat
      BY <2>0, <2>2, <3>1, <3>2, <3>3, Saving
    <3>5. CallOK(f, r, record, "finish")'
      BY <2>1, <3>4, CallKept DEF CallOK
    <3>6. FlowsOK' /\ LockInv'
      BY <2>0, <2>1, <2>4, <3>4, <3>5, GoesOn
    <3> QED
      BY <3>4, <3>6 DEF StepOK
  <2> QED
    BY <1>6, <2>3, <2>4 DEF RunCompletes
<1>7. ASSUME RunFinishes(g)
      PROVE  StepOK
  <2>0. /\ At(f, "finish") /\ UNCHANGED vars /\ UNCHANGED durableVars /\ UNCHANGED <<up, faults>>
        /\ End(f) /\ locked' = FALSE
    BY <1>7 DEF RunFinishes, GivesBack
<2>1. PICK r \in Requests \cup {None}, record \in Records :
          /\ f \in DOMAIN flow /\ flow[f].request = r /\ flow[f].record = record
          /\ flow[f].step = "finish" /\ CallOK(f, r, record, "finish")
    BY <2>0, AtStep DEF ServiceInv
  <2>2. RegistrarCall /\ Leaves /\ RequestsOK' /\ faults' \in Nat
    BY <2>0, Quietly
  <2>3. FlowsOK' /\ LockInv'
    BY <2>0, <2>1, <2>2, Returns
  <2> QED
    BY <2>2, <2>3 DEF StepOK
<1> QED
  BY <1>1, <1>2, <1>3, <1>4, <1>5, <1>6, <1>7, FailStepsOK DEF RunSteps

-----------------------------------------------------------------------------
(***************************************************************************)
(* The recovery, calls that begin, calls that reject, and the end and the  *)
(* start of the process.                                                   *)
(***************************************************************************)
\* The steps of the recovery that runs when the process starts.
LEMMA RecoveryStepsOK ==
  ASSUME ServiceInv, RecoverySteps
  PROVE  StepOK
<1> DEFINE f == Recovery
<1> USE DEF Unsaved, Unstarted, Executing, Failing, Holding, Steps
<1>1. ASSUME RecoveryReads
      PROVE  StepOK
  <2>0. At(f, "read") /\ UNCHANGED vars /\ UNCHANGED durableVars /\ UNCHANGED <<locked, up, faults>>
    BY <1>1 DEF RecoveryReads, processVars
<2>1. PICK r \in Requests \cup {None}, record \in Records :
          /\ f \in DOMAIN flow /\ flow[f].request = r /\ flow[f].record = record
          /\ flow[f].step = "read" /\ CallOK(f, r, record, "read")
    BY <2>0, AtStep DEF ServiceInv
  <2>2. RegistrarCall /\ Leaves /\ RequestsOK' /\ faults' \in Nat
    BY <2>0, Quietly
  <2>3. CASE End(f)
    BY <2>0, <2>1, <2>2, <2>3, Returns DEF StepOK
  <2>4. CASE /\ activeRequest # None
             /\ flow' = [flow EXCEPT ![f] = NewFlow(activeRequest, request[activeRequest], "fail")]
    <3>1. PICK q \in Requests, current \in Records :
            q = activeRequest /\ q \in DOMAIN request /\ current = request[q]
            /\ RecordOK(q, current)
      BY <2>4 DEF ServiceInv, RequestsOK
    <3> DEFINE call == NewFlow(q, current, "fail")
    <3>2. /\ call \in CallRecord
          /\ call.request = q /\ call.record = current /\ call.step = "fail" /\ ~call.released
      BY DEF NewFlow, CallRecord
    <3>3. flow' = [flow EXCEPT ![f] = call]
      BY <2>4, <3>1
    <3> HIDE DEF call
    <3>4. CallOK(f, q, current, "fail")
      BY <3>1 DEF CallOK, RecordOK
    <3>5. CallOK(f, q, current, "fail")'
      BY <2>2, <3>4, CallKept
    <3>6. FlowsOK'
      BY <2>1, <2>2, <3>2, <3>3, <3>5, MoveKept DEF ServiceInv
    <3>7. up'
      BY <2>0, <2>1 DEF ServiceInv, LockInv, NoRows
    <3>8. f \in DOMAIN flow' /\ Holds(flow'[f])
      BY <2>1, <3>2, <3>3 DEF Holds
    <3>9. LockInv'
      BY <3>7, <3>8 DEF LockInv
    <3> QED
      BY <2>2, <3>6, <3>9 DEF StepOK
  <2> QED
    BY <1>1, <2>3, <2>4 DEF RecoveryReads, IsBusy
<1>2. ASSUME RecoveryFinishes
      PROVE  StepOK
  <2>0. /\ At(f, "finish") /\ UNCHANGED vars /\ UNCHANGED durableVars /\ UNCHANGED <<up, faults>>
        /\ End(f) /\ locked' = FALSE
    BY <1>2 DEF RecoveryFinishes
<2>1. PICK r \in Requests \cup {None}, record \in Records :
          /\ f \in DOMAIN flow /\ flow[f].request = r /\ flow[f].record = record
          /\ flow[f].step = "finish" /\ CallOK(f, r, record, "finish")
    BY <2>0, AtStep DEF ServiceInv
  <2>2. RegistrarCall /\ Leaves /\ RequestsOK' /\ faults' \in Nat
    BY <2>0, Quietly
  <2>3. FlowsOK' /\ LockInv'
    BY <2>0, <2>1, <2>2, Returns
  <2> QED
    BY <2>2, <2>3 DEF StepOK
<1> QED
  BY <1>1, <1>2, FailStepsOK DEF RecoverySteps

\* A handler takes a request, or a stop of one.
LEMMA ArrivalsOK ==
  ASSUME ServiceInv, NEW h \in Handlers, NEW r \in Requests, SubmitArrives(h, r) \/ StopReads(h, r)
  PROVE  StepOK
<1> USE DEF Unsaved, Unstarted, Executing, Failing, Holding, Steps
<1>0. /\ up /\ h \notin DOMAIN flow
      /\ UNCHANGED vars /\ UNCHANGED durableVars /\ UNCHANGED <<locked, up, faults>>
  BY DEF SubmitArrives, StopReads, processVars
<1>1. RegistrarCall /\ Leaves /\ RequestsOK' /\ faults' \in Nat
  BY <1>0, Quietly
<1>2. PICK record \in Records, step \in {"admit", "abort"} :
        /\ flow' = Put(flow, h, NewFlow(r, record, step))
        /\ CallOK(h, r, record, step)
  <2>1. CASE SubmitArrives(h, r)
    <3>1. NewRecord \in Records /\ NewRecord.generation = 0
      BY BoundAssumption DEF NewRecord, Records, Statuses
    <3>2. CallOK(h, r, NewRecord, "admit")
      BY <3>1 DEF CallOK, HasSession
    <3> QED
      BY <2>1, <3>1, <3>2 DEF SubmitArrives
  <2>2. CASE StopReads(h, r)
    <3>1. r \in DOMAIN request /\ request[r] \in Records /\ RecordOK(r, request[r])
      BY <2>2 DEF StopReads, ServiceInv, RequestsOK
    <3>2. CallOK(h, r, request[r], "abort")
      BY <3>1 DEF CallOK, RecordOK
    <3> QED
      BY <2>2, <3>1, <3>2 DEF StopReads
  <2> QED  BY <2>1, <2>2
<1> DEFINE call == NewFlow(r, record, step)
<1>3. /\ call \in CallRecord
      /\ call.request = r /\ call.record = record /\ call.step = step
  BY DEF NewFlow, CallRecord
<1>4. flow' = Put(flow, h, call)
  BY <1>2
<1> HIDE DEF call
<1>5. CallOK(h, r, record, step)'
  BY <1>1, <1>2, CallKept
<1>6. FlowsOK' /\ LockInv'
  BY <1>0, <1>1, <1>3, <1>4, <1>5, BeginsOK
<1> QED
  BY <1>1, <1>6 DEF StepOK

\* A call rejects: the code goes on at its catch block, or gives up.
LEMMA FaultsOK ==
  ASSUME ServiceInv,
         \/ \E h \in Handlers : SubmitFaults(h) \/ StopFaults(h)
         \/ \E g \in Generations : RunFaults(g)
  PROVE  StepOK
<1> USE DEF Unsaved, Unstarted, Executing, Failing, Holding, Steps
<1>0. /\ UNCHANGED vars /\ UNCHANGED durableVars /\ UNCHANGED up
      /\ faults' = faults + 1
  BY DEF SubmitFaults, StopFaults, RunFaults
<1>1. RegistrarCall /\ Leaves /\ RequestsOK' /\ faults' \in Nat /\ faults' # 0
  BY <1>0, Quietly DEF ServiceInv
<1>2. ASSUME NEW h \in Handlers, SubmitFaults(h)
      PROVE  StepOK
  <2>1. h \in DOMAIN flow /\ End(h) /\ locked' = FALSE
    BY <1>2 DEF SubmitFaults, At
  <2> QED
    BY <1>0, <1>1, <2>1, Returns DEF StepOK
<1>3. ASSUME NEW h \in Handlers, StopFaults(h)
      PROVE  StepOK
  <2>0. UNCHANGED locked
    BY <1>3 DEF StopFaults
  <2>2. ASSUME At(h, "halt"), Goto(h, "write")
        PROVE  StepOK
    <3>0. At(h, "halt")
      BY <2>2
  <3>1. PICK r \in Requests \cup {None}, record \in Records :
            /\ h \in DOMAIN flow /\ flow[h].request = r /\ flow[h].record = record
            /\ flow[h].step = "halt" /\ CallOK(h, r, record, "halt")
      BY <3>0, AtStep DEF ServiceInv
    <3>2. CallOK(h, r, record, "write")'
      BY <1>1, <3>1, CallKept DEF CallOK
    <3>3. FlowsOK' /\ LockInv'
      BY <1>0, <1>1, <2>0, <2>2, <3>1, <3>2, GoesOn
    <3> QED
      BY <1>1, <3>3 DEF StepOK
  <2>3. ASSUME At(h, "write"), End(h)
        PROVE  StepOK
    <3>1. h \in DOMAIN flow /\ flow[h].step = "write"
      BY <2>3 DEF At
    <3> QED
      BY <1>0, <1>1, <2>0, <2>3, <3>1, Returns DEF StepOK
  <2> QED
    BY <1>3, <2>2, <2>3 DEF StopFaults
<1>4. ASSUME NEW g \in Generations, RunFaults(g)
      PROVE  StepOK
  <2> DEFINE f == Run(g)
  <2>0. UNCHANGED locked
    BY <1>4 DEF RunFaults
  <2>1. PICK from \in Executing \cup {"fence"}, next \in {"fail", "mark"} :
          At(f, from) /\ Goto(f, next)
    BY <1>4 DEF RunFaults
  <2>2. PICK r \in Requests \cup {None}, record \in Records :
          /\ f \in DOMAIN flow /\ flow[f].request = r /\ flow[f].record = record
          /\ flow[f].step = from /\ CallOK(f, r, record, from)
    BY <2>1, AtStep DEF ServiceInv
  <2>3. CallOK(f, r, record, next)'
    BY <1>1, <2>2, CallKept DEF CallOK
  <2>4. FlowsOK' /\ LockInv'
    BY <1>0, <1>1, <2>0, <2>1, <2>2, <2>3, GoesOn
  <2> QED
    BY <1>1, <2>4 DEF StepOK
<1> QED
  BY <1>2, <1>3, <1>4

\* The end of the process, planned or not, and its start.
LEMMA ProcessOK ==
  ASSUME ServiceInv,
         \/ Crash \/ CloseService \/ Exit \/ Restart
         \/ \E g \in Generations : RunRejects(g)
  PROVE  StepOK
<1> USE DEF Unsaved, Unstarted, Executing, Failing, Holding, Steps
<1>0. UNCHANGED vars /\ UNCHANGED durableVars /\ faults' \in {faults, faults + 1}
  BY DEF Crash, CloseService, Exit, Restart, RunRejects, ProcessEnds
<1>1. RegistrarCall /\ Leaves /\ RequestsOK' /\ faults' \in Nat
  BY <1>0, Quietly
<1>2. CASE ProcessEnds
  <2>1. flow' = NoRows /\ locked' = FALSE
    BY <1>2 DEF ProcessEnds
  <2>2. FlowsOK' /\ LockInv'
    BY <2>1 DEF FlowsOK, LockInv, NoRows
  <2> QED
    BY <1>1, <2>2 DEF StepOK
<1>3. CASE CloseService
  <2> DEFINE executions == {Run(running[r]) : r \in DOMAIN running}
  <2>1. flow' = Abort(executions) /\ up /\ UNCHANGED <<locked, up>>
    BY <1>3 DEF CloseService
  <2> HIDE DEF executions
  <2>2. FlowsOK'
    BY <1>1, <2>1, AbortKept DEF ServiceInv
  <2>3. /\ DOMAIN flow' = DOMAIN flow
        /\ \A f \in DOMAIN flow : Holds(flow[f]) => Holds(flow'[f])
    <3>1. \A f \in DOMAIN flow : flow[f] \in CallRecord
      BY DEF ServiceInv, FlowsOK
    <3> QED
      BY <2>1, <3>1 DEF Abort, CallRecord, Holds
  <2>4. LockInv'
    BY <2>1, <2>3 DEF ServiceInv, LockInv
  <2> QED
    BY <1>1, <2>2, <2>4 DEF StepOK
<1>4. CASE Restart
  <2> DEFINE call == NewFlow(None, NewRecord, "read")
  <2>1. ~up /\ flow = NoRows /\ up' = TRUE /\ UNCHANGED locked /\ flow' = Put(flow, Recovery, call)
    BY <1>4 DEF Restart, Starting, ServiceInv, LockInv
  <2>2. /\ call \in CallRecord
        /\ call.request = None /\ call.record = NewRecord /\ call.step = "read"
    BY BoundAssumption DEF NewFlow, CallRecord, NewRecord, Records, Statuses
  <2> HIDE DEF call
  <2>3. CallOK(Recovery, None, NewRecord, "read")'
    BY DEF CallOK, HasSession, NewRecord
  <2>4. Recovery \notin DOMAIN flow
    BY <2>1 DEF NoRows
  <2>5. FlowsOK' /\ LockInv'
    BY <1>1, <2>1, <2>2, <2>3, <2>4, BeginsOK
  <2> QED
    BY <1>1, <2>5 DEF StepOK
<1> QED
  BY <1>2, <1>3, <1>4 DEF Crash, Exit, RunRejects

-----------------------------------------------------------------------------
\* Every step of the service is one of these.
LEMMA ServiceStepsOK ==
  ASSUME ServiceInv, [ServiceNext]_allVars
  PROVE  StepOK
<1>1. CASE UNCHANGED allVars
  <2>1. /\ UNCHANGED vars /\ UNCHANGED durableVars
        /\ UNCHANGED <<flow, locked, up, faults>>
    BY <1>1 DEF allVars, serviceVars, processVars
  <2>2. RegistrarCall /\ Leaves /\ RequestsOK' /\ faults' \in Nat
    BY <2>1, Quietly
  <2>3. FlowsOK'
    BY <2>1, <2>2, OthersKept DEF ServiceInv, FlowsOK
  <2>4. LockInv'
    BY <2>1 DEF ServiceInv, LockInv
  <2> QED
    BY <2>2, <2>3, <2>4 DEF StepOK
<1>2. CASE ServiceNext
  <2>1. ASSUME NEW h \in Handlers, SubmitSteps(h) \/ StopSteps(h)
        PROVE  StepOK
    BY <2>1, SubmitStepsOK, StopStepsOK
  <2>2. ASSUME NEW h \in Handlers, NEW r \in Requests, SubmitArrives(h, r) \/ StopReads(h, r)
        PROVE  StepOK
    BY <2>2, ArrivalsOK
  <2>3. ASSUME NEW g \in Generations, RunSteps(g)
        PROVE  StepOK
    BY <2>3, RunStepsOK
  <2>4. CASE RecoverySteps
    BY <2>4, RecoveryStepsOK
  <2>5. CASE \/ \E h \in Handlers : SubmitFaults(h) \/ StopFaults(h)
             \/ \E g \in Generations : RunFaults(g)
    BY <2>5, FaultsOK
  <2>6. CASE \/ Crash \/ CloseService \/ Exit \/ Restart
             \/ \E g \in Generations : RunRejects(g)
    BY <2>6, ProcessOK
  <2> QED
    BY <1>2, <2>1, <2>2, <2>3, <2>4, <2>5, <2>6 DEF ServiceNext, StopCalls
<1> QED
  BY <1>1, <1>2

\* The invariant holds at first and is kept by every step, which is a step of
\* the Registrar, too.
LEMMA ServiceInvInit == ServiceInit => ServiceInv
<1>1. ServiceInit => SessionInv
  BY SessionInvInit DEF ServiceInit
<1>2. ServiceInit => task = NoRows /\ RequestsOK /\ LockInv /\ faults \in Nat
  BY DEF ServiceInit, Init, RequestsOK, LockInv, NoRows
<1>3. ServiceInit => FlowsOK
  <2> DEFINE call == NewFlow(None, NewRecord, "read")
  <2>1. /\ call \in CallRecord
        /\ call.request = None /\ call.record = NewRecord /\ call.step = "read"
    BY BoundAssumption DEF NewFlow, CallRecord, NewRecord, Records, Statuses, Steps, Failing
  <2> HIDE DEF call
  <2>2. CallOK(Recovery, None, NewRecord, "read")
    BY DEF CallOK, HasSession, NewRecord, Unsaved, Unstarted, Executing
  <2>3. DOMAIN Starting = {Recovery} /\ Starting[Recovery] = call
    BY DEF Starting, Put, NoRows, call
  <2>4. Starting \in [DOMAIN Starting -> CallRecord]
    BY <2>1 DEF Starting, Put, NoRows, call
  <2> QED
    BY <2>1, <2>2, <2>3, <2>4 DEF ServiceInit, FlowsOK
<1> QED
  BY <1>1, <1>2, <1>3 DEF ServiceInv

\* Every step of the service keeps the invariant, and is one of the Registrar's.
LEMMA ServiceInvStep ==
  ServiceInv /\ [ServiceNext]_allVars => ServiceInv' /\ [Next]_vars
<1> SUFFICES ASSUME ServiceInv, [ServiceNext]_allVars
             PROVE  ServiceInv' /\ [Next]_vars
  OBVIOUS
<1>1. StepOK
  BY ServiceStepsOK
<1>2. [Next]_vars /\ task' = NoRows
  BY <1>1, CallsAreSteps DEF StepOK, ServiceInv
<1>3. TypeOK'
  BY <1>2, TypeStep DEF ServiceInv, SessionInv
<1>4. SessionInv'
  BY <1>2, <1>3, SessionInvStep DEF ServiceInv
<1>5. (task = NoRows)'
  BY <1>2 DEF NoRows
<1> QED
  BY <1>1, <1>2, <1>4, <1>5 DEF StepOK, ServiceInv

\* The invariant therefore holds in every reachable state.
LEMMA ServiceInvariant == ServiceSpec => []ServiceInv
  BY ServiceInvInit, ServiceInvStep, PTL DEF ServiceSpec

\* To the Registrar the service is a caller like any other: with all its flows,
\* crashes and rejecting calls it only does what the Registrar's specification
\* allows, so that every theorem about the Registrar holds below the service.
THEOREM ServiceKeepsRegistrar == ServiceSpec => Spec
<1>1. ServiceInit => Init
  BY DEF ServiceInit
<1> QED
  BY <1>1, ServiceInvInit, ServiceInvStep, PTL DEF ServiceSpec, Spec

\* Whatever raced with it, a request that is reported completed has its answer
\* in the transcript of a session that was closed and never stopped.
THEOREM CompletedStaysPublished == ServiceSpec => []CompletedIsPublished
<1>1. ServiceInv => CompletedIsPublished
  BY DEF ServiceInv, RequestsOK, RecordOK, IsPublished, HasAnswer, CompletedIsPublished
<1> QED
  BY <1>1, ServiceInvariant, PTL

\* As long as no call rejects, a request's session is fenced before its record
\* says finished, by whichever flow that is written and however stale its copy.
THEOREM FinishedStaysFenced == ServiceSpec => []FinishedIsFenced
<1>1. ServiceInv => FinishedIsFenced
  BY DEF ServiceInv, RequestsOK, RecordOK, IsFenced, FinishedIsFenced
<1> QED
  BY <1>1, ServiceInvariant, PTL

\* The lock is not held when no submission, execution or recovery is there to let it
\* go: every way out of them releases it, an execution that returns before its own fail
\* and a dying process included.
THEOREM LockIsReleased == ServiceSpec => []LockNotLeaked
<1>1. ServiceInv => LockNotLeaked
  BY DEF ServiceInv, FlowsOK, CallRecord, LockInv, LockNotLeaked, Holds, Holding
<1> QED
  BY <1>1, ServiceInvariant, PTL

-----------------------------------------------------------------------------
(***************************************************************************)
(* Third part: the three-phase consilium, for any number of specialists,   *)
(* side by side in any number.                                             *)
(*                                                                         *)
(* A step of a job is told by its phase and its step.  Every job has a     *)
(* known pair of them, and its attempt's number; an agent that is taking   *)
(* its turn belongs to the batch of the moment.                            *)
(***************************************************************************)
JobRecord ==
  [op : {"none", "run", "resume"}, n : 0..MaxAttempts, critic : Critics \cup {None},
   phase : Turns \cup {"none", "designation", "synthesis", "publication"},
   step : {"none", "assign", "assigned", "turns", "append", "deliver", "archive", "close"},
   first : Nat]

TurnStates == {"idle", "running", "confirmed", "recorded", "done", "failed"}

StepsOf(phase) ==
  IF phase \in Turns THEN {"assign", "assigned", "turns"}
  ELSE IF phase = "publication" THEN {"append", "deliver", "archive", "close"}
  ELSE IF phase = "none" THEN {"none"} ELSE {"assign"}

JobTypeOK ==
  /\ attempts \in 0..MaxAttempts
  /\ job \in [RunGenerations -> JobRecord]
  /\ turn \in [RunGenerations -> [Agents -> TurnStates]]
  /\ \A g \in RunGenerations :
       /\ job[g].step \in StepsOf(job[g].phase)
       /\ job[g].phase # "none" => job[g].n \in 1..MaxAttempts /\ job[g].critic \in Critics
       /\ job[g].phase = "critique" /\ job[g].step = "turns" => job[g].first = Critic

(***************************************************************************)
(* What was said in a generation, and when.  All its positions, critiques  *)
(* and revisions are those of one attempt n: only one run ever records its *)
(* first assignment.                                                       *)
(***************************************************************************)
Place(e) == event[e].message.sequence

Position(i, n) == TurnEvent("initial", i, n)
Critique(n) == TurnEvent("critique", Critic, n)
Revised(i, n) == TurnEvent("revision", i, n)

Opening(g) == AssignmentEvent(g, "initial")

SaidInOneRun(g, n) ==
  \A e \in Transcribed(g) :
    /\ e[1] = "initial" => \E i \in 1..Specialists : e = Position(i, n)
    /\ e[1] = "critique" => e = Critique(n)
    /\ e[1] = "revision" => \E i \in 1..Specialists : e = Revised(i, n)

SaidAfterOpening(g) ==
  Opening(g) \notin DOMAIN event => \A e \in Transcribed(g) : e[1] \notin Turns \cup {"final"}

SaidInOrder(g, n) ==
  /\ \A e \in Transcribed(g) :
       /\ e[1] = "critique" =>
            \A i \in 1..Specialists :
              Position(i, n) \in Transcribed(g) /\ Place(Position(i, n)) < Place(e)
       /\ e[1] = "revision" => g \in DOMAIN review /\ review[g].sequence < Place(e)
       /\ e[1] = "final" =>
            /\ g \in DOMAIN review
            /\ \A i \in 1..Specialists :
                 Revised(i, n) \in Transcribed(g) /\ Place(Revised(i, n)) < Place(e)
  /\ g \in DOMAIN review =>
       Critique(n) \in Transcribed(g) /\ review[g].sequence = Place(Critique(n))

SaidInv(g, n) == SaidInOneRun(g, n) /\ SaidAfterOpening(g) /\ SaidInOrder(g, n)

(***************************************************************************)
(* What the job of a generation has behind it, in each phase.              *)
(***************************************************************************)
\* The job has recorded its first assignment, and has no synthesis yet.
IsOpened(g) ==
  /\ job[g].phase \in Turns
  /\ job[g].phase = "initial" => job[g].step # "assign"

\* The specialist's turn of this phase has been confirmed.
HasSpoken(g, i) ==
  /\ job[g].step = "turns"
  /\ i < job[g].first \/ (i \in Batch(g) /\ turn[g][i] \in {"confirmed", "done"})

AllRevised(g, n) ==
  /\ g \in DOMAIN review
  /\ \A i \in 1..Specialists : Revised(i, n) \in Transcribed(g)

PhaseInv(g, n) ==
  /\ IsOpened(g) => /\ job[g].n = n
                    /\ Opening(g) \in DOMAIN event
                    /\ \A e \in Transcribed(g) : e[1] # "final"
  /\ IsOpened(g) /\ job[g].phase = "initial" =>
       /\ \A e \in Transcribed(g) : e[1] \notin {"critique", "revision"}
       /\ \A i \in 1..Specialists : HasSpoken(g, i) => Position(i, n) \in Transcribed(g)
  /\ job[g].phase = "critique" =>
       /\ \A i \in 1..Specialists : Position(i, n) \in Transcribed(g)
       /\ job[g].step = "turns" /\ turn[g][Critic] \in {"recorded", "done"} => g \in DOMAIN review
  /\ job[g].phase = "revision" =>
       /\ g \in DOMAIN review
       /\ \A i \in 1..Specialists : HasSpoken(g, i) => Revised(i, n) \in Transcribed(g)
  /\ job[g].phase \in {"synthesis", "publication"} => AllRevised(g, n)

JobInv(g) == \E n \in Nat : SaidInv(g, n) /\ PhaseInv(g, n)

(***************************************************************************)
(* What the end of a job has behind it: a final that was said, delivered,  *)
(* copied with all the rest, in a session that hears nobody any more.      *)
(***************************************************************************)
IsCopied(g) == g \in DOMAIN archived /\ Transcribed(g) \subseteq archived[g]

LastSteps(g) ==
  /\ job[g].step \in {"deliver", "archive", "close"} => FinalEvent(job[g].n) \in Transcribed(g)
  /\ job[g].step \in {"archive", "close"} => FinalEvent(job[g].n) \in delivered
  /\ job[g].step = "close" => IsCopied(g)

CompletedInv(g) ==
  g \in completed =>
    /\ g \in DOMAIN session /\ session[g].phase # "active"
    /\ IsCopied(g)
    /\ \E e \in Transcribed(g) \cap delivered : e[1] = "final"

\* Only jobs speak, review and complete.
OnlyJobs ==
  /\ \A k \in DOMAIN message : k[1] \in RunGenerations
  /\ DOMAIN review \cup completed \subseteq RunGenerations

JobsOK == JobTypeOK /\ NoTurnIsOrphaned

PhasedInv ==
  /\ SessionInv /\ TranscriptInv
  /\ JobsOK /\ OnlyJobs
  /\ \A g \in RunGenerations : JobInv(g) /\ LastSteps(g) /\ CompletedInv(g)

-----------------------------------------------------------------------------
(***************************************************************************)
(* The control of a job: how its record and its turns may change.          *)
(***************************************************************************)
\* No agent of the job is taking its turn.
AtRest(g) == \A i \in Agents : turn[g][i] \in {"idle", "done", "failed"}

OtherJobsStay(g) ==
  \A h \in RunGenerations \ {g} : job'[h] = job[h] /\ turn'[h] = turn[h]

\* The team of a phase and the specialists are agents.
LEMMA TeamsAreAgents ==
  /\ 0 \in Agents /\ Critic = 0 /\ Critic \notin 1..Specialists
  /\ 1..Specialists \subseteq Agents /\ Agents \subseteq Nat
  /\ \A phase : Team(phase) \subseteq Agents
  /\ Concurrency \in Nat \ {0} /\ Specialists \in Nat
BY PhasedAssumption DEF Agents, Critic, Team

\* Outside the turns of a phase, and once a batch is settled, everybody rests.
LEMMA Rests ==
  ASSUME JobsOK, NEW g \in RunGenerations, job[g].step # "turns" \/ Settled(g)
  PROVE  AtRest(g)
<1> SUFFICES ASSUME NEW i \in Agents
             PROVE  turn[g][i] \in {"idle", "done", "failed"}
  BY DEF AtRest
<1>1. turn[g][i] \in TurnStates
  BY DEF JobsOK, JobTypeOK
<1>2. turn[g][i] \in {"running", "confirmed", "recorded"} => job[g].step = "turns" /\ i \in Batch(g)
  BY DEF JobsOK, NoTurnIsOrphaned
<1>3. Settled(g) /\ i \in Batch(g) => turn[g][i] \in {"done", "failed"}
  BY DEF Settled
<1> QED
  BY <1>1, <1>2, <1>3 DEF TurnStates

\* A job replaced by a record that its turns fit leaves all jobs in order.
LEMMA JobReplaced ==
  ASSUME JobsOK, NEW g \in RunGenerations, NEW j \in JobRecord, NEW t \in [Agents -> TurnStates],
         attempts' \in 0..MaxAttempts,
         job' = [job EXCEPT ![g] = j], turn' = [turn EXCEPT ![g] = t],
         j.step \in StepsOf(j.phase),
         j.phase # "none" => j.n \in 1..MaxAttempts /\ j.critic \in Critics,
         j.phase = "critique" /\ j.step = "turns" => j.first = Critic,
         \A i \in Agents : t[i] \in {"running", "confirmed", "recorded"} =>
           j.step = "turns" /\ i \in Team(j.phase) \cap (j.first..(j.first + Concurrency - 1))
  PROVE  JobsOK' /\ OtherJobsStay(g) /\ job'[g] = j /\ turn'[g] = t
<1>1. /\ job \in [RunGenerations -> JobRecord]
      /\ turn \in [RunGenerations -> [Agents -> TurnStates]]
  BY DEF JobsOK, JobTypeOK
<1>2. OtherJobsStay(g) /\ job'[g] = j /\ turn'[g] = t
  BY <1>1 DEF OtherJobsStay
<1>3. /\ job' \in [RunGenerations -> JobRecord]
      /\ turn' \in [RunGenerations -> [Agents -> TurnStates]]
  BY <1>1
<1>4. ASSUME NEW h \in RunGenerations
      PROVE  /\ job'[h].step \in StepsOf(job'[h].phase)
             /\ job'[h].phase # "none" => job'[h].n \in 1..MaxAttempts /\ job'[h].critic \in Critics
             /\ job'[h].phase = "critique" /\ job'[h].step = "turns" => job'[h].first = Critic
  <2>1. CASE h = g
    BY <1>2, <2>1
  <2>2. CASE h # g
    BY <1>2, <2>2 DEF OtherJobsStay, JobsOK, JobTypeOK
  <2> QED  BY <2>1, <2>2
<1>5. ASSUME NEW h \in RunGenerations, NEW i \in Agents,
             turn'[h][i] \in {"running", "confirmed", "recorded"}
      PROVE  job'[h].step = "turns" /\ i \in Batch(h)'
  <2>1. CASE h = g
    BY <1>2, <1>5, <2>1 DEF Batch
  <2>2. CASE h # g
    BY <1>2, <1>5, <2>2 DEF OtherJobsStay, JobsOK, NoTurnIsOrphaned, Batch
  <2> QED  BY <2>1, <2>2
<1> QED
  BY <1>2, <1>3, <1>4, <1>5 DEF JobsOK, JobTypeOK, NoTurnIsOrphaned

\* The end of a job at rest.
LEMMA JobEnds ==
  ASSUME JobsOK, NEW g \in RunGenerations, AtRest(g), Ends(g), attempts' \in 0..MaxAttempts
  PROVE  JobsOK' /\ OtherJobsStay(g) /\ job'[g] = NoJob
<1> DEFINE t == [i \in Agents |-> IF turn[g][i] \in {"done", "failed"} THEN "idle" ELSE turn[g][i]]
<1>1. NoJob \in JobRecord
  BY PhasedAssumption DEF NoJob, JobRecord
<1>2. /\ NoJob.step \in StepsOf(NoJob.phase) /\ NoJob.phase = "none"
  BY DEF NoJob, StepsOf, Turns
<1>3. \A i \in Agents : t[i] = "idle"
  BY DEF AtRest
<1>4. t \in [Agents -> TurnStates]
  BY <1>3 DEF TurnStates
<1>5. turn' = [turn EXCEPT ![g] = t] /\ job' = [job EXCEPT ![g] = NoJob]
  BY DEF Ends, JobsOK, JobTypeOK
<1> HIDE DEF t
<1>6. \A i \in Agents : t[i] \notin {"running", "confirmed", "recorded"}
  BY <1>3
<1> QED
  BY <1>1, <1>2, <1>4, <1>5, <1>6, JobReplaced

\* A job at rest goes on to a step that is not a batch.
LEMMA JobContinues ==
  ASSUME JobsOK, NEW g \in RunGenerations, AtRest(g), job[g].phase # "none",
         NEW phase, NEW step, Continues(g, phase, step), attempts' \in 0..MaxAttempts,
         phase \in Turns \cup {"synthesis", "publication"},
         step \in StepsOf(phase), step # "turns"
  PROVE  /\ JobsOK' /\ OtherJobsStay(g) /\ turn'[g] = turn[g]
         /\ job'[g] = [job[g] EXCEPT !.phase = phase, !.step = step]
<1> DEFINE j == [job[g] EXCEPT !.phase = phase, !.step = step]
           t == turn[g]
<1>1. job[g] \in JobRecord /\ t \in [Agents -> TurnStates]
  BY DEF JobsOK, JobTypeOK
<1>2. /\ j.phase = phase /\ j.step = step /\ j.n = job[g].n /\ j.critic = job[g].critic
      /\ j.first = job[g].first /\ j.op = job[g].op
  BY <1>1 DEF JobRecord
<1>3. /\ step \in {"assign", "assigned", "turns", "append", "deliver", "archive", "close"}
      /\ phase # "none"
  BY DEF StepsOf, Turns
<1>4. j \in JobRecord
  BY <1>1, <1>3 DEF JobRecord
<1>5. job[g].n \in 1..MaxAttempts /\ job[g].critic \in Critics
  BY DEF JobsOK, JobTypeOK
<1>6. job' = [job EXCEPT ![g] = j] /\ turn' = [turn EXCEPT ![g] = t]
  BY DEF Continues, JobsOK, JobTypeOK
<1>7. \A i \in Agents : t[i] \in {"running", "confirmed", "recorded"} =>
        j.step = "turns" /\ i \in Team(j.phase) \cap (j.first..(j.first + Concurrency - 1))
  BY DEF AtRest
<1> HIDE DEF j, t
<1>8. /\ j.step \in StepsOf(j.phase) /\ j.step # "turns"
      /\ j.n \in 1..MaxAttempts /\ j.critic \in Critics
  BY <1>2, <1>5
<1>9. JobsOK' /\ OtherJobsStay(g) /\ job'[g] = j /\ turn'[g] = t
  BY <1>1, <1>4, <1>6, <1>7, <1>8, JobReplaced
<1> QED
  BY <1>9 DEF j, t

\* The next batch of a job at rest takes its turns.
LEMMA BatchBegins ==
  ASSUME JobsOK, NEW g \in RunGenerations, AtRest(g), job[g].phase # "none",
         NEW phase \in Turns, NEW first \in Nat, TurnsBegin(g, phase, first),
         attempts' \in 0..MaxAttempts, phase = "critique" => first = Critic
  PROVE  /\ JobsOK' /\ OtherJobsStay(g)
         /\ job'[g].phase = phase /\ job'[g].step = "turns" /\ job'[g].first = first
         /\ job'[g].n = job[g].n
         /\ \A i \in Team(phase) \cap (first..(first + Concurrency - 1)) : turn'[g][i] = "running"
<1> DEFINE j == [job[g] EXCEPT !.phase = phase, !.step = "turns", !.first = first]
           t == [i \in Agents |-> IF i \in Team(phase) \cap (first..(first + Concurrency - 1))
                                  THEN "running" ELSE turn[g][i]]
<1>1. job[g] \in JobRecord /\ turn[g] \in [Agents -> TurnStates]
  BY DEF JobsOK, JobTypeOK
<1>2. /\ j.phase = phase /\ j.step = "turns" /\ j.n = job[g].n /\ j.critic = job[g].critic
      /\ j.first = first
  BY <1>1 DEF JobRecord
<1>3. j \in JobRecord
  BY <1>1 DEF JobRecord
<1>4. job[g].n \in 1..MaxAttempts /\ job[g].critic \in Critics
  BY DEF JobsOK, JobTypeOK
<1>5. t \in [Agents -> TurnStates]
  BY <1>1 DEF TurnStates
<1>6. job' = [job EXCEPT ![g] = j] /\ turn' = [turn EXCEPT ![g] = t]
  BY DEF TurnsBegin, JobsOK, JobTypeOK
<1>7. \A i \in Agents : t[i] \in {"running", "confirmed", "recorded"} =>
        i \in Team(phase) \cap (first..(first + Concurrency - 1))
  BY DEF AtRest
<1>8. j.step \in StepsOf(j.phase)
  BY <1>2 DEF StepsOf
<1> HIDE DEF j, t
<1>9. JobsOK' /\ OtherJobsStay(g) /\ job'[g] = j /\ turn'[g] = t
  BY <1>2, <1>3, <1>4, <1>5, <1>6, <1>7, <1>8, JobReplaced
<1> QED
  BY <1>2, <1>9, TeamsAreAgents DEF t

\* An agent that is taking its turn goes on with it.
LEMMA TurnMoves ==
  ASSUME JobsOK, NEW g \in RunGenerations, NEW i \in Agents, NEW to \in TurnStates,
         turn[g][i] \in {"running", "confirmed", "recorded"}, Moves(g, i, to)
  PROVE  /\ JobsOK' /\ OtherJobsStay(g) /\ job' = job
         /\ job[g].step = "turns" /\ i \in Batch(g) /\ job[g].phase \in Turns
         /\ turn'[g] = [turn[g] EXCEPT ![i] = to]
<1>1. /\ job[g] \in JobRecord /\ turn[g] \in [Agents -> TurnStates]
      /\ attempts' \in 0..MaxAttempts
      /\ job[g].step \in StepsOf(job[g].phase)
  BY DEF JobsOK, JobTypeOK, Moves
<1>2. job[g].step = "turns" /\ i \in Batch(g)
  BY DEF JobsOK, NoTurnIsOrphaned
<1>3. job[g].phase \in Turns
  BY <1>1, <1>2 DEF StepsOf
<1> DEFINE t == [turn[g] EXCEPT ![i] = to]
<1>4. t \in [Agents -> TurnStates]
  BY <1>1
<1>5. job' = [job EXCEPT ![g] = job[g]] /\ turn' = [turn EXCEPT ![g] = t]
  BY DEF Moves, JobsOK, JobTypeOK
<1>6. \A k \in Agents : t[k] \in {"running", "confirmed", "recorded"} =>
        job[g].step = "turns" /\ k \in Team(job[g].phase) \cap (job[g].first..(job[g].first + Concurrency - 1))
  BY <1>1, <1>2 DEF JobsOK, NoTurnIsOrphaned, Batch
<1>7. /\ job[g].phase # "none" => job[g].n \in 1..MaxAttempts /\ job[g].critic \in Critics
      /\ job[g].phase = "critique" /\ job[g].step = "turns" => job[g].first = Critic
  BY DEF JobsOK, JobTypeOK
<1> HIDE DEF t
<1>8. JobsOK' /\ OtherJobsStay(g) /\ job'[g] = job[g] /\ turn'[g] = t
  BY <1>1, <1>4, <1>5, <1>6, <1>7, JobReplaced
<1> QED
  BY <1>2, <1>3, <1>8 DEF t, Moves

-----------------------------------------------------------------------------
(***************************************************************************)
(* The effect of a step on what was said in a generation.                  *)
(***************************************************************************)
SpeechStays(h) ==
  /\ Transcribed(h)' = Transcribed(h)
  /\ DOMAIN event \subseteq DOMAIN event'
  /\ \A e \in Transcribed(h) : Place(e)' = Place(e)
  /\ h \in DOMAIN review' <=> h \in DOMAIN review
  /\ h \in DOMAIN review => review'[h] = review[h]

\* A step that writes no message and no receipt.
LEMMA Silence ==
  ASSUME UNCHANGED <<message, event, review>>
  PROVE  \A h : SpeechStays(h)
BY DEF SpeechStays, Transcribed, Place

\* What was said has one row, in the generation where it was said.
LEMMA TranscribedRows ==
  ASSUME SessionInv, TranscriptInv, NEW g, NEW e \in Transcribed(g)
  PROVE  /\ e \in DOMAIN event /\ event[e].message.event = e
         /\ event[e].message.generation = g
         /\ g \in Generations /\ Place(e) \in Numbers
         /\ <<g, Place(e)>> \in DOMAIN message
         /\ message[<<g, Place(e)>>] = event[e].message
         /\ \A k \in DOMAIN message : message[k].event = e => k = <<g, Place(e)>>
<1>1. PICK k \in DOMAIN message : k[1] = g /\ message[k].event = e
  BY DEF Transcribed
<1>2. /\ k = <<message[k].generation, message[k].sequence>>
      /\ e \in DOMAIN event
      /\ event[e].message = message[k]
  BY <1>1 DEF TranscriptInv, RowsHaveEvents
<1>3. \A l \in DOMAIN message : message[l].event = e =>
        l = <<message[l].generation, message[l].sequence>> /\ event[e].message = message[l]
  BY DEF TranscriptInv, RowsHaveEvents
<1>4. DOMAIN message \subseteq Generations \X Numbers
  BY DEF SessionInv, TypeOK, TranscriptTypeOK
<1>5. g = message[k].generation /\ Place(e) = message[k].sequence
  BY <1>1, <1>2 DEF Place
<1>6. g \in Generations /\ Place(e) \in Numbers
  BY <1>2, <1>4, <1>5
<1> QED
  BY <1>1, <1>2, <1>3, <1>5, <1>6 DEF Place

\* Everything said in a generation is below its next number.
LEMMA TranscribedBefore ==
  ASSUME SessionInv, TranscriptInv, NEW g, NEW e \in Transcribed(g)
  PROVE  Place(e) < NextSequence(g)
<1>1. g \in Generations /\ Place(e) \in Numbers /\ <<g, Place(e)>> \in DOMAIN message
  BY TranscribedRows
<1>2. Place(e) \in 1..(NextSequence(g) - 1)
  BY <1>1 DEF TranscriptInv, NumberedRows
<1>3. NextSequence(g) \in Nat
  BY <1>1, NumberType, BoundAssumption DEF TranscriptInv
<1> QED
  BY <1>2, <1>3

\* A message is said last in its generation, where it was not said before.
LEMMA Speech ==
  ASSUME SessionInv, TranscriptInv, NEW g, NEW e \in Events,
         NEW a \in Critics \cup {None}, AppendConfirmedMessage(g, e, a)
  PROVE  /\ g \in Known /\ IsCurrent(g, {"active"})
         /\ e \notin DOMAIN event /\ e \notin Transcribed(g)
         /\ DOMAIN event' = DOMAIN event \cup {e}
         /\ Transcribed(g)' = Transcribed(g) \cup {e}
         /\ \A d \in Transcribed(g) : Place(d)' = Place(d) /\ Place(d) < Place(e)'
         /\ \A h : h # g => SpeechStays(h)
         /\ review' = review
         /\ \A k \in DOMAIN message' : k \in DOMAIN message \/ k[1] = g
<1> DEFINE u == [active EXCEPT !.nextSequence = @ + 1]
           n == NextSequence(g)
           m == [generation |-> g, sequence |-> n, event |-> e, author |-> a]
<1>1. /\ e \in EventIds \ DOMAIN event
      /\ active # None /\ active.generation = g /\ active.phase = "active"
      /\ active.nextSequence <= MaxSequence
      /\ WriteMessage(active.generation, active.nextSequence, e, "message", a)
      /\ WriteActive(u)
      /\ control' = control /\ review' = review
  BY DEF AppendConfirmedMessage, AppendMessage, IsCurrent, WriteMessage, EventIds, criticVars
<1>2. active \in SessionRecord /\ u \in SessionRecord
  BY <1>1, CurrentType, AdvanceType DEF SessionInv, TypeOK
<1>3. /\ u.generation = active.generation
      /\ u.nextSequence = active.nextSequence + 1
  BY <1>2 DEF SessionRecord
<1>4. generation = g /\ g \in Known /\ g \in Generations
  BY <1>1, LatestNumber, BoundAssumption DEF Known
<1> HIDE DEF u
<1>5. Grows(g, e, "message", a)
  BY <1>1, <1>2, <1>3, <1>4, LatestGrows
<1>6. /\ <<g, n>> \notin DOMAIN message
      /\ DOMAIN message' = DOMAIN message \cup {<<g, n>>}
      /\ message'[<<g, n>>] = m
      /\ \A k \in DOMAIN message : message'[k] = message[k]
      /\ e \notin DOMAIN event
      /\ DOMAIN event' = DOMAIN event \cup {e}
      /\ event'[e] = [kind |-> "message", message |-> m]
      /\ \A d \in DOMAIN event : event'[d] = event[d]
  BY <1>5, GrownRows
<1>7. m.event = e /\ m.sequence = n
  OBVIOUS
<1> HIDE DEF n, m
<1>8. Place(e)' = n
  BY <1>6, <1>7 DEF Place
<1>9. \A h : \A d \in Transcribed(h) : d \in DOMAIN event /\ Place(d)' = Place(d)
  BY <1>6, TranscribedRows DEF Place
<1>10. \A d \in Transcribed(g) : Place(d) < n
  BY TranscribedBefore DEF n
<1>11. Transcribed(g)' = Transcribed(g) \cup {e}
  BY <1>6, <1>7 DEF Transcribed
<1>12. ASSUME NEW h, h # g
       PROVE  SpeechStays(h)
  <2>1. Transcribed(h)' = Transcribed(h)
    BY <1>6, <1>12 DEF Transcribed
  <2> QED
    BY <1>1, <1>6, <1>9, <2>1 DEF SpeechStays
<1> QED
  BY <1>1, <1>4, <1>6, <1>8, <1>9, <1>10, <1>11, <1>12 DEF IsCurrent

-----------------------------------------------------------------------------
(***************************************************************************)
(* What a step leaves as it was.                                           *)
(***************************************************************************)
\* A generation in which nothing is said keeps what its transcript says.
LEMMA SaidKept ==
  ASSUME NEW g, NEW n, SaidInv(g, n), SpeechStays(g)
  PROVE  SaidInv(g, n)'
<1>1. /\ Transcribed(g)' = Transcribed(g)
      /\ \A e \in Transcribed(g) : Place(e)' = Place(e)
      /\ g \in DOMAIN review' <=> g \in DOMAIN review
      /\ g \in DOMAIN review => review'[g] = review[g]
      /\ Opening(g) \notin DOMAIN event' => Opening(g) \notin DOMAIN event
  BY DEF SpeechStays
<1>2. SaidInOneRun(g, n)'
  BY <1>1 DEF SaidInv, SaidInOneRun, Position, Critique, Revised, TurnEvent
<1>3. SaidAfterOpening(g)'
  BY <1>1 DEF SaidInv, SaidAfterOpening, Opening, AssignmentEvent
<1>4. SaidInOrder(g, n)'
  BY <1>1 DEF SaidInv, SaidInOrder
<1> QED
  BY <1>2, <1>3, <1>4 DEF SaidInv

\* A job that stays where it is, in a generation in which nothing is said.
LEMMA PhaseKept ==
  ASSUME NEW g \in RunGenerations, NEW n, PhaseInv(g, n), SpeechStays(g),
         job'[g] = job[g], turn'[g] = turn[g]
  PROVE  PhaseInv(g, n)'
<1>1. /\ Transcribed(g)' = Transcribed(g)
      /\ DOMAIN event \subseteq DOMAIN event'
      /\ g \in DOMAIN review' <=> g \in DOMAIN review
  BY DEF SpeechStays
<1>2. /\ IsOpened(g)' <=> IsOpened(g)
      /\ \A i \in 1..Specialists : HasSpoken(g, i)' <=> HasSpoken(g, i)
      /\ AllRevised(g, n)' <=> AllRevised(g, n)
  BY <1>1 DEF IsOpened, HasSpoken, Batch, AllRevised
<1> QED
  BY <1>1, <1>2 DEF PhaseInv

\* What the job has published stays, in a generation in which nothing is said.
OutStays(g) ==
  /\ delivered \subseteq delivered'
  /\ g \in completed' <=> g \in completed
  /\ IsCopied(g) => IsCopied(g)'

\* A job that stays where it is keeps what its last steps have behind them.
LEMMA LastStepsKept ==
  ASSUME NEW g, LastSteps(g), SpeechStays(g), OutStays(g), job'[g] = job[g]
  PROVE  LastSteps(g)'
BY DEF LastSteps, SpeechStays, OutStays, IsCopied, FinalEvent

\* A completed generation is fenced, and stays so.
LEMMA CompletedKept ==
  ASSUME NEW g, CompletedInv(g), SpeechStays(g), OutStays(g), SessionInv, [Next]_vars
  PROVE  CompletedInv(g)'
<1>1. g \in DOMAIN session /\ session[g].phase # "active" =>
        g \in DOMAIN session' /\ session'[g].phase # "active"
  BY FenceKept
<1> QED
  BY <1>1 DEF CompletedInv, SpeechStays, OutStays, IsCopied

\* What a job may do with its own generation, and with no other's.
StepFine(g) ==
  /\ [Next]_vars
  /\ JobsOK' /\ OtherJobsStay(g)
  /\ OnlyJobs'
  /\ \A h \in RunGenerations \ {g} : SpeechStays(h) /\ OutStays(h)
  /\ JobInv(g)' /\ LastSteps(g)' /\ CompletedInv(g)'

\* A fine step is one of the Registrar, and keeps the invariant.
LEMMA FineSteps ==
  ASSUME PhasedInv, NEW g \in RunGenerations, StepFine(g)
  PROVE  PhasedInv'
<1>1. /\ SessionInv /\ TranscriptInv /\ [Next]_vars
      /\ JobsOK' /\ OtherJobsStay(g) /\ OnlyJobs'
      /\ JobInv(g)' /\ LastSteps(g)' /\ CompletedInv(g)'
  BY DEF PhasedInv, StepFine
<1>2. TypeOK'
  BY <1>1, TypeStep DEF SessionInv
<1>5. SessionInv'
  BY <1>1, <1>2, SessionInvStep
<1>6. TranscriptInv'
  BY <1>1, <1>5, TranscriptInvStep
<1>3. ASSUME NEW h \in RunGenerations, h # g
      PROVE  JobInv(h)' /\ LastSteps(h)' /\ CompletedInv(h)'
  <2>1. /\ JobInv(h) /\ LastSteps(h) /\ CompletedInv(h)
        /\ SpeechStays(h) /\ OutStays(h)
        /\ job'[h] = job[h] /\ turn'[h] = turn[h]
    BY <1>1, <1>3 DEF PhasedInv, StepFine, OtherJobsStay
  <2>2. PICK n \in Nat : SaidInv(h, n) /\ PhaseInv(h, n)
    BY <2>1 DEF JobInv
  <2>3. SaidInv(h, n)' /\ PhaseInv(h, n)'
    BY <2>1, <2>2, SaidKept, PhaseKept
  <2>4. JobInv(h)'
    BY <2>3 DEF JobInv
  <2>5. LastSteps(h)'
    BY <2>1, LastStepsKept
  <2>6. CompletedInv(h)'
    BY <1>1, <2>1, CompletedKept
  <2> QED
    BY <2>4, <2>5, <2>6
<1>4. \A h \in RunGenerations : JobInv(h)' /\ LastSteps(h)' /\ CompletedInv(h)'
  BY <1>1, <1>3
<1> QED
  BY <1>1, <1>4, <1>5, <1>6 DEF PhasedInv

\* A step of a job that says nothing and completes nothing.
LEMMA QuietFine ==
  ASSUME PhasedInv, NEW g \in RunGenerations, [Next]_vars,
         UNCHANGED <<message, event, review, completed>>,
         \A h \in RunGenerations : OutStays(h),
         JobsOK' /\ OtherJobsStay(g),
         \A n \in Nat : SaidInv(g, n) /\ PhaseInv(g, n) => PhaseInv(g, n)', LastSteps(g)'
  PROVE  StepFine(g)
<1>1. \A h : SpeechStays(h)
  BY Silence
<1>2. OnlyJobs'
  BY DEF PhasedInv, OnlyJobs
<1>3. PICK n \in Nat : SaidInv(g, n) /\ PhaseInv(g, n)
  BY DEF PhasedInv, JobInv
<1>4. SaidInv(g, n)' /\ PhaseInv(g, n)'
  BY <1>1, <1>3, SaidKept
<1>5. JobInv(g)'
  BY <1>4 DEF JobInv
<1>6. CompletedInv(g)'
  BY <1>1, CompletedKept DEF PhasedInv
<1> QED
  BY <1>1, <1>2, <1>5, <1>6 DEF StepFine

\* The copies and the deliveries stay when nothing but new deliveries are made.
LEMMA OutsKept ==
  ASSUME NEW h, SpeechStays(h), delivered \subseteq delivered', UNCHANGED <<archived, completed>>
  PROVE  OutStays(h)
BY DEF SpeechStays, OutStays, IsCopied

\* The phases and steps of a job, and what a job has in order.
LEMMA JobFacts ==
  ASSUME PhasedInv, NEW g \in RunGenerations
  PROVE  /\ JobsOK /\ SessionInv /\ TranscriptInv /\ OnlyJobs
         /\ g \in Generations
         /\ attempts \in 0..MaxAttempts
         /\ job[g] \in JobRecord /\ turn[g] \in [Agents -> TurnStates]
         /\ job[g].step \in StepsOf(job[g].phase)
         /\ job[g].phase # "none" => job[g].n \in 1..MaxAttempts /\ job[g].critic \in Critics
         /\ job[g].phase = "none" <=> job[g].step = "none"
         /\ job[g].phase \in {"designation", "synthesis"} => job[g].step = "assign"
         /\ job[g].step \in {"append", "deliver", "archive", "close"} => job[g].phase = "publication"
         /\ job[g].step \in {"assigned", "turns"} => job[g].phase \in Turns
         /\ JobInv(g) /\ LastSteps(g) /\ CompletedInv(g)
         /\ job[g].step # "turns" => AtRest(g)
<1>1. JobsOK /\ SessionInv /\ TranscriptInv /\ OnlyJobs /\ JobInv(g) /\ LastSteps(g) /\ CompletedInv(g)
  BY DEF PhasedInv
<1>2. /\ attempts \in 0..MaxAttempts
      /\ job[g] \in JobRecord /\ turn[g] \in [Agents -> TurnStates]
      /\ job[g].step \in StepsOf(job[g].phase)
      /\ job[g].phase # "none" => job[g].n \in 1..MaxAttempts /\ job[g].critic \in Critics
  BY <1>1 DEF JobsOK, JobTypeOK
<1>3. /\ job[g].phase = "none" <=> job[g].step = "none"
      /\ job[g].phase \in {"designation", "synthesis"} => job[g].step = "assign"
      /\ job[g].step \in {"append", "deliver", "archive", "close"} => job[g].phase = "publication"
      /\ job[g].step \in {"assigned", "turns"} => job[g].phase \in Turns
  BY <1>2 DEF StepsOf, Turns
<1>4. g \in Generations
  BY PhasedAssumption
<1>5. job[g].step # "turns" => AtRest(g)
  BY <1>1, Rests
<1> QED
  BY <1>1, <1>2, <1>3, <1>4, <1>5

\* A job that ends leaves everything as it is, but for a copy of the transcript.
LEMMA EndsFine ==
  ASSUME PhasedInv, NEW g \in RunGenerations, AtRest(g), Ends(g),
         UNCHANGED <<vars, attempts, completed>>, delivered' = delivered,
         archived' = archived \/ archived' = Put(archived, g, Transcribed(g))
  PROVE  StepFine(g)
<1>1. JobsOK /\ attempts \in 0..MaxAttempts
  BY JobFacts
<1>2. JobsOK' /\ OtherJobsStay(g) /\ job'[g] = NoJob
  BY <1>1, JobEnds
<1>3. UNCHANGED <<message, event, review>> /\ [Next]_vars
  BY DEF vars, criticVars, transcriptVars
<1>4. \A h : Transcribed(h)' = Transcribed(h)
  BY <1>3 DEF Transcribed
<1>5. \A h \in RunGenerations : OutStays(h)
  BY <1>4 DEF OutStays, IsCopied, Put
<1>6. job'[g].phase = "none" /\ job'[g].step = "none"
  BY <1>2 DEF NoJob
<1>7. LastSteps(g)'
  BY <1>6 DEF LastSteps
<1>8. \A n \in Nat : PhaseInv(g, n)'
  BY <1>6 DEF PhaseInv, IsOpened, Turns
<1> QED
  BY <1>2, <1>3, <1>5, <1>7, <1>8, QuietFine

\* A job at rest that goes on to its next step, in a state in which nothing but its
\* new step changes.
LEMMA ContinuesFine ==
  ASSUME PhasedInv, NEW g \in RunGenerations, AtRest(g), job[g].phase # "none",
         NEW phase, NEW step, Continues(g, phase, step), [Next]_vars,
         UNCHANGED <<message, event, review, attempts, archived, completed>>,
         delivered \subseteq delivered',
         phase \in Turns \cup {"synthesis", "publication"},
         step \in StepsOf(phase), step # "turns",
         \A n \in Nat : SaidInv(g, n) /\ PhaseInv(g, n) => PhaseInv(g, n)', LastSteps(g)'
  PROVE  StepFine(g)
<1>1. JobsOK' /\ OtherJobsStay(g)
  BY JobFacts, JobContinues
<1>2. \A h \in RunGenerations : OutStays(h)
  BY Silence, OutsKept
<1> QED
  BY <1>1, <1>2, QuietFine

-----------------------------------------------------------------------------
(***************************************************************************)
(* The steps of a job, one by one.                                         *)
(***************************************************************************)
LEMMA BeginsFine ==
  ASSUME PhasedInv, NEW g \in RunGenerations, NEW op \in {"run", "resume"}, NEW c \in Critics,
         NEW phase \in {"designation", "synthesis"}, Begins(g, op, c, phase),
         \A n \in Nat : SaidInv(g, n) /\ phase = "synthesis" => AllRevised(g, n)
  PROVE  StepFine(g)
<1> DEFINE j == [op |-> op, n |-> attempts + 1, critic |-> c, phase |-> phase, step |-> "assign",
                 first |-> 1]
           t == turn[g]
<1>0. /\ JobsOK /\ attempts \in 0..MaxAttempts /\ job[g] = NoJob /\ attempts < MaxAttempts
      /\ t \in [Agents -> TurnStates]
      /\ MaxAttempts \in Nat
      /\ UNCHANGED <<vars, turn, outVars>>
      /\ attempts' = attempts + 1 /\ job' = [job EXCEPT ![g] = j]
  BY JobFacts, PhasedAssumption DEF Begins
<1>1. attempts + 1 \in 1..MaxAttempts /\ attempts' \in 0..MaxAttempts
  BY <1>0
<1>2. j \in JobRecord
  BY <1>1 DEF JobRecord
<1>3. /\ j.phase = phase /\ j.step = "assign" /\ j.n = attempts + 1 /\ j.critic = c
      /\ j.step \in StepsOf(j.phase)
  BY DEF StepsOf, Turns
<1>4. AtRest(g)
  BY <1>0, JobFacts DEF NoJob
<1>5. \A i \in Agents : t[i] \notin {"running", "confirmed", "recorded"}
  BY <1>4 DEF AtRest
<1>6. turn' = [turn EXCEPT ![g] = t]
  BY <1>0 DEF JobsOK, JobTypeOK
<1>13. j.n \in 1..MaxAttempts /\ j.critic \in Critics /\ j.step # "turns"
  BY <1>1, <1>3
<1> HIDE DEF j, t
<1>7. JobsOK' /\ OtherJobsStay(g) /\ job'[g] = j /\ turn'[g] = t
  <2>1. j.step \in StepsOf(j.phase)
    BY <1>3
  <2> QED  BY <1>0, <1>1, <1>2, <1>13, <1>5, <1>6, <2>1, JobReplaced
<1>8. /\ UNCHANGED <<message, event, review, delivered, archived, completed>> /\ [Next]_vars
  BY <1>0 DEF vars, criticVars, transcriptVars, outVars
<1>9. \A h \in RunGenerations : OutStays(h)
  BY <1>8, Silence, OutsKept
<1>10. LastSteps(g)'
  BY <1>3, <1>7 DEF LastSteps
<1>11. \A n \in Nat : SaidInv(g, n) => (phase = "synthesis" => AllRevised(g, n)')
  BY <1>8 DEF AllRevised, Transcribed
<1>12. ASSUME NEW n \in Nat, SaidInv(g, n)
       PROVE  PhaseInv(g, n)'
  <2>1. ~IsOpened(g)'
    BY <1>3, <1>7 DEF IsOpened, Turns
  <2> QED
    BY <1>3, <1>7, <1>11, <1>12, <2>1 DEF PhaseInv
<1> QED
  BY <1>7, <1>8, <1>9, <1>10, <1>12, QuietFine

\* What IsComplete finds is one revision of every specialist.
LEMMA CompleteIsRevised ==
  ASSUME PhasedInv, NEW g \in RunGenerations, IsComplete(g), NEW n \in Nat, SaidInv(g, n)
  PROVE  AllRevised(g, n)
<1>1. g \in DOMAIN review
  BY DEF IsComplete, IsReviewedBy
<1>2. Critique(n) \in Transcribed(g)
  BY <1>1 DEF SaidInv, SaidInOrder
<1>3. SUFFICES ASSUME NEW i \in 1..Specialists
               PROVE  Revised(i, n) \in Transcribed(g)
  BY <1>1 DEF AllRevised
<1>4. Critique(n)[1] = "critique"
  BY DEF Critique, TurnEvent
<1>5. Position(i, n) \in Transcribed(g)
  BY <1>2, <1>4 DEF SaidInv, SaidInOrder
<1>6. PICK k \in DOMAIN message : k[1] = g /\ message[k].event = Position(i, n)
  BY <1>5 DEF Transcribed
<1>7. Position(i, n)[1] = "initial" /\ Position(i, n)[2] = i
  BY DEF Position, TurnEvent
<1>8. message[k] \in Said(g, "initial")
  BY <1>6, <1>7 DEF Said
<1>9. PICK r \in Said(g, "revision") : r \in {q \in Said(g, "revision") : q.event[2] = message[k].event[2]}
  BY <1>8 DEF IsComplete
<1>10. r.event \in Transcribed(g) /\ r.event[1] = "revision" /\ r.event[2] = i
  BY <1>6, <1>7, <1>9 DEF Said, Transcribed
<1>11. PICK l \in 1..Specialists : r.event = Revised(l, n)
  BY <1>10 DEF SaidInv, SaidInOneRun
<1>12. l = i
  BY <1>10, <1>11 DEF Revised, TurnEvent
<1> QED
  BY <1>10, <1>11, <1>12

\* The critic is designated, or is so already.
LEMMA DesignatesFine ==
  ASSUME PhasedInv, NEW g \in RunGenerations, g \in Known, Designates(g)
  PROVE  StepFine(g)
<1>1. /\ job[g].phase = "designation" /\ AtRest(g) /\ job[g].critic \in Critics
      /\ Continues(g, "initial", "assign") /\ JobsOK
  BY JobFacts DEF Designates
<1>2. UNCHANGED <<attempts, delivered, archived, completed>>
  BY DEF Designates, outVars
<1>3. /\ UNCHANGED vars \/ DesignateCritic(g, job[g].critic)
  BY DEF Designates
<1>4. UNCHANGED <<message, event, review>>
  BY <1>3 DEF vars, criticVars, transcriptVars, DesignateCritic
<1>5. [Next]_vars
  BY <1>1, <1>3 DEF Next
<1>6. "assign" \in StepsOf("initial") /\ "initial" \in Turns
  BY DEF StepsOf, Turns
<1>7. attempts' \in 0..MaxAttempts
  BY <1>2, JobFacts
<1>8. job'[g] = [job[g] EXCEPT !.phase = "initial", !.step = "assign"] /\ job[g] \in JobRecord
  BY <1>1, <1>6, <1>7, JobContinues, JobFacts
<1>9. job'[g].phase = "initial" /\ job'[g].step = "assign"
  BY <1>8 DEF JobRecord
<1>10. LastSteps(g)' /\ \A n \in Nat : PhaseInv(g, n)'
  BY <1>9 DEF LastSteps, PhaseInv, IsOpened
<1> QED
  BY <1>1, <1>2, <1>4, <1>5, <1>6, <1>10, ContinuesFine

\* A message of a job, seen from its own generation and from the others.
LEMMA SpeechFrame ==
  ASSUME PhasedInv, NEW g \in RunGenerations, NEW e \in Events, NEW a \in Critics \cup {None},
         AppendConfirmedMessage(g, e, a), UNCHANGED <<delivered, archived, completed>>
  PROVE  /\ [Next]_vars /\ OnlyJobs' /\ CompletedInv(g)'
         /\ \A h \in RunGenerations \ {g} : SpeechStays(h) /\ OutStays(h)
         /\ e \notin DOMAIN event /\ e \notin Transcribed(g)
         /\ DOMAIN event' = DOMAIN event \cup {e}
         /\ Transcribed(g)' = Transcribed(g) \cup {e}
         /\ \A d \in Transcribed(g) : Place(d)' = Place(d) /\ Place(d) < Place(e)'
         /\ review' = review
<1>1. SessionInv /\ TranscriptInv /\ OnlyJobs /\ CompletedInv(g) /\ g \in Generations
  BY JobFacts
<1>2. /\ g \in Known /\ IsCurrent(g, {"active"})
      /\ e \notin DOMAIN event /\ e \notin Transcribed(g)
      /\ DOMAIN event' = DOMAIN event \cup {e}
      /\ Transcribed(g)' = Transcribed(g) \cup {e}
      /\ \A d \in Transcribed(g) : Place(d)' = Place(d) /\ Place(d) < Place(e)'
      /\ \A h : h # g => SpeechStays(h)
      /\ review' = review
      /\ \A k \in DOMAIN message' : k \in DOMAIN message \/ k[1] = g
  BY <1>1, Speech
<1>3. [Next]_vars
  BY <1>2 DEF Next
<1>4. \A h \in RunGenerations \ {g} : SpeechStays(h) /\ OutStays(h)
  BY <1>2, OutsKept
<1>5. g \notin completed
  BY <1>1, <1>2 DEF CompletedInv, IsCurrent, SessionInv, LatestIsActive
<1>6. CompletedInv(g)' /\ OnlyJobs'
  BY <1>1, <1>2, <1>5 DEF CompletedInv, OnlyJobs
<1> QED
  BY <1>2, <1>3, <1>4, <1>6

\* The first assignment that a generation records gives it to one attempt; the later
\* ones are of the same attempt.
LEMMA AssignsFine ==
  ASSUME PhasedInv, NEW g \in RunGenerations, Assigns(g)
  PROVE  StepFine(g)
<1>0. PICK phase : phase = job[g].phase
  OBVIOUS
<1> DEFINE e == AssignmentEvent(g, phase)
<1>1. /\ job[g].step = "assign" /\ phase \in Turns
      /\ AppendConfirmedMessage(g, e, None)
      /\ Continues(g, phase, "assigned")
      /\ UNCHANGED <<attempts, delivered, archived, completed>>
  BY <1>0 DEF Assigns, Turns, outVars
<1>2. /\ JobsOK /\ SessionInv /\ TranscriptInv /\ OnlyJobs /\ AtRest(g) /\ g \in Generations
      /\ job[g] \in JobRecord /\ job[g].n \in 1..MaxAttempts /\ LastSteps(g) /\ CompletedInv(g)
      /\ attempts' \in 0..MaxAttempts /\ phase # "none"
  BY <1>0, <1>1, JobFacts DEF Turns
<1>3. e \in Events /\ e[1] = "assignment"
  BY <1>1, <1>2, TurnEventAssumption DEF AssignmentEvent
<1>4. /\ [Next]_vars /\ OnlyJobs' /\ CompletedInv(g)'
      /\ \A h \in RunGenerations \ {g} : SpeechStays(h) /\ OutStays(h)
      /\ e \notin DOMAIN event /\ e \notin Transcribed(g)
      /\ DOMAIN event' = DOMAIN event \cup {e}
      /\ Transcribed(g)' = Transcribed(g) \cup {e}
      /\ \A d \in Transcribed(g) : Place(d)' = Place(d) /\ Place(d) < Place(e)'
      /\ review' = review
  BY <1>1, <1>3, SpeechFrame
<1>6. /\ "assigned" \in StepsOf(phase)
  BY <1>1 DEF StepsOf
<1>7. /\ JobsOK' /\ OtherJobsStay(g) /\ turn'[g] = turn[g]
      /\ job'[g] = [job[g] EXCEPT !.phase = phase, !.step = "assigned"]
  <2>1. /\ JobsOK /\ AtRest(g) /\ job[g].phase # "none" /\ attempts' \in 0..MaxAttempts
        /\ phase \in Turns \cup {"synthesis", "publication"}
        /\ Continues(g, phase, "assigned") /\ "assigned" # "turns"
    BY <1>0, <1>1, <1>2
  <2> QED  BY <1>6, <2>1, JobContinues
<1>8. /\ job'[g].phase = phase /\ job'[g].step = "assigned" /\ job'[g].n = job[g].n
  BY <1>2, <1>7 DEF JobRecord
<1>10. LastSteps(g)'
  BY <1>8 DEF LastSteps
<1> HIDE DEF e
<1>13. ASSUME NEW n \in Nat, SaidInv(g, n)
       PROVE  SaidInv(g, n)'
  <2>1. SaidInOneRun(g, n)'
    BY <1>3, <1>4, <1>13 DEF SaidInv, SaidInOneRun, Position, Critique, Revised, TurnEvent
  <2>2. SaidAfterOpening(g)'
    BY <1>3, <1>4, <1>13 DEF SaidInv, SaidAfterOpening, Opening, AssignmentEvent, Turns
  <2>3. SaidInOrder(g, n)'
    BY <1>3, <1>4, <1>13 DEF SaidInv, SaidInOrder
  <2> QED
    BY <2>1, <2>2, <2>3 DEF SaidInv
<1>14. PICK n \in Nat : SaidInv(g, n) /\ PhaseInv(g, n)
  BY JobFacts DEF JobInv
<1>15. CASE phase = "initial"
  <2>0. PICK m : m = job[g].n
    OBVIOUS
  <2>1. e = Opening(g)
    BY <1>15 DEF e, Opening, AssignmentEvent
  <2>2. \A d \in Transcribed(g) : d[1] \notin Turns \cup {"final"}
    BY <1>4, <1>14, <2>1 DEF SaidInv, SaidAfterOpening
  <2>3. g \notin DOMAIN review
    <3>1. g \in DOMAIN review => Critique(n) \in Transcribed(g) /\ Critique(n)[1] = "critique"
      BY <1>14 DEF SaidInv, SaidInOrder, Critique, TurnEvent
    <3> QED  BY <2>2, <3>1 DEF Turns
  <2>4. SaidInv(g, m)
    BY <2>2, <2>3 DEF SaidInv, SaidInOneRun, SaidAfterOpening, SaidInOrder, Turns
  <2>5. m \in Nat
    BY <1>2, <2>0
  <2>6. PhaseInv(g, m)'
    <3>1. \A d \in Transcribed(g)' : d[1] \notin Turns \cup {"final"}
      BY <1>3, <1>4, <2>2 DEF Turns
    <3>2. Opening(g) \in DOMAIN event'
      BY <1>4, <2>1
    <3>3. job'[g].n = m
      BY <1>8, <2>0
    <3>4. \A i \in 1..Specialists : ~HasSpoken(g, i)'
      BY <1>8 DEF HasSpoken
    <3> QED
      BY <1>8, <1>15, <3>1, <3>2, <3>3, <3>4 DEF PhaseInv, Turns, Opening, AssignmentEvent
  <2>7. SaidInv(g, m)'
    BY <1>13, <2>4, <2>5
  <2>8. JobInv(g)'
    BY <2>5, <2>6, <2>7 DEF JobInv
  <2> QED
    BY <1>4, <1>7, <1>10, <2>8 DEF StepFine
<1>16. CASE phase # "initial"
  <2>1. SaidInv(g, n)'
    BY <1>13, <1>14
  <2>2. IsOpened(g)
    BY <1>0, <1>1, <1>16 DEF IsOpened
  <2>3. \A i \in 1..Specialists : ~HasSpoken(g, i)'
    BY <1>8 DEF HasSpoken
  <2>4. PhaseInv(g, n)'
    BY <1>0, <1>1, <1>3, <1>4, <1>8, <1>14, <1>16, <2>2, <2>3
    DEF PhaseInv, Turns, Opening, AssignmentEvent
  <2>5. JobInv(g)'
    BY <2>1, <2>4 DEF JobInv
  <2> QED
    BY <1>4, <1>7, <1>10, <2>5 DEF StepFine
<1> QED
  BY <1>15, <1>16

\* A delivered assignment begins the first batch of its phase.
LEMMA AssignmentDeliveredFine ==
  ASSUME PhasedInv, NEW g \in RunGenerations, AssignmentDelivered(g)
  PROVE  StepFine(g)
<1>0. PICK phase : phase = job[g].phase
  OBVIOUS
<1>1. /\ job[g].step = "assigned" /\ phase \in Turns
      /\ UNCHANGED <<vars, attempts, archived, completed>>
      /\ JobsOK /\ AtRest(g) /\ job[g] \in JobRecord /\ job[g].phase # "none"
      /\ attempts' \in 0..MaxAttempts
  BY <1>0, JobFacts DEF AssignmentDelivered, Turns
<1>2. CASE Ends(g) /\ UNCHANGED delivered
  BY <1>1, <1>2, EndsFine
<1>3. ASSUME NEW first, first = IF phase = "critique" THEN Critic ELSE 1,
             delivered \subseteq delivered', TurnsBegin(g, phase, first)
      PROVE  StepFine(g)
  <2>1. first \in Nat /\ (phase = "critique" => first = Critic)
    BY <1>3 DEF Critic
  <2>2. /\ JobsOK' /\ OtherJobsStay(g)
        /\ job'[g].phase = phase /\ job'[g].step = "turns" /\ job'[g].first = first
        /\ job'[g].n = job[g].n
        /\ \A i \in Team(phase) \cap (first..(first + Concurrency - 1)) : turn'[g][i] = "running"
    BY <1>1, <1>3, <2>1, BatchBegins
  <2>4. \A i \in 1..Specialists : ~HasSpoken(g, i)'
    BY <1>3, <2>2, TeamsAreAgents DEF HasSpoken, Batch
  <2>5. phase = "critique" => turn'[g][Critic] = "running"
    BY <1>3, <2>2, TeamsAreAgents DEF Team
  <2>6. UNCHANGED <<message, event, review>> /\ [Next]_vars
    BY <1>1 DEF vars, criticVars, transcriptVars
  <2>7. \A h : Transcribed(h)' = Transcribed(h)
    BY <2>6 DEF Transcribed
  <2>8. IsOpened(g)
    BY <1>0, <1>1 DEF IsOpened
  <2>9. ASSUME NEW n \in Nat, PhaseInv(g, n)
        PROVE  PhaseInv(g, n)'
    BY <1>0, <1>1, <2>2, <2>4, <2>5, <2>6, <2>7, <2>8, <2>9
    DEF PhaseInv, IsOpened, Turns, Opening, AssignmentEvent
  <2>10. LastSteps(g)'
    BY <2>2 DEF LastSteps
  <2>11. \A h \in RunGenerations : OutStays(h)
    BY <1>1, <1>3, <2>6, Silence, OutsKept
  <2> QED
    BY <1>1, <2>2, <2>6, <2>9, <2>10, <2>11, QuietFine
<1> QED
  BY <1>0, <1>2, <1>3 DEF AssignmentDelivered

\* A turn that moves on, with nothing said or recorded.
LEMMA MovesFine ==
  ASSUME PhasedInv, NEW g \in RunGenerations, NEW i \in Agents, NEW to \in {"done", "failed"},
         Moves(g, i, to), UNCHANGED <<vars, archived, completed>>, delivered \subseteq delivered',
         \/ turn[g][i] \in {"running", "confirmed", "recorded"} /\ to = "failed"
         \/ turn[g][i] = "confirmed" /\ i # Critic
         \/ turn[g][i] = "recorded" /\ i = Critic
  PROVE  StepFine(g)
<1>1. JobsOK /\ turn[g] \in [Agents -> TurnStates] /\ to \in TurnStates
  BY JobFacts DEF TurnStates
<1>2. /\ JobsOK' /\ OtherJobsStay(g) /\ job' = job
      /\ turn'[g] = [turn[g] EXCEPT ![i] = to]
  BY <1>1, TurnMoves
<1>3. UNCHANGED <<message, event, review>> /\ [Next]_vars
  BY DEF vars, criticVars, transcriptVars
<1>4. \A h : Transcribed(h)' = Transcribed(h)
  BY <1>3 DEF Transcribed
<1>5. \A k \in 1..Specialists : HasSpoken(g, k)' => HasSpoken(g, k)
  BY <1>1, <1>2, TeamsAreAgents DEF HasSpoken, Batch
<1>6. turn'[g][Critic] \in {"recorded", "done"} => turn[g][Critic] \in {"recorded", "done"}
  BY <1>1, <1>2, TeamsAreAgents
<1>7. ASSUME NEW n \in Nat, PhaseInv(g, n)
      PROVE  PhaseInv(g, n)'
  BY <1>2, <1>3, <1>4, <1>5, <1>6, <1>7
  DEF PhaseInv, IsOpened, Opening, AssignmentEvent, AllRevised
<1>8. \A h \in RunGenerations : OutStays(h)
  BY <1>3, Silence, OutsKept
<1>9. LastSteps(g)'
  BY <1>2, <1>3, <1>8, Silence, LastStepsKept DEF PhasedInv
<1> QED
  BY <1>2, <1>3, <1>7, <1>8, <1>9, QuietFine

\* The receipt is of the critique of this attempt, which has heard every position.
LEMMA ReviewsFine ==
  ASSUME PhasedInv, NEW g \in RunGenerations, g \in Known, Reviews(g)
  PROVE  StepFine(g)
<1>0. PICK m : m = job[g].n
  OBVIOUS
<1> DEFINE e == Critique(m)
<1>1. /\ JobsOK /\ SessionInv /\ TranscriptInv /\ OnlyJobs /\ CompletedInv(g)
      /\ turn[g] \in [Agents -> TurnStates] /\ "recorded" \in TurnStates
      /\ turn[g][Critic] = "confirmed" /\ Critic \in Agents
      /\ Moves(g, Critic, "recorded")
      /\ RecordCriticReview(g, e, job[g].critic)
      /\ UNCHANGED <<delivered, archived, completed>>
  BY <1>0, JobFacts, TeamsAreAgents DEF Reviews, TurnStates, outVars, Critique
<1>2. /\ JobsOK' /\ OtherJobsStay(g) /\ job' = job
      /\ job[g].step = "turns" /\ Critic \in Batch(g) /\ job[g].phase \in Turns
      /\ turn'[g] = [turn[g] EXCEPT ![Critic] = "recorded"]
  BY <1>1, TurnMoves
<1>3. job[g].phase = "critique"
  BY <1>2, TeamsAreAgents DEF Batch, Team
<1>4. job[g].n \in 1..MaxAttempts /\ job[g].critic \in Critics
  BY <1>3, JobFacts
<1>5. /\ g \notin DOMAIN review
      /\ DOMAIN review' = DOMAIN review \cup {g}
      /\ review'[g].sequence = Place(e)
      /\ \A h \in DOMAIN review : review'[h] = review[h]
      /\ e \in DOMAIN event /\ event[e].message.generation = g
      /\ UNCHANGED <<message, event>>
  BY <1>1 DEF RecordCriticReview, IsCritique, Put, Place, transcriptVars
<1>6. e \in Events
  BY <1>0, <1>4, TurnEventAssumption, TeamsAreAgents DEF Critique, Turns
<1>7. [Next]_vars
  BY <1>1, <1>4, <1>6 DEF Next
<1>8. \A h \in RunGenerations \ {g} : SpeechStays(h)
  BY <1>5 DEF SpeechStays, Transcribed, Place
<1>9. \A h \in RunGenerations \ {g} : OutStays(h)
  BY <1>1, <1>8, OutsKept
<1>10. OnlyJobs'
  BY <1>1, <1>5 DEF OnlyJobs
<1>11. /\ \A h : Transcribed(h)' = Transcribed(h)
       /\ \A d : Place(d)' = Place(d)
  BY <1>5 DEF Transcribed, Place
<1>12. LastSteps(g)'
  BY <1>2 DEF LastSteps
<1>13. CompletedInv(g)'
  <2>1. g \in DOMAIN session /\ session[g].phase # "active" =>
          g \in DOMAIN session' /\ session'[g].phase # "active"
    BY <1>1, <1>7, FenceKept
  <2> QED
    BY <1>1, <1>11, <2>1 DEF CompletedInv, IsCopied
<1>14. PICK n \in Nat : SaidInv(g, n) /\ PhaseInv(g, n)
  BY JobFacts DEF JobInv
<1>15. n = m
  BY <1>0, <1>3, <1>14, <1>2 DEF PhaseInv, IsOpened
<1>16. e \in Transcribed(g)
  <2>1. /\ message[<<g, event[e].message.sequence>>] = event[e].message
        /\ <<g, event[e].message.sequence>> \in DOMAIN message
        /\ event[e].message.event = e
    BY <1>1, <1>5 DEF TranscriptInv, EventsHaveRows
  <2> QED
    BY <2>1 DEF Transcribed
<1> HIDE DEF e
<1>17. SaidInv(g, n)'
  <2>1. SaidInOneRun(g, n)'
    BY <1>11, <1>14 DEF SaidInv, SaidInOneRun, Position, Critique, Revised, TurnEvent
  <2>2. SaidAfterOpening(g)'
    BY <1>5, <1>11, <1>14 DEF SaidInv, SaidAfterOpening, Opening, AssignmentEvent
  <2>3. SaidInOrder(g, n)'
    BY <1>5, <1>11, <1>14, <1>15, <1>16 DEF SaidInv, SaidInOrder, e
  <2> QED  BY <2>1, <2>2, <2>3 DEF SaidInv
<1>18. PhaseInv(g, n)'
  BY <1>2, <1>3, <1>5, <1>11, <1>14 DEF PhaseInv, IsOpened, Turns, Opening, AssignmentEvent
<1>19. JobInv(g)'
  BY <1>17, <1>18 DEF JobInv
<1> QED
  BY <1>2, <1>7, <1>8, <1>9, <1>10, <1>12, <1>13, <1>19 DEF StepFine

\* What an agent says in its turn is the one thing the transcript waited for.
LEMMA ConfirmsFine ==
  ASSUME PhasedInv, NEW g \in RunGenerations, NEW i \in Agents, Confirms(g, i)
  PROVE  StepFine(g)
<1>0. PICK m, phase, a : /\ m = job[g].n /\ phase = job[g].phase
                         /\ a = IF i = Critic THEN job[g].critic ELSE None
  OBVIOUS
<1> DEFINE e == TurnEvent(phase, i, m)
<1>1. /\ JobsOK /\ turn[g] \in [Agents -> TurnStates] /\ "confirmed" \in TurnStates
      /\ turn[g][i] = "running"
      /\ Moves(g, i, "confirmed")
      /\ AppendConfirmedMessage(g, e, a)
      /\ UNCHANGED <<delivered, archived, completed>>
  BY <1>0, JobFacts DEF Confirms, TurnStates, outVars
<1>2. /\ JobsOK' /\ OtherJobsStay(g) /\ job' = job
      /\ job[g].step = "turns" /\ i \in Batch(g) /\ phase \in Turns
      /\ turn'[g] = [turn[g] EXCEPT ![i] = "confirmed"]
  BY <1>0, <1>1, TurnMoves
<1>3. m \in 1..MaxAttempts /\ job[g].critic \in Critics
  BY <1>0, <1>2, JobFacts DEF Turns
<1>4. e \in Events /\ a \in Critics \cup {None}
  BY <1>0, <1>2, <1>3, TurnEventAssumption
<1>5. /\ [Next]_vars /\ OnlyJobs' /\ CompletedInv(g)'
      /\ \A h \in RunGenerations \ {g} : SpeechStays(h) /\ OutStays(h)
      /\ e \notin DOMAIN event /\ e \notin Transcribed(g)
      /\ DOMAIN event' = DOMAIN event \cup {e}
      /\ Transcribed(g)' = Transcribed(g) \cup {e}
      /\ \A d \in Transcribed(g) : Place(d)' = Place(d) /\ Place(d) < Place(e)'
      /\ review' = review
  BY <1>1, <1>4, SpeechFrame
<1>6. LastSteps(g)'
  BY <1>2 DEF LastSteps
<1>7. PICK n \in Nat : SaidInv(g, n) /\ PhaseInv(g, n)
  BY JobFacts DEF JobInv
<1>8. /\ IsOpened(g) /\ n = m
      /\ Opening(g) \in DOMAIN event
      /\ \A d \in Transcribed(g) : d[1] # "final"
  BY <1>0, <1>2, <1>7 DEF PhaseInv, IsOpened
<1>9. /\ e[1] = phase /\ e = TurnEvent(phase, i, n)
      /\ e[1] # "final"
  BY <1>2, <1>8 DEF TurnEvent, Turns
<1>10. /\ phase = "critique" => i = Critic
       /\ phase # "critique" => i \in 1..Specialists
  BY <1>0, <1>2 DEF Batch, Team
<1>11. /\ phase = "initial" => e = Position(i, n)
       /\ phase = "critique" => e = Critique(n)
       /\ phase = "revision" => e = Revised(i, n)
  BY <1>9, <1>10 DEF Position, Critique, Revised
<1>12. \A k \in 1..Specialists : HasSpoken(g, k)' => HasSpoken(g, k) \/ k = i
  BY <1>1, <1>2, TeamsAreAgents DEF HasSpoken, Batch
<1>13. phase = "critique" => turn'[g][Critic] = "confirmed"
  BY <1>1, <1>2, <1>10
<1> HIDE DEF e
<1>14. SaidInOneRun(g, n)'
  <2>1. \A d \in Transcribed(g) :
          /\ d[1] = "initial" => \E k \in 1..Specialists : d = Position(k, n)
          /\ d[1] = "critique" => d = Critique(n)
          /\ d[1] = "revision" => \E k \in 1..Specialists : d = Revised(k, n)
    BY <1>7 DEF SaidInv, SaidInOneRun
  <2>2. /\ e[1] = "initial" => \E k \in 1..Specialists : e = Position(k, n)
        /\ e[1] = "critique" => e = Critique(n)
        /\ e[1] = "revision" => \E k \in 1..Specialists : e = Revised(k, n)
    BY <1>9, <1>10, <1>11
  <2> QED
    BY <1>5, <2>1, <2>2 DEF SaidInOneRun, Position, Critique, Revised, TurnEvent
<1>15. SaidAfterOpening(g)'
  BY <1>5, <1>8 DEF SaidAfterOpening, Opening, AssignmentEvent
<1>16. SaidInOrder(g, n)'
  <2>0. SaidInOrder(g, n)
    BY <1>7 DEF SaidInv
  <2>1. CASE phase = "initial"
    <3>1. \A d \in Transcribed(g) : d[1] \notin {"critique", "revision", "final"}
      BY <1>0, <1>7, <1>8, <2>1 DEF PhaseInv
    <3>2. g \notin DOMAIN review
      BY <2>0, <3>1 DEF SaidInOrder, Critique, TurnEvent
    <3> QED
      BY <1>5, <1>9, <2>1, <3>1, <3>2 DEF SaidInOrder
  <2>2. CASE phase = "critique"
    <3>1. \A k \in 1..Specialists : Position(k, n) \in Transcribed(g)
      BY <1>0, <1>7, <2>2 DEF PhaseInv
    <3>2. \A k \in 1..Specialists : Position(k, n) \in Transcribed(g)'
                                    /\ Place(Position(k, n))' < Place(e)'
      BY <1>5, <3>1
    <3> QED
      BY <1>5, <1>8, <1>9, <2>0, <2>2, <3>2 DEF SaidInOrder
  <2>3. CASE phase = "revision"
    <3>1. g \in DOMAIN review
      BY <1>0, <1>7, <2>3 DEF PhaseInv
    <3>2. review[g].sequence < Place(e)'
      BY <1>5, <2>0, <3>1 DEF SaidInOrder
    <3> QED
      BY <1>5, <1>8, <1>9, <2>0, <2>3, <3>1, <3>2 DEF SaidInOrder
  <2> QED
    BY <1>2, <2>1, <2>2, <2>3 DEF Turns
<1>17. SaidInv(g, n)'
  BY <1>14, <1>15, <1>16 DEF SaidInv
<1>18. PhaseInv(g, n)'
  <2>1. job'[g] = job[g] /\ IsOpened(g)'
    BY <1>2, <1>8 DEF IsOpened
  <2>2. /\ job'[g].n = n
        /\ Opening(g)' \in DOMAIN event'
        /\ \A d \in Transcribed(g)' : d[1] # "final"
    BY <1>0, <1>5, <1>8, <1>9, <2>1 DEF Opening, AssignmentEvent
  <2>3. CASE phase = "initial"
    <3>1. /\ \A d \in Transcribed(g)' : d[1] \notin {"critique", "revision"}
          /\ \A k \in 1..Specialists : HasSpoken(g, k)' => Position(k, n) \in Transcribed(g)'
      BY <1>0, <1>5, <1>7, <1>8, <1>9, <1>11, <1>12, <2>3 DEF PhaseInv
    <3> QED
      BY <1>0, <2>1, <2>2, <2>3, <3>1 DEF PhaseInv
  <2>4. CASE phase = "critique"
    <3>1. \A k \in 1..Specialists : Position(k, n) \in Transcribed(g)'
      BY <1>0, <1>5, <1>7, <2>4 DEF PhaseInv
    <3> QED
      BY <1>0, <1>13, <2>1, <2>2, <2>4, <3>1 DEF PhaseInv
  <2>5. CASE phase = "revision"
    <3>1. /\ g \in DOMAIN review'
          /\ \A k \in 1..Specialists : HasSpoken(g, k)' => Revised(k, n) \in Transcribed(g)'
      BY <1>0, <1>5, <1>7, <1>11, <1>12, <2>5 DEF PhaseInv
    <3> QED
      BY <1>0, <2>1, <2>2, <2>5, <3>1 DEF PhaseInv
  <2> QED
    BY <1>2, <2>3, <2>4, <2>5 DEF Turns
<1>19. JobInv(g)'
  BY <1>17, <1>18 DEF JobInv
<1> QED
  BY <1>2, <1>5, <1>6, <1>19 DEF StepFine

\* Once its batch has succeeded, every specialist of it has spoken.
LEMMA BatchHeard ==
  ASSUME PhasedInv, NEW g \in RunGenerations, job[g].step = "turns", Succeeded(g),
         job[g].phase # "critique", NEW i \in 1..Specialists, i < job[g].first + Concurrency
  PROVE  HasSpoken(g, i)
<1>1. job[g].first \in Nat
  BY JobFacts DEF JobRecord
<1>2. CASE i < job[g].first
  BY <1>2 DEF HasSpoken
<1>3. CASE ~(i < job[g].first)
  <2>1. i \in Batch(g)
    BY <1>1, <1>3, TeamsAreAgents DEF Batch, Team
  <2> QED
    BY <2>1 DEF HasSpoken, Succeeded
<1> QED  BY <1>2, <1>3

\* A phase is left only when all its specialists have been confirmed in it.
LEMMA BatchEndsFine ==
  ASSUME PhasedInv, NEW g \in RunGenerations, BatchEnds(g)
  PROVE  StepFine(g)
<1>0. PICK phase, next : phase = job[g].phase /\ next = job[g].first + Concurrency
  OBVIOUS
<1>1. /\ job[g].step = "turns" /\ Settled(g) /\ phase \in Turns
      /\ UNCHANGED <<vars, attempts, delivered, archived, completed>>
      /\ JobsOK /\ job[g] \in JobRecord /\ job[g].phase # "none"
      /\ attempts' \in 0..MaxAttempts /\ job[g].first \in Nat
  BY <1>0, JobFacts DEF BatchEnds, Turns, outVars, JobRecord
<1>2. AtRest(g)
  BY <1>1, Rests
<1>3. UNCHANGED <<message, event, review>> /\ [Next]_vars
  BY <1>1 DEF vars, criticVars, transcriptVars
<1>4. \A h : Transcribed(h)' = Transcribed(h)
  BY <1>3 DEF Transcribed
<1>5. \A h \in RunGenerations : OutStays(h)
  BY <1>1, <1>3, Silence, OutsKept
<1>6. IsOpened(g)
  BY <1>0, <1>1 DEF IsOpened
<1>7. CASE ~Succeeded(g)
  <2>1. Ends(g)
    BY <1>7 DEF BatchEnds
  <2> QED
    BY <1>1, <1>2, <2>1, EndsFine
<1>8. ASSUME Succeeded(g), phase # "critique", TurnsBegin(g, phase, next)
      PROVE  StepFine(g)
  <2>1. next \in Nat
    BY <1>0, <1>1, TeamsAreAgents
  <2>2. /\ JobsOK' /\ OtherJobsStay(g)
        /\ job'[g].phase = phase /\ job'[g].step = "turns" /\ job'[g].first = next
        /\ job'[g].n = job[g].n
        /\ \A i \in Team(phase) \cap (next..(next + Concurrency - 1)) : turn'[g][i] = "running"
    BY <1>1, <1>2, <1>8, <2>1, BatchBegins
  <2>3. \A i \in 1..Specialists : HasSpoken(g, i)' => HasSpoken(g, i)
    <3>1. \A i \in 1..Specialists : HasSpoken(g, i)' => i < next
      BY <2>2 DEF HasSpoken, Batch
    <3> QED
      BY <1>0, <1>1, <1>8, <3>1, BatchHeard
  <2>4. ASSUME NEW n \in Nat, PhaseInv(g, n)
        PROVE  PhaseInv(g, n)'
    BY <1>0, <1>1, <1>3, <1>4, <1>6, <1>8, <2>2, <2>3, <2>4
    DEF PhaseInv, IsOpened, Turns, Opening, AssignmentEvent
  <2>5. LastSteps(g)'
    BY <2>2 DEF LastSteps
  <2> QED
    BY <1>1, <1>3, <1>5, <2>2, <2>4, <2>5, QuietFine
<1>9. ASSUME Succeeded(g), phase = "critique" \/ Team(phase) \cap (next..Specialists) = {},
             NEW after, Continues(g, after, "assign"),
             after = IF phase = "initial" THEN "critique"
                     ELSE IF phase = "critique" THEN "revision" ELSE "synthesis"
      PROVE  StepFine(g)
  <2>1. after \in Turns \cup {"synthesis", "publication"} /\ "assign" \in StepsOf(after)
    BY <1>9 DEF Turns, StepsOf
  <2>2. /\ JobsOK' /\ OtherJobsStay(g)
        /\ job'[g] = [job[g] EXCEPT !.phase = after, !.step = "assign"]
    BY <1>1, <1>2, <1>9, <2>1, JobContinues
  <2>3. job'[g].phase = after /\ job'[g].step = "assign" /\ job'[g].n = job[g].n
    BY <1>1, <2>2 DEF JobRecord
  <2>4. phase # "critique" => \A i \in 1..Specialists : HasSpoken(g, i)
    <3>1. SUFFICES ASSUME phase # "critique", NEW i \in 1..Specialists
                   PROVE  i < next
      BY <1>0, <1>1, <1>9, BatchHeard
    <3>2. i \in Team(phase) /\ next \in Nat
      BY <1>0, <1>1, <3>1, TeamsAreAgents DEF Team
    <3>3. i \notin next..Specialists
      BY <1>9, <3>1, <3>2
    <3> QED
      BY <3>2, <3>3, TeamsAreAgents
  <2>5. phase = "critique" => turn[g][Critic] = "done"
    <3>1. phase = "critique" => Critic \in Batch(g)
      <4>1. phase = "critique" => job[g].first = Critic
        BY <1>0, <1>1 DEF JobsOK, JobTypeOK
      <4>2. 0 \in 0..(0 + Concurrency - 1)
        BY TeamsAreAgents
      <4> QED
        BY <1>0, <4>1, <4>2, TeamsAreAgents DEF Batch, Team
    <3> QED
      BY <1>9, <3>1 DEF Succeeded
  <2>6. \A i \in 1..Specialists : ~HasSpoken(g, i)'
    BY <2>3 DEF HasSpoken
  <2>7. ASSUME NEW n \in Nat, PhaseInv(g, n)
        PROVE  PhaseInv(g, n)'
    <3>1. CASE phase = "initial"
      BY <1>0, <1>1, <1>3, <1>4, <1>6, <1>9, <2>3, <2>4, <2>6, <2>7, <3>1
      DEF PhaseInv, IsOpened, Turns, Opening, AssignmentEvent
    <3>2. CASE phase = "critique"
      BY <1>0, <1>1, <1>3, <1>4, <1>6, <1>9, <2>3, <2>5, <2>6, <2>7, <3>2
      DEF PhaseInv, IsOpened, Turns, Opening, AssignmentEvent
    <3>3. CASE phase = "revision"
      BY <1>0, <1>1, <1>3, <1>4, <1>6, <1>9, <2>3, <2>4, <2>6, <2>7, <3>3
      DEF PhaseInv, IsOpened, Turns, AllRevised
    <3> QED
      BY <1>1, <3>1, <3>2, <3>3 DEF Turns
  <2>8. LastSteps(g)'
    BY <2>3 DEF LastSteps
  <2> QED
    BY <1>1, <1>3, <1>5, <2>2, <2>7, <2>8, QuietFine
<1>10. CASE Succeeded(g)
  <2>1. CASE Team(phase) \cap (next..Specialists) # {} /\ phase # "critique"
    BY <1>0, <1>8, <1>10, <2>1 DEF BatchEnds
  <2>2. CASE ~(Team(phase) \cap (next..Specialists) # {} /\ phase # "critique")
    <3>1. Continues(g, IF phase = "initial" THEN "critique"
                       ELSE IF phase = "critique" THEN "revision" ELSE "synthesis", "assign")
      BY <1>0, <1>1, <1>10, <2>2 DEF BatchEnds, Turns
    <3> QED
      BY <1>9, <1>10, <2>2, <3>1
  <2> QED  BY <2>1, <2>2
<1> QED
  BY <1>7, <1>10

\* The synthesis, the message, its delivery and the copy follow one another.
LEMMA SynthesizesFine ==
  ASSUME PhasedInv, NEW g \in RunGenerations, Synthesizes(g)
  PROVE  StepFine(g)
<1>1. /\ job[g].phase = "synthesis" /\ AtRest(g) /\ job[g].phase # "none"
      /\ Continues(g, "publication", "append")
      /\ UNCHANGED <<vars, attempts, delivered, archived, completed>>
      /\ JobsOK /\ job[g] \in JobRecord /\ attempts' \in 0..MaxAttempts
  BY JobFacts DEF Synthesizes, outVars
<1>2. UNCHANGED <<message, event, review>> /\ [Next]_vars
  BY <1>1 DEF vars, criticVars, transcriptVars
<1>3. "append" \in StepsOf("publication")
  BY DEF StepsOf, Turns
<1>4. job'[g] = [job[g] EXCEPT !.phase = "publication", !.step = "append"]
  BY <1>1, <1>3, JobContinues
<1>5. job'[g].phase = "publication" /\ job'[g].step = "append"
  BY <1>1, <1>4 DEF JobRecord
<1>6. LastSteps(g)'
  BY <1>5 DEF LastSteps
<1>7. ASSUME NEW n \in Nat, PhaseInv(g, n)
      PROVE  PhaseInv(g, n)'
  BY <1>1, <1>2, <1>5, <1>7 DEF PhaseInv, IsOpened, Turns, AllRevised, Transcribed
<1> QED
  BY <1>1, <1>2, <1>3, <1>6, <1>7, ContinuesFine

\* The final follows every revision of the attempt.
LEMMA PublishesFine ==
  ASSUME PhasedInv, NEW g \in RunGenerations, Publishes(g)
  PROVE  StepFine(g)
<1>0. PICK m : m = job[g].n
  OBVIOUS
<1> DEFINE e == FinalEvent(m)
<1>1. /\ job[g].step = "append" /\ job[g].phase = "publication" /\ AtRest(g)
      /\ job[g].phase # "none"
      /\ AppendConfirmedMessage(g, e, None)
      /\ Continues(g, "publication", "deliver")
      /\ UNCHANGED <<delivered, archived, completed>>
      /\ JobsOK /\ job[g] \in JobRecord /\ attempts' \in 0..MaxAttempts
      /\ m \in 1..MaxAttempts
  BY <1>0, JobFacts DEF Publishes, outVars
<1>2. e \in Events /\ e[1] = "final"
  BY <1>1, TurnEventAssumption DEF FinalEvent
<1>3. /\ [Next]_vars /\ OnlyJobs' /\ CompletedInv(g)'
      /\ \A h \in RunGenerations \ {g} : SpeechStays(h) /\ OutStays(h)
      /\ e \notin DOMAIN event /\ e \notin Transcribed(g)
      /\ DOMAIN event' = DOMAIN event \cup {e}
      /\ Transcribed(g)' = Transcribed(g) \cup {e}
      /\ \A d \in Transcribed(g) : Place(d)' = Place(d) /\ Place(d) < Place(e)'
      /\ review' = review
  BY <1>1, <1>2, SpeechFrame
<1>4. "deliver" \in StepsOf("publication")
  BY DEF StepsOf, Turns
<1>5. /\ JobsOK' /\ OtherJobsStay(g)
      /\ job'[g] = [job[g] EXCEPT !.phase = "publication", !.step = "deliver"]
  BY <1>1, <1>4, JobContinues
<1>6. job'[g].phase = "publication" /\ job'[g].step = "deliver" /\ job'[g].n = m
  BY <1>0, <1>1, <1>5 DEF JobRecord
<1>7. LastSteps(g)'
  BY <1>3, <1>6 DEF LastSteps
<1>8. PICK n \in Nat : SaidInv(g, n) /\ PhaseInv(g, n)
  BY JobFacts DEF JobInv
<1>9. AllRevised(g, n)
  BY <1>1, <1>8 DEF PhaseInv
<1> HIDE DEF e
<1>10. AllRevised(g, n)'
  BY <1>3, <1>9 DEF AllRevised
<1>11. PhaseInv(g, n)'
  BY <1>6, <1>10 DEF PhaseInv, IsOpened, Turns
<1>12. SaidInOneRun(g, n)'
  BY <1>2, <1>3, <1>8 DEF SaidInv, SaidInOneRun, Position, Critique, Revised, TurnEvent
<1>13. SaidAfterOpening(g)'
  <2>1. Opening(g) \in DOMAIN event
    <3>1. PICK i : i \in 1..Specialists
      BY PhasedAssumption
    <3>2. Revised(i, n) \in Transcribed(g) /\ Revised(i, n)[1] = "revision"
      BY <1>9, <3>1 DEF AllRevised, Revised, TurnEvent
    <3> QED
      BY <1>8, <3>2 DEF SaidInv, SaidAfterOpening, Turns
  <2> QED
    BY <1>3, <2>1 DEF SaidAfterOpening, Opening, AssignmentEvent
<1>14. SaidInOrder(g, n)'
  <2>1. \A i \in 1..Specialists :
          Revised(i, n) \in Transcribed(g)' /\ Place(Revised(i, n))' < Place(e)'
    BY <1>3, <1>9 DEF AllRevised
  <2> QED
    BY <1>2, <1>3, <1>8, <1>9, <2>1 DEF SaidInv, SaidInOrder, AllRevised
<1>15. JobInv(g)'
  BY <1>8, <1>11, <1>12, <1>13, <1>14 DEF JobInv, SaidInv
<1> QED
  BY <1>3, <1>5, <1>7, <1>15 DEF StepFine

\* The final that is delivered is the one that was said.
LEMMA DeliveredFine ==
  ASSUME PhasedInv, NEW g \in RunGenerations, FinalDelivered(g)
  PROVE  StepFine(g)
<1>1. /\ job[g].step = "deliver" /\ job[g].phase = "publication" /\ AtRest(g)
      /\ job[g].phase # "none"
      /\ Continues(g, "publication", "archive")
      /\ UNCHANGED <<vars, attempts, archived, completed>>
      /\ delivered' = delivered \cup {FinalEvent(job[g].n)}
      /\ JobsOK /\ job[g] \in JobRecord /\ attempts' \in 0..MaxAttempts /\ LastSteps(g)
  BY JobFacts DEF FinalDelivered
<1>2. UNCHANGED <<message, event, review>> /\ [Next]_vars
  BY <1>1 DEF vars, criticVars, transcriptVars
<1>3. "archive" \in StepsOf("publication")
  BY DEF StepsOf, Turns
<1>4. job'[g] = [job[g] EXCEPT !.phase = "publication", !.step = "archive"]
  BY <1>1, <1>3, JobContinues
<1>5. job'[g].phase = "publication" /\ job'[g].step = "archive" /\ job'[g].n = job[g].n
  BY <1>1, <1>4 DEF JobRecord
<1>6. LastSteps(g)'
  BY <1>1, <1>2, <1>5 DEF LastSteps, Transcribed, FinalEvent
<1>7. ASSUME NEW n \in Nat, PhaseInv(g, n)
      PROVE  PhaseInv(g, n)'
  BY <1>1, <1>2, <1>5, <1>7 DEF PhaseInv, IsOpened, Turns, AllRevised, Transcribed
<1> QED
  BY <1>1, <1>2, <1>3, <1>6, <1>7, ContinuesFine

\* The copy holds all that was said.
LEMMA ArchivesFine ==
  ASSUME PhasedInv, NEW g \in RunGenerations, Archives(g)
  PROVE  StepFine(g)
<1>1. /\ job[g].step = "archive" /\ job[g].phase = "publication" /\ AtRest(g)
      /\ job[g].phase # "none"
      /\ Continues(g, "publication", "close")
      /\ UNCHANGED <<vars, attempts, delivered, completed>>
      /\ archived' = Put(archived, g, Transcribed(g))
      /\ JobsOK /\ job[g] \in JobRecord /\ attempts' \in 0..MaxAttempts /\ LastSteps(g)
  BY JobFacts DEF Archives
<1>2. UNCHANGED <<message, event, review>> /\ [Next]_vars
  BY <1>1 DEF vars, criticVars, transcriptVars
<1>3. "close" \in StepsOf("publication")
  BY DEF StepsOf, Turns
<1>4. /\ JobsOK' /\ OtherJobsStay(g)
      /\ job'[g] = [job[g] EXCEPT !.phase = "publication", !.step = "close"]
  BY <1>1, <1>3, JobContinues
<1>5. job'[g].phase = "publication" /\ job'[g].step = "close" /\ job'[g].n = job[g].n
  BY <1>1, <1>4 DEF JobRecord
<1>6. \A h : Transcribed(h)' = Transcribed(h)
  BY <1>2 DEF Transcribed
<1>7. IsCopied(g)'
  BY <1>1, <1>6 DEF IsCopied, Put
<1>8. \A h \in RunGenerations : OutStays(h)
  BY <1>1, <1>6 DEF OutStays, IsCopied, Put
<1>9. LastSteps(g)'
  BY <1>1, <1>5, <1>6, <1>7 DEF LastSteps, FinalEvent
<1>10. ASSUME NEW n \in Nat, PhaseInv(g, n)
       PROVE  PhaseInv(g, n)'
  BY <1>1, <1>2, <1>5, <1>6, <1>10 DEF PhaseInv, IsOpened, Turns, AllRevised
<1> QED
  BY <1>1, <1>2, <1>4, <1>8, <1>9, <1>10, QuietFine

\* The session that is closed has been copied with all that was said in it.
LEMMA ClosesFine ==
  ASSUME PhasedInv, NEW g \in RunGenerations, g \in Known, Closes(g)
  PROVE  StepFine(g)
<1>1. /\ job[g].step = "close" /\ AtRest(g) /\ Ends(g) /\ JobsOK /\ LastSteps(g) /\ OnlyJobs
      /\ SessionInv
      /\ UNCHANGED <<attempts, delivered, archived>> /\ attempts' \in 0..MaxAttempts
  BY JobFacts DEF Closes
<1>2. CASE ~IsCurrent(g, {"active"})
  <2>1. UNCHANGED <<vars, completed>>
    BY <1>2 DEF Closes
  <2> QED
    BY <1>1, <2>1, EndsFine
<1>3. CASE IsCurrent(g, {"active"})
  <2>1. CloseSession(g) /\ completed' = completed \cup {g}
    BY <1>3 DEF Closes
  <2>2. UNCHANGED <<message, event, review>> /\ [Next]_vars
    BY <2>1 DEF CloseSession, criticVars, transcriptVars, Next
  <2>3. /\ JobsOK' /\ OtherJobsStay(g) /\ job'[g] = NoJob
    BY <1>1, JobEnds
  <2>4. job'[g].phase = "none" /\ job'[g].step = "none"
    BY <2>3 DEF NoJob
  <2>5. /\ \A h : SpeechStays(h)
        /\ \A h : Transcribed(h)' = Transcribed(h)
    BY <2>2, Silence DEF SpeechStays
  <2>6. \A h \in RunGenerations \ {g} : OutStays(h)
    BY <1>1, <2>1, <2>5 DEF OutStays, IsCopied
  <2>7. OnlyJobs'
    BY <1>1, <2>1, <2>2 DEF OnlyJobs
  <2>8. LastSteps(g)'
    BY <2>4 DEF LastSteps
  <2>9. PICK n \in Nat : SaidInv(g, n) /\ PhaseInv(g, n)
    BY JobFacts DEF JobInv
  <2>10. SaidInv(g, n)'
    BY <2>5, <2>9, SaidKept
  <2>11. PhaseInv(g, n)'
    BY <2>4 DEF PhaseInv, IsOpened, Turns
  <2>12. JobInv(g)'
    BY <2>10, <2>11 DEF JobInv
  <2>13. g \in DOMAIN session' /\ session'[g].phase # "active"
    <3>1. /\ active # None /\ active.generation = g /\ active \in SessionRecord
          /\ session' = Put(session, Closed(active).generation, Closed(active))
      BY <1>1, <1>3, <2>1, CurrentType
      DEF CloseSession, WriteActive, IsCurrent, SessionInv, TypeOK
    <3>2. Closed(active).generation = g /\ Closed(active).phase = "closed"
      BY <3>1 DEF Closed, SessionRecord
    <3> QED
      BY <3>1, <3>2 DEF Put
  <2>14. CompletedInv(g)'
    <3>1. /\ FinalEvent(job[g].n) \in Transcribed(g) \cap delivered
          /\ FinalEvent(job[g].n)[1] = "final" /\ IsCopied(g)
      BY <1>1 DEF LastSteps, FinalEvent
    <3> QED
      BY <1>1, <2>5, <2>13, <3>1 DEF CompletedInv, IsCopied
  <2> QED
    BY <2>2, <2>3, <2>5, <2>6, <2>7, <2>8, <2>12, <2>14 DEF StepFine
<1> QED  BY <1>2, <1>3

\* Every step of a job is in order.
LEMMA JobStepsFine ==
  ASSUME PhasedInv, NEW g \in Known \cap RunGenerations, JobSteps(g)
  PROVE  StepFine(g)
<1>1. CASE Designates(g) \/ Assigns(g) \/ AssignmentDelivered(g) \/ Reviews(g) \/ BatchEnds(g)
  BY <1>1, DesignatesFine, AssignsFine, AssignmentDeliveredFine, ReviewsFine, BatchEndsFine
<1>2. CASE Synthesizes(g) \/ Publishes(g) \/ FinalDelivered(g) \/ Archives(g) \/ Closes(g)
  BY <1>2, SynthesizesFine, PublishesFine, DeliveredFine, ArchivesFine, ClosesFine
<1>3. CASE DesignationFails(g) \/ AssignmentRefused(g) \/ SynthesisFails(g)
  <2>1. job[g].step = "assign" /\ Ends(g) /\ UNCHANGED <<vars, attempts, outVars>>
    BY <1>3, JobFacts DEF DesignationFails, AssignmentRefused, SynthesisFails
  <2> QED
    BY <2>1, JobFacts, EndsFine DEF outVars
<1>4. CASE PublicationFails(g)
  <2>1. /\ job[g].step # "turns" /\ Ends(g)
        /\ UNCHANGED <<vars, attempts, delivered, completed>>
        /\ archived' = archived \/ archived' = Put(archived, g, Transcribed(g))
    BY <1>4 DEF PublicationFails
  <2> QED
    BY <2>1, JobFacts, EndsFine
<1>5. ASSUME NEW i \in Agents, Confirms(g, i) \/ Delivers(g, i) \/ Fails(g, i)
      PROVE  StepFine(g)
  <2>1. CASE Confirms(g, i)
    BY <2>1, ConfirmsFine
  <2>2. CASE Delivers(g, i)
    <3>1. /\ Moves(g, i, "done") /\ UNCHANGED <<vars, archived, completed>>
          /\ delivered \subseteq delivered'
          /\ \/ turn[g][i] = "confirmed" /\ i # Critic
             \/ turn[g][i] = "recorded" /\ i = Critic
      BY <2>2 DEF Delivers
    <3> QED  BY <3>1, MovesFine
  <2>3. CASE Fails(g, i)
    <3>1. /\ Moves(g, i, "failed") /\ UNCHANGED <<vars, archived, completed>>
          /\ delivered \subseteq delivered'
          /\ turn[g][i] \in {"running", "confirmed", "recorded"}
      BY <2>3 DEF Fails, outVars
    <3> QED  BY <3>1, MovesFine
  <2> QED  BY <1>5, <2>1, <2>2, <2>3
<1> QED
  BY <1>1, <1>2, <1>3, <1>4, <1>5 DEF JobSteps

\* What the owner does are operations of the Registrar.
LEMMA OwnerIsCaller ==
  ASSUME OwnerActs \/ UNCHANGED phasedVars
  PROVE  /\ UNCHANGED <<job, turn, attempts, delivered, archived, completed>>
         /\ UNCHANGED <<message, event, review>> /\ [Next]_vars
<1>1. CASE OwnerActs
  <2>1. UNCHANGED <<job, turn, attempts, delivered, archived, completed>>
    BY <1>1 DEF OwnerActs, runVars, outVars
  <2>2. ASSUME NEW id \in SessionIds, NEW p \in Providers, StartSession(id, p) \/ StartNewTask(id, p)
        PROVE  UNCHANGED <<message, event, review>> /\ [Next]_vars
    BY <2>2 DEF StartSession, StartNewTask, transcriptVars, criticVars, Next
  <2>3. ASSUME NEW g \in Known, StopSession(g, FALSE)
        PROVE  UNCHANGED <<message, event, review>> /\ [Next]_vars
    BY <2>3 DEF StopSession, criticVars, Next
  <2>4. ASSUME NEW g \in Known, NEW t \in Tasks, BindTask(g, t)
        PROVE  UNCHANGED <<message, event, review>> /\ [Next]_vars
    BY <2>4 DEF BindTask, transcriptVars, criticVars, Next
  <2> QED
    BY <1>1, <2>1, <2>2, <2>3, <2>4 DEF OwnerActs
<1>2. CASE UNCHANGED phasedVars
  BY <1>2 DEF phasedVars, runVars, outVars, vars, transcriptVars, criticVars
<1> QED  BY <1>1, <1>2

\* What the owner and the other consultations do leaves every job where it is.
LEMMA OwnerStepsFine ==
  ASSUME PhasedInv, OwnerActs \/ UNCHANGED phasedVars
  PROVE  PhasedInv'
<1>1. /\ SessionInv /\ TranscriptInv /\ JobsOK /\ OnlyJobs
  BY DEF PhasedInv
<1>2. /\ UNCHANGED <<job, turn, attempts, delivered, archived, completed>>
      /\ UNCHANGED <<message, event, review>> /\ [Next]_vars
  BY OwnerIsCaller
<1>3. TypeOK'
  BY <1>1, <1>2, TypeStep DEF SessionInv
<1>4. SessionInv'
  BY <1>1, <1>2, <1>3, SessionInvStep
<1>5. TranscriptInv'
  BY <1>1, <1>2, <1>4, TranscriptInvStep
<1>6. JobsOK' /\ OnlyJobs'
  BY <1>1, <1>2 DEF JobsOK, JobTypeOK, NoTurnIsOrphaned, Batch, OnlyJobs
<1>7. ASSUME NEW g \in RunGenerations
      PROVE  JobInv(g)' /\ LastSteps(g)' /\ CompletedInv(g)'
  <2>1. JobInv(g) /\ LastSteps(g) /\ CompletedInv(g)
    BY DEF PhasedInv
  <2>2. SpeechStays(g) /\ OutStays(g)
    BY <1>2, Silence, OutsKept
  <2>3. PICK n \in Nat : SaidInv(g, n) /\ PhaseInv(g, n)
    BY <2>1 DEF JobInv
  <2>4. SaidInv(g, n)' /\ PhaseInv(g, n)'
    BY <1>2, <2>2, <2>3, SaidKept, PhaseKept
  <2>5. LastSteps(g)'
    BY <1>2, <2>1, <2>2, LastStepsKept
  <2>6. CompletedInv(g)'
    BY <1>1, <1>2, <2>1, <2>2, CompletedKept
  <2> QED
    BY <2>4, <2>5, <2>6 DEF JobInv
<1> QED
  BY <1>4, <1>5, <1>6, <1>7 DEF PhasedInv

\* A crash takes every job, and nothing that was written.
LEMMA CrashIsFine ==
  ASSUME PhasedInv, ProcessCrashes
  PROVE  PhasedInv'
<1>1. /\ SessionInv /\ TranscriptInv /\ JobsOK /\ OnlyJobs
  BY DEF PhasedInv
<1>2. /\ job' = [g \in RunGenerations |-> NoJob]
      /\ turn' = [g \in RunGenerations |-> Resting]
      /\ UNCHANGED <<vars, attempts, delivered, archived, completed>>
  BY DEF ProcessCrashes, outVars
<1>3. UNCHANGED <<message, event, review>> /\ [Next]_vars
  BY <1>2 DEF vars, transcriptVars, criticVars
<1>4. SessionInv' /\ TranscriptInv'
  <2>1. TypeOK'
    BY <1>1, <1>3, TypeStep DEF SessionInv
  <2>2. SessionInv'
    BY <1>1, <1>3, <2>1, SessionInvStep
  <2> QED
    BY <1>1, <1>3, <2>2, TranscriptInvStep
<1>5. NoJob \in JobRecord /\ Resting \in [Agents -> TurnStates]
  BY PhasedAssumption DEF NoJob, JobRecord, Resting, TurnStates
<1>6. /\ NoJob.phase = "none" /\ NoJob.step = "none" /\ NoJob.step \in StepsOf(NoJob.phase)
      /\ \A i \in Agents : Resting[i] = "idle"
  BY DEF NoJob, StepsOf, Turns, Resting
<1>7. JobsOK' /\ OnlyJobs'
  <2>1. JobTypeOK'
    BY <1>1, <1>2, <1>5, <1>6 DEF JobsOK, JobTypeOK
  <2>2. NoTurnIsOrphaned'
    BY <1>2, <1>6 DEF NoTurnIsOrphaned
  <2> QED
    BY <1>1, <1>2, <1>3, <2>1, <2>2 DEF JobsOK, OnlyJobs
<1>8. ASSUME NEW g \in RunGenerations
      PROVE  JobInv(g)' /\ LastSteps(g)' /\ CompletedInv(g)'
  <2>1. JobInv(g) /\ LastSteps(g) /\ CompletedInv(g)
    BY DEF PhasedInv
  <2>2. SpeechStays(g) /\ OutStays(g)
    BY <1>2, <1>3, Silence, OutsKept
  <2>3. PICK n \in Nat : SaidInv(g, n) /\ PhaseInv(g, n)
    BY <2>1 DEF JobInv
  <2>4. SaidInv(g, n)'
    BY <2>2, <2>3, SaidKept
  <2>5. job'[g].phase = "none" /\ job'[g].step = "none"
    BY <1>2, <1>6
  <2>6. PhaseInv(g, n)'
    BY <2>5 DEF PhaseInv, IsOpened, Turns
  <2>7. LastSteps(g)'
    BY <2>5 DEF LastSteps
  <2>8. CompletedInv(g)'
    BY <1>1, <1>3, <2>1, <2>2, CompletedKept
  <2> QED
    BY <2>4, <2>6, <2>7, <2>8 DEF JobInv
<1> QED
  BY <1>4, <1>7, <1>8 DEF PhasedInv

\* Nothing is said and no job runs at first.
LEMMA PhasedInvInit == PhasedInit => PhasedInv
<1> SUFFICES ASSUME PhasedInit PROVE PhasedInv
  OBVIOUS
<1>1. /\ Init /\ attempts = 0 /\ delivered = {} /\ archived = NoRows /\ completed = {}
      /\ job = [g \in RunGenerations |-> NoJob]
      /\ turn = [g \in RunGenerations |-> Resting]
  BY DEF PhasedInit
<1>2. SessionInv
  BY <1>1, SessionInvInit
<1>3. TranscriptInv
  BY <1>1, TranscriptInvInit
<1>4. NoJob \in JobRecord /\ Resting \in [Agents -> TurnStates]
  BY PhasedAssumption DEF NoJob, JobRecord, Resting, TurnStates
<1>5. /\ NoJob.phase = "none" /\ NoJob.step = "none" /\ NoJob.step \in StepsOf(NoJob.phase)
      /\ \A i \in Agents : Resting[i] = "idle"
  BY DEF NoJob, StepsOf, Turns, Resting
<1>6. JobTypeOK
  BY <1>1, <1>4, <1>5, PhasedAssumption DEF JobTypeOK
<1>7. NoTurnIsOrphaned
  BY <1>1, <1>5 DEF NoTurnIsOrphaned
<1>8. /\ DOMAIN message = {} /\ DOMAIN event = {} /\ DOMAIN review = {}
      /\ \A g : Transcribed(g) = {}
  BY <1>1 DEF Init, NoRows, Transcribed
<1>9. OnlyJobs
  BY <1>1, <1>8 DEF OnlyJobs
<1>10. ASSUME NEW g \in RunGenerations
       PROVE  JobInv(g) /\ LastSteps(g) /\ CompletedInv(g)
  <2>1. job[g].phase = "none" /\ job[g].step = "none"
    BY <1>1, <1>5
  <2>2. PhaseInv(g, 0)
    BY <2>1 DEF PhaseInv, IsOpened, Turns
  <2>3. SaidInv(g, 0)
    BY <1>8 DEF SaidInv, SaidInOneRun, SaidAfterOpening, SaidInOrder
  <2>4. LastSteps(g) /\ CompletedInv(g)
    BY <1>1, <2>1 DEF LastSteps, CompletedInv
  <2> QED
    BY <2>2, <2>3, <2>4 DEF JobInv
<1> QED
  BY <1>2, <1>3, <1>6, <1>7, <1>9, <1>10 DEF PhasedInv, JobsOK

\* Every step keeps the invariant, and is one of the Registrar or leaves it alone.
LEMMA PhasedInvStep == PhasedInv /\ [PhasedNext]_phasedVars => PhasedInv' /\ [Next]_vars
<1> SUFFICES ASSUME PhasedInv, [PhasedNext]_phasedVars
             PROVE  PhasedInv' /\ [Next]_vars
  OBVIOUS
<1>1. CASE OwnerActs \/ UNCHANGED phasedVars
  BY <1>1, OwnerStepsFine, OwnerIsCaller
<1>2. CASE ProcessCrashes
  <2>1. UNCHANGED vars
    BY <1>2 DEF ProcessCrashes
  <2> QED
    BY <1>2, <2>1, CrashIsFine
<1>3. ASSUME NEW g \in Known \cap RunGenerations, NEW c \in Critics, Launches(g, c)
      PROVE  StepFine(g)
  <2>1. Begins(g, "run", c, "designation")
    BY <1>3 DEF Launches
  <2> QED
    BY <2>1, BeginsFine
<1>4. ASSUME NEW g \in Known \cap RunGenerations, ResumeBegins(g)
      PROVE  StepFine(g)
  <2>1. /\ IsComplete(g) /\ Begins(g, "resume", critic[g].critic, "synthesis")
    BY <1>4 DEF ResumeBegins
  <2>2. critic[g].critic \in Critics
    BY <2>1 DEF IsComplete, PhasedInv, SessionInv, TypeOK, LinkTypeOK
  <2>3. \A n \in Nat : SaidInv(g, n) => AllRevised(g, n)
    BY <2>1, CompleteIsRevised
  <2> QED
    BY <2>1, <2>2, <2>3, BeginsFine
<1>5. ASSUME NEW g \in Known \cap RunGenerations, StepFine(g)
      PROVE  PhasedInv' /\ [Next]_vars
  BY <1>5, FineSteps DEF StepFine
<1> QED
  BY <1>1, <1>2, <1>3, <1>4, <1>5, JobStepsFine DEF PhasedNext

\* The invariant holds in every reachable state.
LEMMA PhasedInvariant == PhasedSpec => []PhasedInv
BY PhasedInvInit, PhasedInvStep, PTL DEF PhasedSpec

-----------------------------------------------------------------------------
\* The three-phase consilium is one of the callers the Registrar is specified for:
\* whatever its jobs, its owner and its crashes do, the Registrar sees only its own
\* operations, so what is proved of the Registrar holds beneath it.
THEOREM PhasedKeepsRegistrar == PhasedSpec => Spec
<1>1. PhasedInit => Init
  BY DEF PhasedInit
<1> QED
  BY <1>1, PhasedInvInit, PhasedInvStep, PTL DEF PhasedSpec, Spec

\* In every reachable state an agent that takes its turn belongs to the batch its
\* job waits for: #runBatches leaves no provider turn behind.
THEOREM NoTurnLeftBehind == PhasedSpec => []NoTurnIsOrphaned
<1>1. PhasedInv => NoTurnIsOrphaned
  BY DEF PhasedInv, JobsOK
<1> QED
  BY <1>1, PhasedInvariant, PTL

\* What was completed has its final, delivered, and a copy of all that was said.
LEMMA CompletedFromInv == PhasedInv => CompletedIsKept
<1> SUFFICES ASSUME PhasedInv, NEW g \in completed
             PROVE  /\ g \in DOMAIN archived
                    /\ \A e \in Transcribed(g) : e = StopEvent(g) \/ e \in archived[g]
                    /\ \E f \in Said(g, "final") : f.event \in delivered
  BY DEF CompletedIsKept
<1>1. g \in RunGenerations
  BY DEF PhasedInv, OnlyJobs
<1>2. /\ IsCopied(g)
      /\ \E e \in Transcribed(g) \cap delivered : e[1] = "final"
  BY <1>1 DEF PhasedInv, CompletedInv
<1>3. PICK e \in Transcribed(g) \cap delivered : e[1] = "final"
  BY <1>2
<1>4. PICK k \in DOMAIN message : k[1] = g /\ message[k].event = e
  BY <1>3 DEF Transcribed
<1>5. message[k] \in Said(g, "final") /\ message[k].event \in delivered
  BY <1>3, <1>4 DEF Said
<1> QED
  BY <1>2, <1>5 DEF IsCopied

\* A session that a finalizer closed has a copy of everything its agents said, and
\* its final was delivered, in every reachable state.
THEOREM CompletedStaysKept == PhasedSpec => []CompletedIsKept
BY CompletedFromInv, PhasedInvariant, PTL

\* Of one kind, what one attempt says for one agent is one message of the transcript.
LEMMA SaidOnce ==
  ASSUME SessionInv, TranscriptInv, NEW g, NEW kind \in {"initial", "revision"},
         NEW n \in Nat, NEW i \in 1..Specialists,
         TurnEvent(kind, i, n) \in Transcribed(g),
         \A e \in Transcribed(g) : e[1] = kind => \E j \in 1..Specialists : e = TurnEvent(kind, j, n)
  PROVE  \E p \in Said(g, kind) :
           /\ {q \in Said(g, kind) : q.event[2] = i} = {p}
           /\ p.sequence = Place(TurnEvent(kind, i, n))
<1> DEFINE said == TurnEvent(kind, i, n)
           p == event[said].message
<1>1. PICK k : k \in DOMAIN message /\ k[1] = g /\ message[k] = p
  <2>1. <<g, Place(said)>> \in DOMAIN message /\ message[<<g, Place(said)>>] = p
    BY TranscribedRows
  <2>2. <<g, Place(said)>>[1] = g
    OBVIOUS
  <2> QED
    BY ONLY <2>1, <2>2
<1>2. p.event = said /\ p.sequence = Place(said)
  BY TranscribedRows DEF Place
<1>3. said[1] = kind /\ said[2] = i
  BY DEF TurnEvent
<1>4. p \in Said(g, kind) /\ p.event[2] = i
  BY <1>1, <1>2, <1>3 DEF Said
<1>5. ASSUME NEW q \in Said(g, kind), q.event[2] = i
      PROVE  q = p
  <2>1. PICK l \in DOMAIN message : l[1] = g /\ message[l].event[1] = kind /\ message[l] = q
    BY DEF Said
  <2>2. q.event \in Transcribed(g)
    BY <2>1 DEF Transcribed
  <2>3. PICK j \in 1..Specialists : q.event = TurnEvent(kind, j, n)
    BY <2>1, <2>2
  <2>4. j = i
    BY <1>5, <2>3 DEF TurnEvent
  <2>5. message[l].event = said
    BY <2>1, <2>3, <2>4
  <2>6. message[l] = p
    BY <2>1, <2>5 DEF TranscriptInv, RowsHaveEvents
  <2> QED
    BY <2>1, <2>6
<1> QED
  BY <1>2, <1>4, <1>5

\* The receipt of a critique comes after one position of every specialist.
LEMMA CritiqueFromInv == PhasedInv => CritiqueHearsEveryone
<1> SUFFICES ASSUME PhasedInv, NEW g \in DOMAIN review, NEW i \in 1..Specialists
             PROVE  \E p \in Said(g, "initial") :
                      /\ {q \in Said(g, "initial") : q.event[2] = i} = {p}
                      /\ p.sequence < review[g].sequence
  BY DEF CritiqueHearsEveryone
<1>1. g \in RunGenerations /\ SessionInv /\ TranscriptInv
  BY DEF PhasedInv, OnlyJobs
<1>2. PICK n \in Nat : SaidInv(g, n)
  BY <1>1 DEF PhasedInv, JobInv
<1>3. Critique(n) \in Transcribed(g) /\ review[g].sequence = Place(Critique(n))
  BY <1>2 DEF SaidInv, SaidInOrder
<1>4. Position(i, n) \in Transcribed(g) /\ Place(Position(i, n)) < review[g].sequence
  BY <1>2, <1>3 DEF SaidInv, SaidInOrder, Critique, TurnEvent
<1>5. \A e \in Transcribed(g) :
        e[1] = "initial" => \E j \in 1..Specialists : e = TurnEvent("initial", j, n)
  BY <1>2 DEF SaidInv, SaidInOneRun, Position
<1> QED
  BY <1>1, <1>4, <1>5, SaidOnce DEF Position

\* The final comes after the critique, and one revision of every specialist.
LEMMA FinalFromInv == PhasedInv => FinalAnswersCritique
<1> SUFFICES ASSUME PhasedInv, NEW g \in Known, NEW f \in Said(g, "final")
             PROVE  /\ g \in DOMAIN review
                    /\ \A i \in 1..Specialists :
                         \E r \in Said(g, "revision") :
                           /\ {q \in Said(g, "revision") : q.event[2] = i} = {r}
                           /\ review[g].sequence < r.sequence /\ r.sequence < f.sequence
  BY DEF FinalAnswersCritique
<1>1. PICK k \in DOMAIN message : k[1] = g /\ message[k].event[1] = "final" /\ message[k] = f
  BY DEF Said
<1>2. g \in RunGenerations /\ SessionInv /\ TranscriptInv
  BY <1>1 DEF PhasedInv, OnlyJobs
<1>3. PICK n \in Nat : SaidInv(g, n)
  BY <1>2 DEF PhasedInv, JobInv
<1>4. f.event \in Transcribed(g) /\ f.event[1] = "final"
  BY <1>1 DEF Transcribed
<1>5. f.sequence = Place(f.event)
  BY <1>1, <1>2 DEF TranscriptInv, RowsHaveEvents, Place
<1>6. /\ g \in DOMAIN review
      /\ \A i \in 1..Specialists :
           Revised(i, n) \in Transcribed(g) /\ Place(Revised(i, n)) < f.sequence
  BY <1>3, <1>4, <1>5 DEF SaidInv, SaidInOrder
<1>7. ASSUME NEW i \in 1..Specialists
      PROVE  review[g].sequence < Place(Revised(i, n))
  BY <1>3, <1>6 DEF SaidInv, SaidInOrder, Revised, TurnEvent
<1>8. \A e \in Transcribed(g) :
        e[1] = "revision" => \E j \in 1..Specialists : e = TurnEvent("revision", j, n)
  BY <1>3 DEF SaidInv, SaidInOneRun, Revised
<1>9. ASSUME NEW i \in 1..Specialists
      PROVE  \E r \in Said(g, "revision") :
               /\ {q \in Said(g, "revision") : q.event[2] = i} = {r}
               /\ r.sequence = Place(Revised(i, n))
  BY <1>2, <1>6, <1>8, SaidOnce DEF Revised
<1> QED
  BY <1>6, <1>7, <1>9

\* In every reachable state a receipted critique was made of the whole first round,
\* and a final recommendation, of a run or of a resumption, follows the critique and
\* exactly one revision of every specialist after it.
THEOREM PhasesAreHeard == PhasedSpec => []EveryPhaseIsHeard
<1>1. PhasedInv => EveryPhaseIsHeard
  BY CritiqueFromInv, FinalFromInv DEF EveryPhaseIsHeard
<1> QED
  BY <1>1, PhasedInvariant, PTL
=============================================================================
