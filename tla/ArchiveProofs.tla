---------------------------- MODULE ArchiveProofs ----------------------------
(***************************************************************************)
(* Proofs about the archive of a session, for any number of handlers and   *)
(* any bounds on messages, rejections and restarts.                        *)
(***************************************************************************)
EXTENDS Archive, TLAPS

-----------------------------------------------------------------------------
(***************************************************************************)
(* The inductive invariant.  A transcript cannot grow any more once the    *)
(* session is fenced or the execution has left publishing (Frozen).  The   *)
(* execution counts its messages after it has left; a handler counts them  *)
(* after its fence, unless a call rejected.  So what they count is what    *)
(* the transcript holds for good, and so is what they stage; and a         *)
(* committed row goes by a deletion alone, which leaves a tombstone.       *)
(***************************************************************************)
SealSteps == {"check", "look", "stage", "commit", "verify"}

Frozen == phase # "active" \/ ~At(Run, "publish")

Archived == tombstone \/ Holds("committed", length)

\* What call c holds about the session.
CallOK(c) ==
  LET step == call[c].step
  IN  /\ c = Run =>
           /\ step \in SealSteps => call[c].count = length
           /\ step = "close" => Archived
      /\ c # Run /\ faults = 0 =>
           /\ step \in {"session", "messages"} \cup SealSteps => phase # "active"
           /\ step \in SealSteps => call[c].count = length

CallInv == \A c \in Callers : CallOK(c)

ClosedInv == phase = "closed" => Archived

RowInv == faults = 0 /\ archive # None => archive.count = length /\ Frozen

ArchiveInv == ArchiveTypeOK /\ ClosedInv /\ CallInv /\ RowInv

-----------------------------------------------------------------------------
CallRecord == [step : Steps, goal : {"none", "gate", "partial"},
               expected : 0..MaxMessages, count : 0..MaxMessages]

Others(c) == \A d \in Callers \ {c} : call'[d] = call[d]

\* Only the execution is at the gate.
GateIsRun(c, r) == r.goal = "gate" \/ r.step = "close" => c = Run

\* A call that moves on changes its own record alone.
LEMMA CallMoves ==
  ASSUME ArchiveTypeOK, NEW c \in Callers, NEW r \in CallRecord, GateIsRun(c, r),
         call' = [call EXCEPT ![c] = r]
  PROVE  /\ call'[c] = r /\ Others(c)
         /\ call' \in [Callers -> CallRecord]
         /\ \A d \in Callers : GateIsRun(d, call'[d])
BY DEF ArchiveTypeOK, CallRecord, Others, GateIsRun, At

\* A call that goes to its next step, for the goal it has.
LEMMA GotoMoves ==
  ASSUME ArchiveTypeOK, NEW c \in Callers, NEW step \in Steps, step = "close" => c = Run,
         Goto(c, step)
  PROVE  /\ call'[c].step = step /\ call'[c].count = call[c].count /\ Others(c)
         /\ call' \in [Callers -> CallRecord]
         /\ \A d \in Callers : GateIsRun(d, call'[d])
<1> DEFINE r == [call[c] EXCEPT !.step = step]
<1>1. call[c] \in CallRecord /\ GateIsRun(c, call[c])
  BY DEF ArchiveTypeOK, CallRecord, GateIsRun, At
<1>2. r \in CallRecord /\ r.step = step /\ r.goal = call[c].goal /\ r.count = call[c].count
  BY <1>1 DEF CallRecord
<1>3. call' = [call EXCEPT ![c] = r]
  BY DEF Goto
<1>4. GateIsRun(c, r)
  BY <1>1, <1>2 DEF GateIsRun
<1> HIDE DEF r
<1> QED
  BY <1>2, <1>3, <1>4, CallMoves

\* A call that goes to its next step for another goal, which is not the gate.
LEMMA GotoForMoves ==
  ASSUME ArchiveTypeOK, NEW c \in Callers, NEW step \in Steps \ {"close"},
         GotoFor(c, step, "partial")
  PROVE  /\ call'[c].step = step /\ call'[c].count = call[c].count /\ Others(c)
         /\ call' \in [Callers -> CallRecord]
         /\ \A d \in Callers : GateIsRun(d, call'[d])
<1> DEFINE r == [call[c] EXCEPT !.step = step, !.goal = "partial"]
<1>1. call[c] \in CallRecord
  BY DEF ArchiveTypeOK, CallRecord
<1>2. r \in CallRecord /\ r.step = step /\ r.goal = "partial" /\ r.count = call[c].count
  BY <1>1 DEF CallRecord
<1>3. call' = [call EXCEPT ![c] = r]
  BY <1>1 DEF GotoFor, ArchiveTypeOK
<1>4. GateIsRun(c, r)
  BY <1>2 DEF GateIsRun
<1> HIDE DEF r
<1> QED
  BY <1>2, <1>3, <1>4, CallMoves

\* A call that ends, or whose seal is refused or succeeds.
LEMMA IdleMoves ==
  ASSUME ArchiveTypeOK, NEW c \in Callers, call' = [call EXCEPT ![c] = Idle]
  PROVE  /\ call'[c].step = "idle" /\ Others(c)
         /\ call' \in [Callers -> CallRecord]
         /\ \A d \in Callers : GateIsRun(d, call'[d])
<1>1. Idle \in CallRecord /\ GateIsRun(c, Idle) /\ Idle.step = "idle"
  BY ArchiveAssumption DEF Idle, CallRecord, GateIsRun, Steps
<1> HIDE DEF Idle
<1> QED
  BY <1>1, CallMoves

\* A refused seal goes on to the fence of the failed consultation, or to the record.
LEMMA RefusedMoves ==
  ASSUME ArchiveTypeOK, NEW c \in Callers, Refused(c)
  PROVE  /\ call'[c].step \in {"fence", "record"} /\ Others(c)
         /\ c # Run => call'[c].step = "record"
         /\ call' \in [Callers -> CallRecord]
         /\ \A d \in Callers : GateIsRun(d, call'[d])
<1>1. CASE call[c].goal = "gate"
  <2>1. GotoFor(c, "fence", "partial") /\ c = Run
    BY <1>1 DEF Refused, ArchiveTypeOK
  <2> QED
    BY <2>1, GotoForMoves DEF Steps
<1>2. CASE call[c].goal # "gate"
  <2>1. Goto(c, "record")
    BY <1>2 DEF Refused
  <2> QED
    BY <2>1, GotoMoves DEF Steps
<1> QED  BY <1>1, <1>2

\* A seal that succeeds goes on to the close of the gate's session, or to the record.
LEMMA SealedMoves ==
  ASSUME ArchiveTypeOK, NEW c \in Callers, Sealed(c)
  PROVE  /\ call'[c].step \in {"close", "record"} /\ Others(c)
         /\ call'[c].step = "close" => c = Run
         /\ call' \in [Callers -> CallRecord]
         /\ \A d \in Callers : GateIsRun(d, call'[d])
<1>1. CASE call[c].goal = "gate"
  <2>1. Goto(c, "close") /\ c = Run
    BY <1>1 DEF Sealed, ArchiveTypeOK
  <2> QED
    BY <2>1, GotoMoves DEF Steps
<1>2. CASE call[c].goal # "gate"
  <2>1. Goto(c, "record")
    BY <1>2 DEF Sealed
  <2> QED
    BY <2>1, GotoMoves DEF Steps
<1> QED  BY <1>1, <1>2

-----------------------------------------------------------------------------
\* The rest of the state keeps its type, and the call that moves keeps to the gate's rule.
LEMMA TypeStep ==
  ASSUME ArchiveTypeOK, call' \in [Callers -> CallRecord],
         \A d \in Callers : GateIsRun(d, call'[d]),
         phase' \in {"active", "stopped", "closed"}, length' \in 0..MaxMessages,
         archive' \in Archives \cup {None}, tombstone' \in BOOLEAN, finished' \in BOOLEAN,
         faults' \in 0..MaxFaults, restarts' \in 0..MaxRestarts
  PROVE  ArchiveTypeOK'
BY DEF ArchiveTypeOK, CallRecord, GateIsRun, At

\* What every step of a call must leave: the transcript, a fence, and a committed archive
\* or its tombstone.
Keeps(c) ==
  /\ Others(c)
  /\ length' = length
  /\ phase # "active" => phase' # "active"
  /\ Archived => Archived'
  /\ faults' = 0 => faults = 0
  /\ call'[c].step # "publish"

\* The rows of a step that stages nothing.
KeepsRow ==
  archive' # None => archive # None /\ archive'.count = archive.count

\* The other calls keep what they hold.
LEMMA CallsStep ==
  ASSUME ArchiveInv, NEW c \in Callers, Keeps(c), CallOK(c)'
  PROVE  CallInv'
<1> SUFFICES ASSUME NEW d \in Callers, d # c
             PROVE  CallOK(d)'
  BY DEF CallInv, CallOK
<1>1. call'[d] = call[d]
  BY DEF Keeps, Others
<1>2. CallOK(d)
  BY DEF ArchiveInv, CallInv
<1>3. /\ length' = length
      /\ phase # "active" => phase' # "active"
      /\ Archived => Archived'
      /\ faults' = 0 => faults = 0
  BY DEF Keeps
<1> HIDE DEF Archived
<1> QED
  BY <1>1, <1>2, <1>3 DEF CallOK

\* A transcript that cannot grow cannot grow later.
LEMMA FrozenStep ==
  ASSUME NEW c \in Callers, Keeps(c), Frozen
  PROVE  Frozen'
BY DEF Keeps, Others, Frozen, At, Callers

\* A step of a call that stages nothing and closes nothing keeps the invariant if the
\* call keeps its own part of it.
LEMMA QuietStep ==
  ASSUME ArchiveInv, ArchiveTypeOK', NEW c \in Callers, Keeps(c), KeepsRow, CallOK(c)',
         phase' = "closed" => phase = "closed"
  PROVE  ArchiveInv'
<1>1. CallInv'
  BY CallsStep
<1>2. ClosedInv'
  BY DEF ArchiveInv, ClosedInv, Keeps
<1>3. RowInv'
  <2> SUFFICES ASSUME faults' = 0, archive' # None
               PROVE  archive'.count = length' /\ Frozen'
    BY DEF RowInv
  <2>1. faults = 0 /\ archive # None /\ archive'.count = archive.count /\ length' = length
    BY DEF Keeps, KeepsRow
  <2> QED
    BY <2>1, FrozenStep DEF ArchiveInv, RowInv
<1> QED
  BY <1>1, <1>2, <1>3 DEF ArchiveInv

\* A committed archive is the archive that Holds names.
LEMMA HoldsRow ==
  ASSUME ArchiveTypeOK, NEW count \in 0..MaxMessages, Holds("committed", count)
  PROVE  archive # None /\ archive.lifecycle = "committed" /\ archive.count = count
BY NoArchiveAssumption DEF ArchiveTypeOK, Archives, Holds

\* Committed rows of the whole transcript archive it.
LEMMA RowHolds ==
  ASSUME ArchiveTypeOK, archive # None
  PROVE  Holds(archive.lifecycle, archive.count)
BY DEF ArchiveTypeOK, Archives, Holds

-----------------------------------------------------------------------------
\* The seal of an archive, from the fence to the record, by either caller.
LEMMA SealsKeep ==
  ASSUME ArchiveInv, NEW c \in Callers,
         Seals(c) \/ FenceRejects(c) \/ SealRejects(c)
  PROVE  ArchiveInv'
<1>0. /\ ArchiveTypeOK /\ ClosedInv /\ CallInv /\ RowInv /\ CallOK(c)
      /\ call[c].count \in 0..MaxMessages /\ faults \in Nat
      /\ c # Run => c \in Handlers
  BY ArchiveAssumption DEF ArchiveInv, CallInv, ArchiveTypeOK, Callers
<1> DEFINE Same == UNCHANGED <<length, archive, tombstone>>
<1>a. ASSUME call' \in [Callers -> CallRecord], \A d \in Callers : GateIsRun(d, call'[d]),
             phase' \in {phase, "stopped"}, length' = length,
             archive' \in Archives \cup {None}, tombstone' = tombstone,
             finished' \in {finished, TRUE}, faults' \in 0..MaxFaults, restarts' = restarts
      PROVE  ArchiveTypeOK'
  BY <1>0, <1>a, TypeStep DEF ArchiveTypeOK
<1>b. ASSUME Others(c), UNCHANGED <<length, archive, tombstone>>,
             phase # "active" => phase' # "active", faults' = 0 => faults = 0,
             call'[c].step # "publish"
      PROVE  Keeps(c) /\ KeepsRow
  BY <1>b DEF Keeps, KeepsRow, Archived, Holds
<1>1. CASE Fence(c)
  <2>1. /\ phase' = IF phase = "active" THEN "stopped" ELSE phase
        /\ Goto(c, "session")
        /\ UNCHANGED <<length, archive, tombstone, finished, faults, restarts>>
    BY <1>1 DEF Fence, archiveVars, boundVars
  <2>2. /\ call'[c].step = "session" /\ Others(c)
        /\ call' \in [Callers -> CallRecord] /\ \A d \in Callers : GateIsRun(d, call'[d])
    BY <1>0, <2>1, GotoMoves DEF Steps
  <2>3. ArchiveTypeOK'
    BY <1>0, <1>a, <2>1, <2>2 DEF ArchiveTypeOK
  <2>4. CallOK(c)'
    BY <1>0, <2>1, <2>2 DEF CallOK, SealSteps, ArchiveTypeOK
  <2>5. Keeps(c) /\ KeepsRow
    BY <1>b, <2>1, <2>2
  <2> QED
    BY <2>1, <2>3, <2>4, <2>5, QuietStep
<1>2. CASE FenceRejects(c)
  <2>1. /\ faults < MaxFaults /\ faults' = faults + 1
        /\ Goto(c, "session")
        /\ UNCHANGED <<phase, length, archive, tombstone, finished, restarts>>
    BY <1>2 DEF FenceRejects, archiveVars, sessionVars
  <2>2. /\ call'[c].step = "session" /\ Others(c)
        /\ call' \in [Callers -> CallRecord] /\ \A d \in Callers : GateIsRun(d, call'[d])
    BY <1>0, <2>1, GotoMoves DEF Steps
  <2>3. ArchiveTypeOK'
    BY <1>0, <1>a, <2>1, <2>2, ArchiveAssumption DEF ArchiveTypeOK
  <2>4. CallOK(c)'
    BY <1>0, <2>1, <2>2 DEF CallOK, SealSteps
  <2>5. Keeps(c) /\ KeepsRow
    BY <1>0, <1>b, <2>1, <2>2
  <2> QED
    BY <2>1, <2>3, <2>4, <2>5, QuietStep
<1>3. CASE ReadSession(c)
  <2> DEFINE r == [call[c] EXCEPT !.step = "messages", !.expected = length]
  <2>1. /\ At(c, "session")
        /\ call' = [call EXCEPT ![c].step = "messages", ![c].expected = length]
        /\ UNCHANGED <<phase, length, archive, tombstone, finished, faults, restarts>>
    BY <1>3 DEF ReadSession, archiveVars, sessionVars, boundVars
  <2>a. call[c] \in CallRecord /\ GateIsRun(c, call[c]) /\ call' = [call EXCEPT ![c] = r]
    BY <1>0, <2>1 DEF ArchiveTypeOK, CallRecord, GateIsRun, At
  <2>b. r \in CallRecord /\ GateIsRun(c, r) /\ r.step = "messages"
    BY <1>0, <2>1, <2>a DEF CallRecord, GateIsRun, ArchiveTypeOK, Steps, At
  <2> HIDE DEF r
  <2>2. /\ call'[c].step = "messages" /\ Others(c)
        /\ call' \in [Callers -> CallRecord] /\ \A d \in Callers : GateIsRun(d, call'[d])
    BY <1>0, <2>a, <2>b, CallMoves
  <2>3. ArchiveTypeOK'
    BY <1>0, <1>a, <2>1, <2>2 DEF ArchiveTypeOK
  <2>4. CallOK(c)'
    BY <1>0, <2>1, <2>2 DEF CallOK, SealSteps, At
  <2>5. Keeps(c) /\ KeepsRow
    BY <1>b, <2>1, <2>2
  <2> QED
    BY <2>1, <2>3, <2>4, <2>5, QuietStep
<1>4. CASE ReadMessages(c)
  <2>1. /\ At(c, "messages")
        /\ UNCHANGED <<phase, length, archive, tombstone, finished, faults, restarts>>
    BY <1>4 DEF ReadMessages, archiveVars, sessionVars, boundVars
  <2>2. /\ Others(c) /\ call' \in [Callers -> CallRecord]
        /\ \A d \in Callers : GateIsRun(d, call'[d])
        /\ \/ call'[c].step = "check" /\ call'[c].count = length
           \/ call'[c].step \in {"fence", "record"}
    <3>1. CASE length = call[c].expected
      <4> DEFINE r == [call[c] EXCEPT !.step = "check", !.count = length]
      <4>1. call' = [call EXCEPT ![c].step = "check", ![c].count = length]
        BY <1>4, <3>1 DEF ReadMessages
      <4>2. call[c] \in CallRecord /\ GateIsRun(c, call[c]) /\ call' = [call EXCEPT ![c] = r]
        BY <1>0, <4>1 DEF ArchiveTypeOK, CallRecord, GateIsRun, At
      <4>3. r \in CallRecord /\ GateIsRun(c, r) /\ r.step = "check" /\ r.count = length
        BY <1>0, <2>1, <4>2 DEF CallRecord, GateIsRun, ArchiveTypeOK, Steps, At
      <4> HIDE DEF r
      <4> QED
        BY <1>0, <4>2, <4>3, CallMoves
    <3>2. CASE length # call[c].expected
      <4>1. Refused(c)
        BY <1>4, <3>2 DEF ReadMessages
      <4> QED  BY <1>0, <4>1, RefusedMoves
    <3> QED  BY <3>1, <3>2
  <2>3. ArchiveTypeOK'
    BY <1>0, <1>a, <2>1, <2>2 DEF ArchiveTypeOK
  <2>4. CallOK(c)'
    BY <1>0, <2>1, <2>2 DEF CallOK, SealSteps, At
  <2>5. Keeps(c) /\ KeepsRow
    BY <1>b, <2>1, <2>2
  <2> QED
    BY <2>1, <2>3, <2>4, <2>5, QuietStep
<1>5. CASE SealChecks(c)
  <2>1. /\ At(c, "check")
        /\ UNCHANGED <<phase, length, archive, tombstone, finished, faults, restarts>>
    BY <1>5 DEF SealChecks, archiveVars, sessionVars, boundVars
  <2>2. /\ Others(c) /\ call' \in [Callers -> CallRecord]
        /\ \A d \in Callers : GateIsRun(d, call'[d])
        /\ \/ call'[c].step = "look" /\ call'[c].count = call[c].count
           \/ call'[c].step \in {"fence", "record"}
    <3>1. CASE tombstone
      BY <1>0, <1>5, <3>1, RefusedMoves DEF SealChecks
    <3>2. CASE ~tombstone
      BY <1>0, <1>5, <3>2, GotoMoves DEF SealChecks, Steps
    <3> QED  BY <3>1, <3>2
  <2>3. ArchiveTypeOK'
    BY <1>0, <1>a, <2>1, <2>2 DEF ArchiveTypeOK
  <2>4. CallOK(c)'
    BY <1>0, <2>1, <2>2 DEF CallOK, SealSteps, At
  <2>5. Keeps(c) /\ KeepsRow
    BY <1>b, <2>1, <2>2
  <2> QED
    BY <2>1, <2>3, <2>4, <2>5, QuietStep
<1>6. CASE SealLooks(c) \/ SealVerifies(c)
  <2>1. /\ At(c, "look") \/ At(c, "verify")
        /\ UNCHANGED <<phase, length, archive, tombstone, finished, faults, restarts>>
    BY <1>6 DEF SealLooks, SealVerifies, archiveVars, sessionVars, boundVars
  <2>2. \/ Goto(c, "stage") \/ Refused(c)
        \/ Sealed(c) /\ Holds("committed", call[c].count)
    BY <1>6 DEF SealLooks, SealVerifies
  <2>3. /\ Others(c) /\ call' \in [Callers -> CallRecord]
        /\ \A d \in Callers : GateIsRun(d, call'[d])
        /\ \/ call'[c].step = "stage" /\ call'[c].count = call[c].count
           \/ call'[c].step \in {"fence", "record"}
           \/ call'[c].step = "close" /\ c = Run /\ Holds("committed", call[c].count)
    <3>1. CASE Goto(c, "stage")
      BY <1>0, <3>1, GotoMoves DEF Steps
    <3>2. CASE Refused(c)
      BY <1>0, <3>2, RefusedMoves
    <3>3. CASE Sealed(c) /\ Holds("committed", call[c].count)
      BY <1>0, <3>3, SealedMoves
    <3> QED  BY <2>2, <3>1, <3>2, <3>3
  <2>4. ArchiveTypeOK'
    BY <1>0, <1>a, <2>1, <2>3 DEF ArchiveTypeOK
  <2>5. CallOK(c)'
    BY <1>0, <2>1, <2>3 DEF CallOK, SealSteps, At, Archived, Holds
  <2>6. Keeps(c) /\ KeepsRow
    BY <1>b, <2>1, <2>3
  <2> QED
    BY <2>1, <2>4, <2>5, <2>6, QuietStep
<1>7. CASE SealStages(c)
  <2>1. /\ At(c, "stage")
        /\ UNCHANGED <<phase, length, tombstone, finished, faults, restarts>>
    BY <1>7 DEF SealStages, sessionVars, boundVars
  <2>2. CASE archive = None
    <3>1. archive' = [lifecycle |-> "staged", count |-> call[c].count] /\ Goto(c, "commit")
      BY <1>7, <2>2 DEF SealStages
    <3>2. archive' \in Archives /\ archive'.count = call[c].count
      BY <1>0, <3>1 DEF Archives
    <3>3. /\ call'[c].step = "commit" /\ call'[c].count = call[c].count /\ Others(c)
          /\ call' \in [Callers -> CallRecord] /\ \A d \in Callers : GateIsRun(d, call'[d])
      BY <1>0, <3>1, GotoMoves DEF Steps
    <3>4. ArchiveTypeOK'
      BY <1>0, <1>a, <2>1, <3>2, <3>3 DEF ArchiveTypeOK
    <3>5. Archived => tombstone
      BY <1>0, <2>2, HoldsRow DEF Archived, ArchiveTypeOK
    <3>6. Keeps(c)
      BY <2>1, <3>3, <3>5 DEF Keeps, Archived
    <3>7. CallOK(c)'
      BY <1>0, <2>1, <3>3 DEF CallOK, SealSteps, At
    <3>8. ClosedInv'
      BY <1>0, <2>1, <3>5 DEF ClosedInv, Archived
    <3>9. RowInv'
      <4> SUFFICES ASSUME faults = 0
                   PROVE  call[c].count = length /\ Frozen
        BY <2>1, <3>2, <3>6, FrozenStep DEF RowInv
      <4> QED
        BY <1>0, <2>1 DEF CallOK, SealSteps, At, Frozen
    <3> QED
      BY <3>4, <3>6, <3>7, <3>8, <3>9, CallsStep DEF ArchiveInv
  <2>3. CASE archive # None
    <3>1. Refused(c) /\ archive' = archive
      BY <1>7, <2>3 DEF SealStages
    <3>2. /\ call'[c].step \in {"fence", "record"} /\ Others(c)
          /\ call' \in [Callers -> CallRecord] /\ \A d \in Callers : GateIsRun(d, call'[d])
      BY <1>0, <3>1, RefusedMoves
    <3>3. ArchiveTypeOK'
      BY <1>0, <1>a, <2>1, <3>1, <3>2 DEF ArchiveTypeOK
    <3>4. CallOK(c)'
      BY <1>0, <2>1, <3>2 DEF CallOK, SealSteps
    <3>5. Keeps(c) /\ KeepsRow
      BY <1>b, <2>1, <3>1, <3>2
    <3> QED
      BY <2>1, <3>3, <3>4, <3>5, QuietStep
  <2> QED  BY <2>2, <2>3
<1>8. CASE SealCommits(c)
  <2>1. /\ At(c, "commit")
        /\ archive' = IF archive # None THEN [archive EXCEPT !.lifecycle = "committed"] ELSE None
        /\ Goto(c, "verify")
        /\ UNCHANGED <<phase, length, tombstone, finished, faults, restarts>>
    BY <1>8 DEF SealCommits, sessionVars, boundVars
  <2>2. /\ archive' \in Archives \cup {None}
        /\ archive' # None => archive # None /\ archive'.count = archive.count
        /\ archive # None => archive' = [lifecycle |-> "committed", count |-> archive.count]
    BY <1>0, <2>1 DEF ArchiveTypeOK, Archives
  <2>3. /\ call'[c].step = "verify" /\ call'[c].count = call[c].count /\ Others(c)
        /\ call' \in [Callers -> CallRecord] /\ \A d \in Callers : GateIsRun(d, call'[d])
    BY <1>0, <2>1, GotoMoves DEF Steps
  <2>4. ArchiveTypeOK'
    BY <1>0, <1>a, <2>1, <2>2, <2>3 DEF ArchiveTypeOK
  <2>5. Archived => Archived'
    <3>1. ASSUME Holds("committed", length)
          PROVE  Holds("committed", length)'
      <4>1. archive # None /\ archive.count = length
        BY <1>0, <3>1, HoldsRow DEF ArchiveTypeOK
      <4> QED  BY <2>1, <2>2, <4>1 DEF Holds
    <3> QED  BY <2>1, <3>1 DEF Archived
  <2>6. CallOK(c)'
    BY <1>0, <2>1, <2>3 DEF CallOK, SealSteps, At
  <2>7. Keeps(c) /\ KeepsRow
    BY <2>1, <2>2, <2>3, <2>5 DEF Keeps, KeepsRow
  <2> QED
    BY <2>1, <2>4, <2>6, <2>7, QuietStep
<1>9. CASE SealRejects(c)
  <2>1. /\ faults < MaxFaults /\ faults' = faults + 1
        /\ Refused(c)
        /\ UNCHANGED <<phase, length, archive, tombstone, finished, restarts>>
    BY <1>9 DEF SealRejects, archiveVars, sessionVars
  <2>2. /\ call'[c].step \in {"fence", "record"} /\ Others(c)
        /\ call' \in [Callers -> CallRecord] /\ \A d \in Callers : GateIsRun(d, call'[d])
    BY <1>0, <2>1, RefusedMoves
  <2>3. ArchiveTypeOK'
    BY <1>0, <1>a, <2>1, <2>2, ArchiveAssumption DEF ArchiveTypeOK
  <2>4. CallOK(c)'
    BY <1>0, <2>1, <2>2 DEF CallOK, SealSteps
  <2>5. Keeps(c) /\ KeepsRow
    BY <1>0, <1>b, <2>1, <2>2
  <2> QED
    BY <2>1, <2>3, <2>4, <2>5, QuietStep
<1>10. CASE Record(c)
  <2>1. /\ finished' = TRUE
        /\ call' = [call EXCEPT ![c] = Idle]
        /\ UNCHANGED <<phase, length, archive, tombstone, faults, restarts>>
    BY <1>10 DEF Record, archiveVars, sessionVars, boundVars
  <2>2. /\ call'[c].step = "idle" /\ Others(c)
        /\ call' \in [Callers -> CallRecord] /\ \A d \in Callers : GateIsRun(d, call'[d])
    BY <1>0, <2>1, IdleMoves
  <2>3. ArchiveTypeOK'
    BY <1>0, <1>a, <2>1, <2>2 DEF ArchiveTypeOK
  <2>4. CallOK(c)'
    BY <1>0, <2>1, <2>2 DEF CallOK, SealSteps
  <2>5. Keeps(c) /\ KeepsRow
    BY <1>b, <2>1, <2>2
  <2> QED
    BY <2>1, <2>3, <2>4, <2>5, QuietStep
<1> QED
  BY <1>1, <1>2, <1>3, <1>4, <1>5, <1>6, <1>7, <1>8, <1>9, <1>10 DEF Seals

\* The execution's own steps, the handlers' arrivals and deletions, and a restart.
LEMMA OthersKeep ==
  ASSUME ArchiveInv,
         \/ Publish \/ RunEnds \/ GateCloses \/ Restart \/ UNCHANGED vars
         \/ \E h \in Handlers : StopArrives(h) \/ DeleteArrives(h) \/ DeleteFinds(h) \/ DeleteDrops(h)
  PROVE  ArchiveInv'
<1>0. /\ ArchiveTypeOK /\ ClosedInv /\ CallInv /\ RowInv
      /\ Run \in Callers /\ Handlers \subseteq Callers /\ Run \notin Handlers
      /\ faults \in Nat /\ restarts \in Nat /\ length \in Nat
  BY ArchiveAssumption, CallersAssumption DEF ArchiveInv, ArchiveTypeOK, Callers, Run
<1>1. CASE Publish
  <2>1. /\ At(Run, "publish") /\ phase = "active"
        /\ length < MaxMessages /\ length' = length + 1
        /\ UNCHANGED <<phase, archive, tombstone, finished, call, faults, restarts>>
    BY <1>1 DEF Publish, archiveVars, boundVars
  <2>2. ArchiveTypeOK'
    BY <1>0, <2>1, ArchiveAssumption DEF ArchiveTypeOK, At
  <2>3. CallInv'
    BY <1>0, <2>1 DEF CallInv, CallOK, SealSteps, At
  <2>4. ClosedInv'
    BY <2>1 DEF ClosedInv
  <2>5. RowInv'
    BY <1>0, <2>1 DEF RowInv, Frozen
  <2> QED
    BY <2>2, <2>3, <2>4, <2>5 DEF ArchiveInv
<1>2. CASE RunEnds
  <2>1. /\ At(Run, "publish")
        /\ UNCHANGED <<phase, length, archive, tombstone, finished, faults, restarts>>
    BY <1>2 DEF RunEnds, archiveVars, sessionVars, boundVars
  <2>2. /\ call'[Run].step \in {"messages", "fence"} /\ Others(Run)
        /\ call' \in [Callers -> CallRecord] /\ \A d \in Callers : GateIsRun(d, call'[d])
    <3>1. CASE GotoFor(Run, "fence", "partial")
      BY <1>0, <3>1, GotoForMoves DEF Steps
    <3>2. CASE call' = [call EXCEPT ![Run] = [step |-> "messages", goal |-> "gate",
                                              expected |-> length, count |-> 0]]
      <4> DEFINE r == [step |-> "messages", goal |-> "gate", expected |-> length, count |-> 0]
      <4>1. r \in CallRecord /\ r.step = "messages" /\ GateIsRun(Run, r)
        BY <1>0, ArchiveAssumption DEF CallRecord, GateIsRun, ArchiveTypeOK, Steps
      <4>2. call' = [call EXCEPT ![Run] = r]
        BY <3>2
      <4> HIDE DEF r
      <4> QED  BY <1>0, <4>1, <4>2, CallMoves
    <3> QED  BY <1>2, <3>1, <3>2 DEF RunEnds
  <2>3. ArchiveTypeOK'
    BY <1>0, <2>1, <2>2, TypeStep DEF ArchiveTypeOK
  <2>4. CallOK(Run)'
    BY <2>2 DEF CallOK, SealSteps
  <2>5. Keeps(Run) /\ KeepsRow
    BY <2>1, <2>2 DEF Keeps, KeepsRow, Archived, Holds
  <2> QED
    BY <1>0, <2>1, <2>3, <2>4, <2>5, QuietStep
<1>3. CASE GateCloses
  <2>1. /\ At(Run, "close")
        /\ UNCHANGED <<length, archive, tombstone, finished, faults, restarts>>
    BY <1>3 DEF GateCloses, archiveVars, boundVars
  <2>2. /\ phase' \in {phase, "closed"}
        /\ phase # "active" => phase' = phase
        /\ call'[Run].step \in {"record", "fence"} /\ Others(Run)
        /\ call' \in [Callers -> CallRecord] /\ \A d \in Callers : GateIsRun(d, call'[d])
    <3>1. CASE phase = "active"
      BY <1>0, <1>3, <3>1, GotoMoves DEF GateCloses, Steps
    <3>2. CASE phase # "active"
      BY <1>0, <1>3, <3>2, GotoForMoves DEF GateCloses, Steps
    <3> QED  BY <3>1, <3>2
  <2>3. ArchiveTypeOK'
    BY <1>0, <2>1, <2>2, TypeStep DEF ArchiveTypeOK
  <2>4. CallOK(Run)'
    BY <2>2 DEF CallOK, SealSteps
  <2>5. Keeps(Run) /\ KeepsRow
    BY <1>0, <2>1, <2>2 DEF Keeps, KeepsRow, Archived, Holds, ArchiveTypeOK
  <2>6. Archived /\ Archived'
    BY <1>0, <2>1 DEF CallInv, CallOK, At, Archived, Holds
  <2>7. CallInv'
    BY <1>0, <2>4, <2>5, CallsStep
  <2>8. RowInv'
    <3>1. Frozen'
      BY <2>2 DEF Frozen, At
    <3> QED  BY <1>0, <2>1, <3>1 DEF RowInv
  <2> QED
    BY <2>3, <2>6, <2>7, <2>8 DEF ArchiveInv, ClosedInv
<1>4. CASE Restart
  <2> DEFINE again == [Idle EXCEPT !.step = "fence", !.goal = "partial"]
  <2>1. /\ restarts < MaxRestarts /\ restarts' = restarts + 1
        /\ call' = [c \in Callers |-> IF c = Run /\ ~finished THEN again ELSE Idle]
        /\ UNCHANGED <<phase, length, archive, tombstone, finished, faults>>
    BY <1>4 DEF Restart, archiveVars, sessionVars
  <2>2. /\ Idle \in CallRecord /\ Idle.step = "idle" /\ Idle.goal = "none"
        /\ again \in CallRecord /\ again.step = "fence" /\ again.goal = "partial"
    <3>1. Idle \in CallRecord /\ Idle.step = "idle" /\ Idle.goal = "none"
      BY ArchiveAssumption DEF Idle, CallRecord, Steps
    <3> HIDE DEF Idle
    <3> QED  BY <3>1 DEF CallRecord, Steps
  <2> HIDE DEF again
  <2>3. \A c \in Callers : call'[c] \in {Idle, again}
    BY <2>1
  <2>4. ArchiveTypeOK'
    <3>1. call' \in [Callers -> CallRecord]
      BY <2>1, <2>2
    <3>2. \A c \in Callers : GateIsRun(c, call'[c])
      BY <2>2, <2>3 DEF GateIsRun
    <3> QED
      BY <1>0, <2>1, <3>1, <3>2, TypeStep, ArchiveAssumption DEF ArchiveTypeOK
  <2>5. CallInv'
    BY <2>2, <2>3 DEF CallInv, CallOK, SealSteps
  <2>6. ClosedInv'
    BY <1>0, <2>1 DEF ClosedInv, Archived, Holds
  <2>7. RowInv'
    <3>1. Frozen'
      BY <1>0, <2>2, <2>3 DEF Frozen, At
    <3> QED  BY <1>0, <2>1, <3>1 DEF RowInv
  <2> QED
    BY <2>4, <2>5, <2>6, <2>7 DEF ArchiveInv
<1>5. ASSUME NEW h \in Handlers, StopArrives(h) \/ DeleteArrives(h) \/ DeleteFinds(h) \/ DeleteDrops(h)
      PROVE  ArchiveInv'
  <2>0. h \in Callers /\ h # Run
    BY <1>0
  <2>1. /\ UNCHANGED <<phase, length, finished, faults, restarts>>
        /\ Goto(h, "find") \/ Goto(h, "drop") \/ GotoFor(h, "fence", "partial")
           \/ call' = [call EXCEPT ![h] = Idle]
    BY <1>5 DEF StopArrives, DeleteArrives, DeleteFinds, DeleteDrops, archiveVars, sessionVars, boundVars
  <2>2. /\ call'[h].step \in {"find", "drop", "fence", "idle"} /\ Others(h)
        /\ call' \in [Callers -> CallRecord] /\ \A d \in Callers : GateIsRun(d, call'[d])
    <3>1. CASE Goto(h, "find")
      BY <1>0, <2>0, <3>1, GotoMoves DEF Steps
    <3>2. CASE Goto(h, "drop")
      BY <1>0, <2>0, <3>2, GotoMoves DEF Steps
    <3>3. CASE GotoFor(h, "fence", "partial")
      BY <1>0, <2>0, <3>3, GotoForMoves DEF Steps
    <3>4. CASE call' = [call EXCEPT ![h] = Idle]
      BY <1>0, <2>0, <3>4, IdleMoves
    <3> QED  BY <2>1, <3>1, <3>2, <3>3, <3>4
  <2>3. \/ UNCHANGED <<archive, tombstone>>
        \/ tombstone' = TRUE /\ archive' = None
    BY <1>5 DEF StopArrives, DeleteArrives, DeleteFinds, DeleteDrops, archiveVars
  <2>4. ArchiveTypeOK'
    BY <1>0, <2>1, <2>2, <2>3, TypeStep DEF ArchiveTypeOK
  <2>5. CallOK(h)'
    BY <2>0, <2>2 DEF CallOK, SealSteps
  <2>6. Keeps(h) /\ KeepsRow
    BY <2>1, <2>2, <2>3 DEF Keeps, KeepsRow, Archived, Holds
  <2> QED
    BY <2>0, <2>1, <2>4, <2>5, <2>6, QuietStep
<1>6. CASE UNCHANGED vars
  BY <1>0, <1>6 DEF vars, archiveVars, sessionVars, boundVars, ArchiveInv, ArchiveTypeOK, ClosedInv,
                    CallInv, CallOK, RowInv, Frozen, Archived, Holds, At
<1> QED
  BY <1>1, <1>2, <1>3, <1>4, <1>5, <1>6

\* The invariant holds of every reachable state.
LEMMA ArchiveInvHolds == Spec => []ArchiveInv
<1>1. Init => ArchiveInv
  <2> SUFFICES ASSUME Init
               PROVE  ArchiveInv
    OBVIOUS
  <2> DEFINE publishing == [Idle EXCEPT !.step = "publish"]
  <2>1. /\ Idle \in CallRecord /\ Idle.step = "idle" /\ Idle.goal = "none"
        /\ publishing \in CallRecord /\ publishing.step = "publish" /\ publishing.goal = "none"
    BY ArchiveAssumption DEF Idle, CallRecord, Steps
  <2>2. /\ call \in [Callers -> {Idle, publishing}]
        /\ phase = "active" /\ length = 0 /\ archive = None /\ tombstone = FALSE
        /\ finished = FALSE /\ faults = 0 /\ restarts = 0
    BY DEF Init
  <2> HIDE DEF publishing
  <2>3. ArchiveTypeOK
    <3>1. call \in [Callers -> CallRecord] /\ \A c \in Callers : call[c] \in {Idle, publishing}
      BY <2>1, <2>2
    <3>2. \A c \in Callers : call[c].goal = "none" /\ call[c].step # "close"
      BY <2>1, <3>1
    <3>3. 0 \in 0..MaxMessages /\ 0 \in 0..MaxFaults /\ 0 \in 0..MaxRestarts
      BY ArchiveAssumption
    <3> QED
      BY <2>2, <3>1, <3>2, <3>3 DEF ArchiveTypeOK, CallRecord, At
  <2>4. CallInv
    BY <2>1, <2>2 DEF CallInv, CallOK, SealSteps
  <2> QED
    BY <2>2, <2>3, <2>4 DEF ArchiveInv, ClosedInv, RowInv
<1>2. ArchiveInv /\ [Next]_vars => ArchiveInv'
  BY SealsKeep, OthersKeep DEF Next
<1> QED
  BY <1>1, <1>2, PTL DEF Spec

-----------------------------------------------------------------------------
\* No session is closed without the committed archive of its whole transcript, however
\* the gate races with Stop, deletion, rejections and restarts (createArchiveCloseGate).
THEOREM ClosedMeansArchived == Spec => []ClosedIsArchived
<1>1. ArchiveInv => ClosedIsArchived
  BY DEF ArchiveInv, ClosedInv, Archived, ClosedIsArchived
<1> QED
  BY <1>1, ArchiveInvHolds, PTL

\* Whoever archives a fenced session archives all of it: every seal counts the messages
\* behind a fence, or after the execution's last one (stop, seal, validSession).
THEOREM ArchivesAreWhole == Spec => []ArchiveIsWhole
<1>1. ArchiveInv => ArchiveIsWhole
  BY DEF ArchiveInv, RowInv, ArchiveIsWhole
<1> QED
  BY <1>1, ArchiveInvHolds, PTL
=============================================================================
