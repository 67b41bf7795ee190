--------------------------- MODULE CodexServerProofs ---------------------------
(***************************************************************************)
(* Theorems about the app-server process and its credential, for every set *)
(* of callers and every bound on credentials and losses.                   *)
(***************************************************************************)
EXTENDS CodexServer, SequenceTheorems, TLAPS

-----------------------------------------------------------------------------
(***************************************************************************)
(* The inductive invariant.  First the types.                              *)
(***************************************************************************)
Child ==
  [state : {"reading", "starting", "ready", "failed", "dead", "gone"}, epoch : Nat,
   start : Nat, auth : Nat, fate : {"kept", "await, persist", "await, kill", "persist", "kill"},
   why : {"none", "retired", "contested", "lost", "unresponsive", "reset", "closed"}]

Callers == {<<"notice">>, <<"reset">>} \cup ({"child"} \X Nat) \cup ({"call"} \X Calls)

Op == [kind : {"persist", "clear"}, child : Nat, epoch : Nat, by : Callers, value : Nat]

Call ==
  [at : {"idle", "acquire", "await", "launch", "have", "persist", "closing", "done"},
   child : Nat, attempt : {0, 1}]

TypeInv ==
  /\ child \in Seq(Child) /\ queue \in Seq(Op)
  /\ active \in 0..Len(child) /\ recovering \in 0..Len(child)
  /\ closed \in BOOLEAN
  /\ {epoch, vault, writer, issued} \subseteq Nat
  /\ call \in [Calls -> Call]
  /\ reset \in [at : {"idle", "logout", "closing", "clearing", "done"}, child : Nat, upTo : Nat,
                ok : BOOLEAN]
  /\ closing \in [at : {"idle", "recovery", "closing", "done"}, child : Nat]

\* A launch that succeeded, whatever became of its process.
HasStarted(k) == child[k].state \in {"ready", "dead", "gone"}

\* Who waits for a process that is being closed.
IsAwaited(k) ==
  \/ recovering = k
  \/ reset.at = "closing" /\ reset.child = k
  \/ \E c \in Turns : call[c].at = "closing" /\ call[c].child = k
  \/ closing.at = "closing" /\ closing.child = k

\* The cached child is the last one launched and nobody closes it; every other that
\* runs has somebody who waits for its end.  The gate is shut on a dead child.
ChildInv ==
  /\ active # 0 => active = Len(child)
  /\ recovering # 0 => active = 0 /\ recovering = Len(child) /\ child[recovering].state = "dead"
  /\ \A k \in Children :
       /\ active = k => child[k].fate = "kept" /\ child[k].state # "gone"
       /\ ~IsOver(k) /\ child[k].fate = "kept" => active = k
       /\ ~IsOver(k) /\ child[k].fate # "kept" => IsAwaited(k)
       /\ child[k].epoch <= epoch

CallInv ==
  \A c \in Calls :
    /\ call[c].at \in {"await", "launch", "have", "persist", "closing"} => call[c].child \in Children
    /\ call[c].at \in {"have", "persist"} => HasStarted(call[c].child)

\* close() comes when no turn and no reset is under way, and none begins after it.
CloseInv ==
  /\ closing.at # "idle" =>
       /\ closed /\ reset.at \in {"idle", "done"}
       /\ \A c \in Turns : call[c].at \in {"idle", "acquire", "done"}
  /\ closing.at \in {"closing", "done"} => active = 0 /\ recovering = 0
  /\ closing.at = "done" => \A k \in Children : IsOver(k)

\* Only the first operation of the queue has begun, and only one clears the vault.
QueueInv ==
  /\ \A i \in DOMAIN queue :
       /\ i > 1 => queue[i].value = 0
       /\ queue[i].kind = "clear" <=> queue[i].by = <<"reset">>
       /\ queue[i].kind = "clear" => queue[i].value = 0
       /\ queue[i].kind = "persist" =>
            /\ queue[i].child \in Children /\ HasStarted(queue[i].child)
            /\ queue[i].epoch = child[queue[i].child].epoch
  /\ \A i, j \in DOMAIN queue : queue[i].kind = "clear" /\ queue[j].kind = "clear" => i = j

IsClearing == \E i \in DOMAIN queue : queue[i].kind = "clear"

\* Past the clearing of the vault what is under way is of the new epoch, and what
\* is stored too.
EpochInv ==
  /\ reset.at = "idle" => epoch = 0
  /\ reset.at # "clearing" => ~IsClearing
  /\ reset.at \in {"clearing", "done"} /\ ~IsClearing =>
       /\ \A i \in DOMAIN queue : queue[i].value # 0 => queue[i].epoch = epoch
       /\ reset.ok /\ vault # 0 => writer = epoch

\* The credential of a retired process waits in the queue ...
IsSaving(j) ==
  \E i \in DOMAIN queue :
    /\ queue[i].kind = "persist" /\ queue[i].child = j /\ queue[i].by = <<"child", j>>
    /\ queue[i].value \in {0, child[j].auth}

\* ... or nothing older is in the vault, or on its way there.
IsSaved(j) ==
  /\ vault >= child[j].auth
  /\ \A i \in DOMAIN queue : queue[i].value # 0 => queue[i].value >= child[j].auth

RetiredOK(j) ==
  /\ child[j].fate = "persist" /\ child[j].state \in {"dead", "gone"}
  /\ \A i \in 1..(j - 1) : IsOver(i)
  /\ child[j].state = "dead" => recovering = j /\ (IsSaving(j) \/ IsSaved(j))
  /\ child[j].state = "gone" => IsSaved(j)
  /\ \A k \in Children :
       j < k /\ child[k].state \in {"starting", "ready", "dead"} => child[k].start >= child[j].auth

RetireInv ==
  reset.at = "idle" =>
    \A j \in Children :
      /\ child[j].start <= child[j].auth
      /\ child[j].why = "retired" => RetiredOK(j)

\* Nobody holds a credential that was not issued.
IssuedInv ==
  /\ vault <= issued
  /\ \A k \in Children : child[k].auth <= issued
  /\ \A i \in DOMAIN queue : queue[i].value <= issued

ServerInv ==
  TypeInv /\ ChildInv /\ CallInv /\ CloseInv /\ QueueInv /\ EpochInv /\ RetireInv /\ IssuedInv

-----------------------------------------------------------------------------
(***************************************************************************)
(* How the children change.                                                *)
(***************************************************************************)
\* No step forgets a child, the epoch it is of, that it started or that it is over.
ChildrenKept ==
  /\ Children \subseteq Children'
  /\ \A k \in Children :
       /\ child'[k].epoch = child[k].epoch
       /\ HasStarted(k) => HasStarted(k)'
       /\ IsOver(k) => IsOver(k)'

\* One child changes, and the others do not.
Becomes(k, r) ==
  /\ child' \in Seq(Child) /\ Len(child') = Len(child) /\ Children' = Children
  /\ child'[k] = r
  /\ \A j \in Children : j # k => child'[j] = child[j]

\* The numbers of the children.
LEMMA ChildrenType ==
  ASSUME TypeInv
  PROVE  /\ Len(child) \in Nat /\ Children = 1..Len(child)
         /\ \A k \in Children : child[k] \in Child
         /\ \A j \in DOMAIN queue : queue[j] \in Op
  BY DEF TypeInv, Children

\* An assignment to one child is such a change.
LEMMA OneBecomes ==
  ASSUME TypeInv, NEW k \in Children, NEW r \in Child, child' = [child EXCEPT ![k] = r]
  PROVE  Becomes(k, r)
  BY DEF TypeInv, Children, Becomes

\* A child that keeps its epoch, and whose state goes forward, is kept.
LEMMA BecomesKeeps ==
  ASSUME TypeInv, NEW k \in Children, NEW r \in Child, Becomes(k, r),
         r.epoch = child[k].epoch,
         \/ r.state = child[k].state
         \/ child[k].state \in {"reading", "starting"}
         \/ child[k].state \in {"ready", "dead"} /\ r.state \in {"ready", "dead", "gone"}
  PROVE  ChildrenKept
<1> SUFFICES ASSUME NEW j \in Children
             PROVE  /\ child'[j].epoch = child[j].epoch
                    /\ HasStarted(j) => HasStarted(j)'
                    /\ IsOver(j) => IsOver(j)'
  BY DEF ChildrenKept, Becomes
<1>1. CASE j = k
  BY <1>1 DEF Becomes, HasStarted, IsOver
<1>2. CASE j # k
  BY <1>2 DEF Becomes, HasStarted, IsOver
<1> QED
  BY <1>1, <1>2

\* Without a change they are kept.
LEMMA UnchangedKeeps ==
  ASSUME UNCHANGED child
  PROVE  ChildrenKept
  BY DEF ChildrenKept, Children, HasStarted, IsOver

-----------------------------------------------------------------------------
(***************************************************************************)
(* How the queue changes.                                                  *)
(***************************************************************************)
\* Who asked for an operation tells the reset's from the others.
LEMMA CallerTags ==
  /\ <<"notice">> # <<"reset">>
  /\ \A k : <<"child", k>> # <<"reset">> /\ <<"call", k>> # <<"reset">>
  OBVIOUS

\* The operation with the reset's name is the one that clears the vault.
LEMMA ResetIsQueued ==
  ASSUME QueueInv
  PROVE  IsQueued(<<"reset">>) <=> IsClearing
  BY DEF QueueInv, IsQueued, IsClearing

\* A step that asks for nothing leaves the queue as good as it was.
LEMMA QueueStays ==
  ASSUME TypeInv, QueueInv, ChildrenKept, UNCHANGED queue
  PROVE  QueueInv' /\ (IsClearing' <=> IsClearing)
  BY DEF QueueInv, ChildrenKept, IsClearing

\* An operation that persists is put at the end.
Persisting(op) ==
  /\ op \in Op /\ op.kind = "persist" /\ op.value = 0 /\ op.by # <<"reset">>
  /\ op.child \in Children /\ HasStarted(op.child) /\ op.epoch = child[op.child].epoch

\* Asking for a persist at the end of the queue disturbs no operation before it.
LEMMA QueueAppend ==
  ASSUME TypeInv, QueueInv, ChildrenKept, NEW op, Persisting(op), queue' = Append(queue, op)
  PROVE  /\ queue' \in Seq(Op) /\ QueueInv' /\ (IsClearing' <=> IsClearing)
         /\ \A i \in DOMAIN queue : i \in DOMAIN queue' /\ queue'[i] = queue[i]
         /\ \A i \in DOMAIN queue' :
              (i \in DOMAIN queue /\ queue'[i] = queue[i]) \/ queue'[i].value = 0
         /\ Len(queue') = Len(queue) + 1 /\ queue'[Len(queue')] = op
<1>1. queue \in Seq(Op) /\ Len(queue) \in Nat
  BY DEF TypeInv
<1>2. /\ queue' \in Seq(Op) /\ Len(queue') = Len(queue) + 1 /\ queue'[Len(queue')] = op
      /\ \A i \in 1..Len(queue) : queue'[i] = queue[i]
      /\ DOMAIN queue = 1..Len(queue) /\ DOMAIN queue' = 1..Len(queue')
  BY <1>1 DEF Persisting
<1>3. \A i \in DOMAIN queue' : \/ i \in DOMAIN queue /\ queue'[i] = queue[i]
                               \/ i \notin DOMAIN queue /\ queue'[i] = op
  BY <1>1, <1>2
<1>4. IsClearing' <=> IsClearing
  BY <1>1, <1>2, <1>3 DEF IsClearing, Persisting
<1>5. QueueInv'
  <2>1. ASSUME NEW i \in DOMAIN queue'
        PROVE  /\ i > 1 => queue'[i].value = 0
               /\ queue'[i].kind = "clear" <=> queue'[i].by = <<"reset">>
               /\ queue'[i].kind = "clear" => queue'[i].value = 0
               /\ queue'[i].kind = "persist" =>
                    /\ queue'[i].child \in Children' /\ HasStarted(queue[i].child)'
                    /\ queue'[i].epoch = child'[queue'[i].child].epoch
    <3>1. CASE i \in DOMAIN queue /\ queue'[i] = queue[i]
      BY <3>1 DEF QueueInv, ChildrenKept
    <3>2. CASE i \notin DOMAIN queue /\ queue'[i] = op
      BY <3>2 DEF Persisting, ChildrenKept, HasStarted
    <3> QED
      BY <1>3, <2>1, <3>1, <3>2
  <2>2. ASSUME NEW i \in DOMAIN queue', NEW j \in DOMAIN queue',
               queue'[i].kind = "clear", queue'[j].kind = "clear"
        PROVE  i = j
    BY <1>3, <2>2 DEF QueueInv, Persisting
  <2> QED
    BY <2>1, <2>2 DEF QueueInv
<1> QED
  BY <1>1, <1>2, <1>3, <1>4, <1>5 DEF Persisting

\* The first operation is over, and none of those left has begun.
LEMMA QueueTail ==
  ASSUME TypeInv, QueueInv, ChildrenKept, queue # <<>>, queue' = Tail(queue)
  PROVE  /\ queue' \in Seq(Op) /\ QueueInv'
         /\ \A i \in DOMAIN queue' :
              /\ i + 1 \in DOMAIN queue /\ queue'[i] = queue[i + 1] /\ queue'[i].value = 0
         /\ \A i \in DOMAIN queue : i > 1 => i - 1 \in DOMAIN queue' /\ queue'[i - 1] = queue[i]
         /\ Head(queue) = queue[1] /\ 1 \in DOMAIN queue
         /\ IF queue[1].kind = "clear" THEN ~IsClearing' ELSE IsClearing' <=> IsClearing
<1>1. queue \in Seq(Op) /\ Len(queue) \in Nat /\ Len(queue) # 0
  BY DEF TypeInv
<1>2. /\ queue' \in Seq(Op) /\ Len(queue') = Len(queue) - 1
      /\ DOMAIN queue = 1..Len(queue) /\ DOMAIN queue' = 1..Len(queue')
      /\ \A i \in 1..Len(queue') : queue'[i] = queue[i + 1]
      /\ Head(queue) = queue[1]
  BY <1>1
<1>3. \A i \in DOMAIN queue' :
        i \in Nat /\ i + 1 \in DOMAIN queue /\ i + 1 > 1 /\ queue'[i] = queue[i + 1] /\ queue'[i].value = 0
  BY <1>1, <1>2 DEF QueueInv
<1>4. \A i \in DOMAIN queue :
        i \in Nat /\ (i > 1 => i - 1 \in DOMAIN queue' /\ queue'[i - 1] = queue[i])
  BY <1>1, <1>2
<1>5. QueueInv'
  <2>1. ASSUME NEW i \in DOMAIN queue'
        PROVE  /\ i > 1 => queue'[i].value = 0
               /\ queue'[i].kind = "clear" <=> queue'[i].by = <<"reset">>
               /\ queue'[i].kind = "clear" => queue'[i].value = 0
               /\ queue'[i].kind = "persist" =>
                    /\ queue'[i].child \in Children' /\ HasStarted(queue[i].child)'
                    /\ queue'[i].epoch = child'[queue'[i].child].epoch
    BY <1>3 DEF QueueInv, ChildrenKept
  <2>2. ASSUME NEW i \in DOMAIN queue', NEW j \in DOMAIN queue',
               queue'[i].kind = "clear", queue'[j].kind = "clear"
        PROVE  i = j
    <3>1. i + 1 = j + 1
      BY <1>3, <2>2 DEF QueueInv
    <3> QED
      BY <1>3, <3>1
  <2> QED
    BY <2>1, <2>2 DEF QueueInv
<1>6. 1 \in DOMAIN queue
  BY <1>1, <1>2
<1>7. CASE queue[1].kind = "clear"
  <2>1. ASSUME NEW i \in DOMAIN queue', queue'[i].kind = "clear"
        PROVE  FALSE
    <3>1. i + 1 = 1
      BY <1>3, <1>6, <1>7, <2>1 DEF QueueInv
    <3> QED
      BY <1>3, <3>1
  <2> QED
    BY <1>2, <1>3, <1>4, <1>5, <1>6, <1>7, <2>1 DEF IsClearing
<1>8. CASE queue[1].kind # "clear"
  <2>1. IsClearing => IsClearing'
    <3> SUFFICES ASSUME NEW i \in DOMAIN queue, queue[i].kind = "clear"
                 PROVE  IsClearing'
      BY DEF IsClearing
    <3>1. i > 1
      BY <1>4, <1>8, <1>2
    <3> QED
      BY <1>4, <3>1 DEF IsClearing
  <2>2. IsClearing' => IsClearing
    BY <1>3 DEF IsClearing
  <2> QED
    BY <1>2, <1>3, <1>4, <1>5, <1>6, <1>8, <2>1, <2>2
<1> QED
  BY <1>7, <1>8

\* A queue in which nothing has begun that had not, and nothing is lost.
QueueGrows ==
  /\ \A i \in DOMAIN queue : i \in DOMAIN queue' /\ queue'[i] = queue[i]
  /\ \A i \in DOMAIN queue' : (i \in DOMAIN queue /\ queue'[i] = queue[i]) \/ queue'[i].value = 0

\* Either nothing is asked for, or that something be persisted.
Asks == UNCHANGED queue \/ \E op : Persisting(op) /\ queue' = Append(queue, op)

\* Whether it asks for a persist or not, a call leaves the queue good.
LEMMA AskingStep ==
  ASSUME TypeInv, QueueInv, ChildrenKept, Asks
  PROVE  queue' \in Seq(Op) /\ QueueInv' /\ (IsClearing' <=> IsClearing) /\ QueueGrows
<1>1. CASE UNCHANGED queue
  BY <1>1, QueueStays DEF QueueGrows, TypeInv
<1>2. CASE \E op : Persisting(op) /\ queue' = Append(queue, op)
  BY <1>2, QueueAppend DEF QueueGrows
<1> QED
  BY <1>1, <1>2 DEF Asks

-----------------------------------------------------------------------------
(***************************************************************************)
(* The epochs and the retired processes, when the vault is left alone.     *)
(***************************************************************************)
\* The epochs stay in order while the vault, its writer and the reset stand still.
LEMMA EpochStays ==
  ASSUME EpochInv, UNCHANGED <<epoch, reset, vault, writer>>, IsClearing' <=> IsClearing, QueueGrows
  PROVE  EpochInv'
  BY DEF EpochInv, QueueGrows

\* A credential that is waiting, or safe, stays so while the queue only grows.
LEMMA SavingStays ==
  ASSUME TypeInv, NEW j \in Children, QueueGrows, UNCHANGED vault, child'[j].auth = child[j].auth
  PROVE  (IsSaving(j) => IsSaving(j)') /\ (IsSaved(j) => IsSaved(j)')
<1>1. IsSaving(j) => IsSaving(j)'
  BY DEF IsSaving, QueueGrows
<1>2. IsSaved(j) => IsSaved(j)'
  BY DEF IsSaved, QueueGrows
<1> QED
  BY <1>1, <1>2

\* What a step may do to a child without touching those that were retired: it may
\* start it with what the vault holds, or kill it once its credential is safe.
Spares(k) ==
  /\ child'[k].start <= child'[k].auth
  /\ child'[k].why = "retired" =>
       /\ child[k].why = "retired"
       /\ child'[k].fate = child[k].fate /\ child'[k].auth = child[k].auth
       /\ \/ child'[k].state = child[k].state /\ (recovering = k => recovering' = k)
          \/ child'[k].state = "gone" /\ ~IsSaving(k)
  /\ child'[k].state \in {"starting", "ready", "dead"} =>
       \/ child[k].state \in {"starting", "ready", "dead"} /\ child'[k].start = child[k].start
       \/ child'[k].start = vault

\* It may also retire one.
Retires(k) ==
  /\ RetiredOK(k)'
  /\ child'[k].start <= child'[k].auth /\ child'[k].start = child[k].start
  /\ child[k].state \in {"starting", "ready", "dead"}

\* A child that has just been launched.
IsNew(k) == child'[k].state = "reading" /\ child'[k].why = "none" /\ child'[k].start <= child'[k].auth

\* The credential of a retired process stays safe while calls only ask.
LEMMA RetiredStays ==
  ASSUME TypeInv, ChildInv, RetireInv, ChildrenKept, QueueGrows, UNCHANGED vault,
         reset'.at = "idle" =>
           /\ reset.at = "idle"
           /\ \A k \in Children : Spares(k) \/ Retires(k)
           /\ \A k \in Children' \ Children : IsNew(k)
  PROVE  RetireInv'
<1> SUFFICES ASSUME reset'.at = "idle", NEW j \in Children'
             PROVE  child'[j].start <= child'[j].auth /\ (child'[j].why = "retired" => RetiredOK(j)')
  BY DEF RetireInv
<1>1. CASE j \notin Children
  BY <1>1 DEF IsNew
<1>2. CASE j \in Children /\ child'[j].why = "retired" /\ Spares(j)
  <2>1. Spares(j) /\ RetiredOK(j) /\ j \in 1..Len(child) /\ Len(child) \in Nat
    BY <1>2, ChildrenType DEF RetireInv, Spares
  <2>2. /\ child'[j].fate = "persist" /\ child'[j].state \in {"dead", "gone"}
        /\ child'[j].auth = child[j].auth
    BY <1>2, <2>1 DEF Spares, RetiredOK
  <2>3. \A i \in 1..(j - 1) : IsOver(i)'
    BY <2>1, ChildrenType DEF RetiredOK, ChildrenKept
  <2>4. (IsSaving(j) => IsSaving(j)') /\ (IsSaved(j) => IsSaved(j)')
    BY <1>2, <2>2, SavingStays
  <2>5. child'[j].state = "dead" => recovering' = j /\ (IsSaving(j)' \/ IsSaved(j)')
    BY <1>2, <2>1, <2>4 DEF Spares, RetiredOK
  <2>6. child'[j].state = "gone" => IsSaved(j)'
    BY <1>2, <2>1, <2>4 DEF Spares, RetiredOK
  <2>7. ASSUME NEW k \in Children', j < k, child'[k].state \in {"starting", "ready", "dead"}
        PROVE  child'[k].start >= child'[j].auth
    <3>1. k \in Children /\ (Spares(k) \/ Retires(k))
      BY <2>7 DEF IsNew
    <3>2. child[j].state = "gone"
      BY <2>1, <2>7, <3>1, ChildrenType DEF RetiredOK, ChildInv
    <3> QED
      BY <2>1, <2>2, <2>7, <3>1, <3>2 DEF Spares, Retires, RetiredOK, IsSaved
  <2> QED
    BY <1>2, <2>1, <2>2, <2>3, <2>5, <2>6, <2>7 DEF RetiredOK, Spares
<1>3. CASE j \in Children /\ child'[j].why # "retired"
  BY <1>3 DEF Spares, Retires
<1>4. CASE j \in Children /\ Retires(j)
  BY <1>4 DEF Retires
<1> QED
  BY <1>1, <1>2, <1>3, <1>4

\* A step that leaves the children alone spares them.
LEMMA UnchangedSpares ==
  ASSUME TypeInv, RetireInv, UNCHANGED <<child, recovering>>, reset.at = "idle"
  PROVE  (\A k \in Children : Spares(k)) /\ Children' = Children
  BY ChildrenType DEF Spares, RetireInv, Children

-----------------------------------------------------------------------------
(***************************************************************************)
(* The steps of a caller that closes and launches nothing.                 *)
(***************************************************************************)
\* What replacing the record of one call does.
LEMMA CallBecomes ==
  ASSUME TypeInv, NEW c \in Calls, NEW r \in Call, call' = [call EXCEPT ![c] = r]
  PROVE  /\ call' \in [Calls -> Call] /\ call'[c] = r
         /\ \A d \in Calls : d # c => call'[d] = call[d]
  BY DEF TypeInv

\* Whom a caller waits for is still awaited, unless it was over.
LEMMA AwaitedStays ==
  ASSUME TypeInv, NEW c \in Calls, NEW r \in Call, call' = [call EXCEPT ![c] = r],
         UNCHANGED <<recovering, reset, closing>>, NEW k, IsAwaited(k),
         call[c].at = "closing" => k # call[c].child
  PROVE  IsAwaited(k)'
<1>1. CASE \E d \in Turns : call[d].at = "closing" /\ call[d].child = k
  <2>1. PICK d \in Turns : call[d].at = "closing" /\ call[d].child = k
    BY <1>1
  <2>2. d # c /\ d \in Calls
    BY <2>1 DEF Calls
  <2> QED
    BY <2>1, <2>2, CallBecomes DEF IsAwaited
<1> QED
  BY <1>1 DEF IsAwaited

\* A step of one call that closes and launches nothing keeps the invariant.
LEMMA CallStep ==
  ASSUME ServerInv, NEW c \in Calls, NEW r \in Call, call' = [call EXCEPT ![c] = r],
         UNCHANGED <<child, recovering, closed, epoch, vault, writer, issued, reset, closing>>,
         Asks,
         \/ active' = active
         \/ active' = 0 /\ (active # 0 => IsOver(active)),
         r.at \in {"await", "launch", "have", "persist", "closing"} => r.child \in Children,
         r.at \in {"have", "persist"} => HasStarted(r.child),
         call[c].at = "closing" => IsOver(call[c].child),
         c \in Turns /\ closing.at # "idle" => r.at \in {"idle", "acquire", "done"}
  PROVE  ServerInv'
<1>0. /\ TypeInv /\ ChildInv /\ CallInv /\ CloseInv /\ QueueInv /\ EpochInv /\ RetireInv
      /\ IssuedInv /\ ChildrenKept
  BY UnchangedKeeps DEF ServerInv
<1>1. /\ queue' \in Seq(Op) /\ QueueInv' /\ (IsClearing' <=> IsClearing) /\ QueueGrows
  BY <1>0, AskingStep
<1>2. /\ call' \in [Calls -> Call] /\ call'[c] = r
      /\ \A d \in Calls : d # c => call'[d] = call[d]
  BY <1>0, CallBecomes
<1>3. TypeInv'
  BY <1>0, <1>1, <1>2 DEF TypeInv
<1>4. ChildInv'
  <2>1. ASSUME NEW k \in Children, ~IsOver(k), IsAwaited(k)
        PROVE  IsAwaited(k)'
    BY <1>0, <2>1, AwaitedStays
  <2> QED
    BY <1>0, <2>1 DEF ChildInv, Children, IsOver
<1>5. CallInv'
  BY <1>0, <1>2 DEF CallInv, Children, HasStarted
<1>6. CloseInv'
  <2>1. \A d \in Turns : d \in Calls
    BY DEF Calls
  <2> QED
    BY <1>0, <1>2, <2>1 DEF CloseInv, Children, IsOver
<1>7. EpochInv'
  BY <1>0, <1>1, EpochStays
<1>8. RetireInv'
  BY <1>0, <1>1, UnchangedSpares, RetiredStays
<1>9. IssuedInv'
  <2>1. vault' <= issued' /\ \A k \in Children' : child'[k].auth <= issued'
    BY <1>0 DEF IssuedInv, Children
  <2>2. ASSUME NEW i \in DOMAIN queue'
        PROVE  queue'[i].value <= issued'
    <3>1. issued \in Nat /\ issued' = issued
      BY <1>0 DEF TypeInv
    <3>2. (i \in DOMAIN queue /\ queue'[i] = queue[i]) \/ queue'[i].value = 0
      BY <1>1 DEF QueueGrows
    <3> QED
      BY <1>0, <3>1, <3>2 DEF IssuedInv
  <2> QED
    BY <2>1, <2>2 DEF IssuedInv
<1> QED
  BY <1>1, <1>3, <1>4, <1>5, <1>6, <1>7, <1>8, <1>9 DEF ServerInv

\* An operation begins.
LEMMA EnterStep ==
  ASSUME ServerInv, NEW c \in Calls, Enter(c)
  PROVE  ServerInv'
<1> DEFINE r == [call[c] EXCEPT !.at = "acquire"]
<1>1. r \in Call /\ r.at = "acquire" /\ call' = [call EXCEPT ![c] = r] /\ call[c].at = "idle"
  BY DEF ServerInv, TypeInv, Call, Enter, Move
<1> HIDE DEF r
<1> QED
  BY <1>1, CallStep DEF Enter, Asks

\* What the caller waited for has happened.
LEMMA FinishStep ==
  ASSUME ServerInv, NEW c \in Calls, Finish(c)
  PROVE  ServerInv'
<1> DEFINE r == [call[c] EXCEPT !.at = "done"]
<1>1. r \in Call /\ r.at = "done" /\ call' = [call EXCEPT ![c] = r]
  BY DEF ServerInv, TypeInv, Call, Finish, Move
<1>2. call[c].at = "closing" => IsOver(call[c].child)
  BY DEF Finish
<1> HIDE DEF r
<1> QED
  BY <1>1, <1>2, CallStep DEF Finish, Asks

\* The launch has failed: the promise is dropped, and no other.
LEMMA FailedStep ==
  ASSUME ServerInv, NEW c \in Calls, call[c].at \in {"await", "launch"}, Failed(c)
  PROVE  ServerInv'
<1> DEFINE r == [call[c] EXCEPT !.at = "done"]
<1>1. r \in Call /\ r.at = "done" /\ call' = [call EXCEPT ![c] = r]
  BY DEF ServerInv, TypeInv, Call, Failed, Move
<1>2. active' = active \/ (active' = 0 /\ IsOver(active))
  BY DEF Failed, IsOver
<1> HIDE DEF r
<1> QED
  BY <1>1, <1>2, CallStep DEF Failed, Asks

\* A probe goes round again or has the credential persisted; others return.
LEMMA UseStep ==
  ASSUME ServerInv, NEW c \in Calls, Use(c)
  PROVE  ServerInv'
<1> DEFINE k == call[c].child
           again == [call[c] EXCEPT !.at = "acquire", !.attempt = 1]
           persists == [call[c] EXCEPT !.at = "persist"]
           over == [call[c] EXCEPT !.at = "done"]
           op == PersistOp(k, <<"call", c>>)
<1>0. /\ TypeInv /\ CallInv /\ CloseInv /\ call[c].at = "have" /\ call[c] \in Call
      /\ k \in Children /\ HasStarted(k)
  BY DEF ServerInv, TypeInv, CallInv, Use
<1>1. CASE call' = [call EXCEPT ![c] = again] /\ UNCHANGED queue
  <2>1. again \in Call /\ again.at = "acquire"
    BY <1>0 DEF Call
  <2> HIDE DEF again
  <2> QED
    BY <1>0, <1>1, <2>1, CallStep DEF Use, Asks
<1>2. CASE call' = [call EXCEPT ![c] = over] /\ UNCHANGED queue
  <2>1. over \in Call /\ over.at = "done"
    BY <1>0 DEF Call
  <2> HIDE DEF over
  <2> QED
    BY <1>0, <1>2, <2>1, CallStep DEF Use, Asks
<1>3. CASE c \in Probes /\ call' = [call EXCEPT ![c] = persists] /\ queue' = Append(queue, op)
  <2>1. persists \in Call /\ persists.at = "persist" /\ persists.child = k
    BY <1>0 DEF Call
  <2>2. <<"call", c>> \in Callers /\ <<"call", c>> # <<"reset">>
    BY CallerTags DEF Callers
  <2>3. child[k].epoch \in Nat /\ k \in Nat
    <3>1. TypeInv
      BY <1>0
    <3>2. \A m \in Children : child[m].epoch \in Nat
      BY <3>1, ChildrenType DEF Child
    <3>3. \A m \in Children : m \in Nat
      BY <3>1, ChildrenType
    <3> QED
      BY <1>0, <3>2, <3>3
  <2>4. Persisting(op)
    BY <1>0, <2>2, <2>3 DEF Persisting, PersistOp, Op
  <2>5. c \notin Turns
    BY <1>3, CodexAssumption
  <2> HIDE DEF persists, op, k
  <2> QED
    BY <1>0, <1>3, <2>1, <2>4, <2>5, CallStep DEF Use, Asks
<1> QED
  BY <1>1, <1>2, <1>3 DEF Use, Move

\* The caller is refused, or waits for the cached child.
LEMMA JoinStep ==
  ASSUME ServerInv, NEW c \in Calls, Acquire(c), closed \/ active # 0
  PROVE  ServerInv'
<1> DEFINE over == [call[c] EXCEPT !.at = "done"]
           waits == [call[c] EXCEPT !.at = "await", !.child = active]
<1>0. TypeInv /\ CloseInv /\ call[c] \in Call /\ call[c].at = "acquire"
  BY DEF ServerInv, TypeInv, Acquire
<1>1. CASE closed
  <2>1. over \in Call /\ over.at = "done" /\ call' = [call EXCEPT ![c] = over] /\ UNCHANGED <<child, active>>
    BY <1>0, <1>1 DEF Call, Acquire, Move
  <2> HIDE DEF over
  <2> QED
    BY <1>0, <2>1, CallStep DEF Acquire, Asks
<1>2. CASE ~closed /\ active # 0
  <2>1. active \in Nat /\ active \in Children
    BY <1>0, <1>2, ChildrenType DEF TypeInv
  <2>2. /\ waits \in Call /\ waits.at = "await" /\ waits.child = active
        /\ call' = [call EXCEPT ![c] = waits] /\ UNCHANGED <<child, active>>
    BY <1>0, <1>2, <2>1 DEF Call, Acquire
  <2>3. closing.at = "idle"
    BY <1>0, <1>2 DEF CloseInv
  <2> HIDE DEF waits
  <2> QED
    BY <1>0, <2>1, <2>2, <2>3, CallStep DEF Acquire, Asks
<1> QED
  BY <1>1, <1>2

\* The child the caller waited for is there, or another one in its place.
LEMMA HaveStep ==
  ASSUME ServerInv, NEW c \in Calls, call[c].at \in {"await", "launch"}, Resolved(c),
         UNCHANGED <<child, active, recovering, queue>>
  PROVE  ServerInv'
<1> DEFINE k == call[c].child
           has == [call[c] EXCEPT !.at = "have"]
           again == [call[c] EXCEPT !.at = "acquire"]
<1>0. /\ TypeInv /\ ChildInv /\ CallInv /\ CloseInv /\ call[c] \in Call /\ k \in Children
  BY DEF ServerInv, TypeInv, CallInv
<1>1. HasStarted(k)
  BY <1>0, ChildrenType DEF Resolved, IsPending, Child, HasStarted
<1>2. c \in Turns => closing.at = "idle"
  BY <1>0 DEF CloseInv
<1>3. call' = [call EXCEPT ![c] = has] \/ call' = [call EXCEPT ![c] = again]
  BY DEF Resolved, Move
<1>4. has \in Call /\ has.at = "have" /\ has.child = k /\ again \in Call /\ again.at = "acquire"
  BY <1>0 DEF Call
<1> HIDE DEF has, again, k
<1> QED
  BY <1>0, <1>1, <1>2, <1>3, <1>4, CallStep DEF Resolved, Asks

-----------------------------------------------------------------------------
(***************************************************************************)
(* A launch.                                                               *)
(***************************************************************************)
\* Launching a process keeps the invariant: it becomes the only one un-closed.
LEMMA LaunchStep ==
  ASSUME ServerInv, NEW c \in Calls, Acquire(c), ~closed, active = 0
  PROVE  ServerInv'
<1> DEFINE n == Len(child) + 1
           r == [call[c] EXCEPT !.at = "launch", !.child = n]
           new == NewChild
<1>0. /\ TypeInv /\ ChildInv /\ CallInv /\ CloseInv /\ QueueInv /\ EpochInv /\ RetireInv /\ IssuedInv
      /\ call[c] \in Call /\ recovering = 0 /\ call[c].at = "acquire"
      /\ child \in Seq(Child) /\ Len(child) \in Nat /\ Children = 1..Len(child)
  BY ChildrenType DEF ServerInv, TypeInv, Acquire
<1>1. /\ new \in Child /\ new.state = "reading" /\ new.fate = "kept" /\ new.why = "none"
      /\ new.epoch = epoch /\ new.start = 0 /\ new.auth = 0
  BY <1>0 DEF NewChild, Child, TypeInv
<1>2. /\ child' = Append(child, new) /\ active' = n /\ call' = [call EXCEPT ![c] = r]
      /\ UNCHANGED <<recovering, closed, epoch, queue, vault, writer, issued, reset, closing, losses>>
  BY DEF Acquire
<1>3. r \in Call /\ r.at = "launch" /\ r.child = n
  <2>1. n \in Nat
    BY <1>0
  <2> HIDE DEF n
  <2> QED
    BY <1>0, <2>1 DEF Call
<1> HIDE DEF r, new
<1>4. /\ child' \in Seq(Child) /\ Len(child') = n /\ Children' = 1..n
      /\ child'[n] = new /\ \A k \in Children : child'[k] = child[k]
  BY <1>0, <1>1, <1>2 DEF Children
<1>5. ChildrenKept
  BY <1>0, <1>4 DEF ChildrenKept, HasStarted, IsOver
<1>6. /\ queue' \in Seq(Op) /\ QueueInv' /\ (IsClearing' <=> IsClearing) /\ QueueGrows
  BY <1>0, <1>2, <1>5, AskingStep DEF Asks
<1>7. /\ call' \in [Calls -> Call] /\ call'[c] = r
      /\ \A d \in Calls : d # c => call'[d] = call[d]
  BY <1>0, <1>2, <1>3, CallBecomes
<1>8. TypeInv'
  BY <1>0, <1>2, <1>4, <1>6, <1>7 DEF TypeInv
<1>9. ChildInv'
  <2>1. ASSUME NEW k \in Children, ~IsOver(k), child[k].fate # "kept"
        PROVE  IsAwaited(k)'
    BY <1>0, <1>2, <1>3, <2>1, AwaitedStays DEF ChildInv
  <2>2. ASSUME NEW k \in Children'
        PROVE  /\ active' = k => child'[k].fate = "kept" /\ child'[k].state # "gone"
               /\ ~IsOver(k)' /\ child'[k].fate = "kept" => active' = k
               /\ ~IsOver(k)' /\ child'[k].fate # "kept" => IsAwaited(k)'
               /\ child'[k].epoch <= epoch'
    <3>1. CASE k = n
      BY <1>0, <1>1, <1>2, <1>4, <3>1 DEF TypeInv
    <3>2. CASE k \in Children
      BY <1>0, <1>2, <1>4, <2>1, <3>2 DEF ChildInv, IsOver
    <3> QED
      BY <1>0, <1>4, <3>1, <3>2
  <2> QED
    BY <1>0, <1>2, <1>4, <2>2 DEF ChildInv
<1>10. CallInv'
  BY <1>0, <1>3, <1>4, <1>5, <1>7 DEF CallInv, ChildrenKept
<1>11. CloseInv'
  BY <1>0, <1>2 DEF CloseInv
<1>12. EpochInv'
  BY <1>0, <1>2, <1>6, EpochStays
<1>13. RetireInv'
  <2>1. ASSUME NEW k \in Children, reset.at = "idle"
        PROVE  Spares(k)
    BY <1>0, <1>2, <1>4, <2>1 DEF Spares, RetireInv
  <2>2. \A k \in Children' \ Children : IsNew(k)
    BY <1>0, <1>1, <1>4 DEF IsNew
  <2> QED
    BY <1>0, <1>2, <1>5, <1>6, <2>1, <2>2, RetiredStays
<1>14. IssuedInv'
  BY <1>0, <1>1, <1>2, <1>4 DEF IssuedInv, TypeInv
<1> QED
  BY <1>6, <1>8, <1>9, <1>10, <1>11, <1>12, <1>13, <1>14 DEF ServerInv

-----------------------------------------------------------------------------
(***************************************************************************)
(* The steps of one child.                                                 *)
(***************************************************************************)
\* The types of a child's fields, one by one.
LEMMA ChildType ==
  ASSUME TypeInv, NEW k \in Children
  PROVE  /\ child[k] \in Child /\ k \in Nat /\ k # 0
         /\ child[k].start \in Nat /\ child[k].auth \in Nat /\ child[k].epoch \in Nat
<1>1. child[k] \in Child
  BY ChildrenType
<1>2. k \in Nat /\ k # 0
  BY ChildrenType
<1>3. child[k].start \in Nat /\ child[k].auth \in Nat /\ child[k].epoch \in Nat
  BY <1>1 DEF Child
<1> QED
  BY <1>1, <1>2, <1>3

\* What may become of a child in a step of its own: it goes forward, nobody is
\* robbed of it, and if it is retired only its end is left to it.
ChildMoves(k, r) ==
  /\ child' = [child EXCEPT ![k] = r]
  /\ UNCHANGED <<active, closed, epoch, vault, writer, call, reset, closing>>
  /\ issued' \in Nat /\ issued <= issued' /\ r.auth <= issued'
  /\ Asks
  /\ r.epoch = child[k].epoch /\ r.why = child[k].why
  /\ \/ r.state = child[k].state
     \/ child[k].state \in {"reading", "starting"}
     \/ child[k].state \in {"ready", "dead"} /\ r.state \in {"ready", "dead", "gone"}
  /\ r.fate = "kept" <=> child[k].fate = "kept"
  /\ r.state = "gone" => child[k].fate # "kept"
  /\ \/ recovering' = recovering /\ (recovering = k => r.state = "dead")
     \/ recovering = k /\ recovering' = 0 /\ r.state = "gone"
  /\ reset.at = "idle" =>
       /\ r.start <= r.auth
       /\ child[k].why = "retired" =>
            /\ r.fate = child[k].fate /\ r.auth = child[k].auth
            /\ r.state = child[k].state \/ (r.state = "gone" /\ ~IsSaving(k))
       /\ r.state \in {"starting", "ready", "dead"} =>
            \/ child[k].state \in {"starting", "ready", "dead"} /\ r.start = child[k].start
            \/ r.start = vault

\* A step of one process keeps the invariant.
LEMMA ChildStep ==
  ASSUME ServerInv, NEW k \in Children, NEW r \in Child, ChildMoves(k, r)
  PROVE  ServerInv'
<1>0. /\ TypeInv /\ ChildInv /\ CallInv /\ CloseInv /\ QueueInv /\ EpochInv /\ RetireInv /\ IssuedInv
      /\ Len(child) \in Nat /\ Children = 1..Len(child) /\ child[k] \in Child /\ k # 0
  BY ChildrenType, ChildType DEF ServerInv
<1> USE DEF ChildMoves
<1>1. Becomes(k, r)
  BY <1>0, OneBecomes
<1>2. ChildrenKept
  BY <1>0, <1>1, BecomesKeeps
<1>3. /\ queue' \in Seq(Op) /\ QueueInv' /\ (IsClearing' <=> IsClearing) /\ QueueGrows
  BY <1>0, <1>2, AskingStep
<1>4. TypeInv'
  BY <1>0, <1>1, <1>3 DEF TypeInv, Becomes
<1>5. ChildInv'
  <2>1. ASSUME NEW j \in Children, IsAwaited(j), ~IsOver(j)'
        PROVE  IsAwaited(j)'
    BY <1>1, <2>1 DEF IsAwaited, Becomes, IsOver
  <2>2. ASSUME NEW j \in Children'
        PROVE  /\ active' = j => child'[j].fate = "kept" /\ child'[j].state # "gone"
               /\ ~IsOver(j)' /\ child'[j].fate = "kept" => active' = j
               /\ ~IsOver(j)' /\ child'[j].fate # "kept" => IsAwaited(j)'
               /\ child'[j].epoch <= epoch'
    <3>0. j \in Children /\ (IsOver(j) => IsOver(j)')
      BY <1>1, <1>2 DEF Becomes, ChildrenKept
    <3>1. CASE j = k
      BY <1>0, <1>1, <2>1, <3>0, <3>1 DEF ChildInv, Becomes
    <3>2. CASE j # k
      BY <1>0, <1>1, <2>1, <3>0, <3>2 DEF ChildInv, Becomes, IsOver
    <3> QED
      BY <3>1, <3>2
  <2>3. recovering' # 0 => /\ active' = 0 /\ recovering' = Len(child')
                           /\ child'[recovering'].state = "dead"
    <3> SUFFICES ASSUME recovering' # 0
                 PROVE  /\ active' = 0 /\ recovering' = Len(child')
                        /\ child'[recovering'].state = "dead"
      OBVIOUS
    <3>1. recovering' = recovering /\ recovering \in Children
      BY <1>0 DEF TypeInv
    <3> QED
      BY <1>0, <1>1, <3>1 DEF ChildInv, Becomes
  <2> QED
    BY <1>0, <1>1, <2>2, <2>3 DEF ChildInv, Becomes
<1>6. CallInv'
  BY <1>0, <1>2 DEF CallInv, ChildrenKept
<1>7. CloseInv'
  BY <1>0, <1>1, <1>2 DEF CloseInv, ChildrenKept, Becomes
<1>8. EpochInv'
  BY <1>0, <1>3, EpochStays
<1>9. RetireInv'
  <2>1. ASSUME NEW j \in Children, reset.at = "idle"
        PROVE  Spares(j)
    <3>1. CASE j = k
      BY <1>0, <1>1, <2>1, <3>1 DEF Spares, Becomes, ChildInv
    <3>2. CASE j # k
      BY <1>0, <1>1, <2>1, <3>2 DEF Spares, Becomes, RetireInv
    <3> QED
      BY <3>1, <3>2
  <2>2. Children' = Children
    BY <1>1 DEF Becomes
  <2> QED
    BY <1>0, <1>2, <1>3, <2>1, <2>2, RetiredStays
<1>10. IssuedInv'
  <2>1. \A j \in Children : child[j].auth \in Nat
    BY <1>0, ChildType
  <2>2. \A i \in DOMAIN queue' : queue'[i].value \in Nat
    <3>1. \A i \in DOMAIN queue' : queue'[i] \in Op
      BY <1>3
    <3> QED
      BY <3>1 DEF Op
  <2>3. vault \in Nat /\ issued \in Nat
    BY <1>0 DEF TypeInv
  <2>4. \A j \in Children' : child'[j].auth <= issued'
    BY <1>0, <1>1, <2>1, <2>3 DEF IssuedInv, Becomes
  <2>5. \A i \in DOMAIN queue' : queue'[i].value <= issued'
    BY <1>0, <1>3, <2>2, <2>3 DEF IssuedInv, QueueGrows
  <2> QED
    BY <1>0, <2>3, <2>4, <2>5 DEF IssuedInv
<1> QED
  BY <1>3, <1>4, <1>5, <1>6, <1>7, <1>8, <1>9, <1>10 DEF ServerInv

\* A launch reads the vault.
LEMMA ReadsStep ==
  ASSUME ServerInv, NEW k \in Children, LaunchReads(k)
  PROVE  ServerInv'
<1> DEFINE r == [child[k] EXCEPT !.state = "starting", !.start = vault, !.auth = vault]
<1>0. /\ TypeInv /\ RetireInv /\ ChildInv /\ vault \in Nat /\ issued \in Nat /\ vault <= issued
      /\ child[k] \in Child /\ child[k].state = "reading"
  BY ChildType DEF ServerInv, TypeInv, IssuedInv, LaunchReads
<1>1. /\ r \in Child /\ r.state = "starting" /\ r.start = vault /\ r.auth = vault
      /\ r.epoch = child[k].epoch /\ r.why = child[k].why /\ r.fate = child[k].fate
  BY <1>0 DEF Child
<1>2. child' = [child EXCEPT ![k] = r]
  BY DEF LaunchReads
<1>3. reset.at = "idle" => child[k].why # "retired"
  BY <1>0 DEF RetireInv, RetiredOK
<1>4. recovering # k
  BY <1>0 DEF ChildInv, TypeInv, Children
<1>5. /\ UNCHANGED <<active, recovering, closed, epoch, vault, writer, call, reset, closing>>
      /\ issued' = issued /\ Asks
  BY DEF LaunchReads, Asks
<1> HIDE DEF r
<1>6. ChildMoves(k, r)
  BY <1>0, <1>1, <1>2, <1>3, <1>4, <1>5 DEF ChildMoves
<1> QED
  BY <1>1, <1>6, ChildStep

\* It ends, one way or the other.
LEMMA LaunchEndsStep ==
  ASSUME ServerInv, NEW k \in Children, LaunchEnds(k) \/ LaunchFails(k) \/ Dies(k)
  PROVE  ServerInv'
<1> DEFINE to == IF LaunchEnds(k) THEN "ready" ELSE IF LaunchFails(k) THEN "failed" ELSE "dead"
           r == [child[k] EXCEPT !.state = to]
<1>0. /\ TypeInv /\ RetireInv /\ ChildInv /\ child[k] \in Child
      /\ child[k].state \in {"reading", "starting", "ready"}
  BY ChildType DEF ServerInv, LaunchEnds, LaunchFails, Dies, IsPending
<1>1. /\ r \in Child /\ r.state = to /\ r.start = child[k].start /\ r.auth = child[k].auth
      /\ r.epoch = child[k].epoch /\ r.why = child[k].why /\ r.fate = child[k].fate
  BY <1>0 DEF Child
<1>2. child' = [child EXCEPT ![k] = r] /\ to \in {"ready", "failed", "dead"}
  BY DEF LaunchEnds, LaunchFails, Dies
<1>3. reset.at = "idle" => child[k].why # "retired" /\ child[k].start <= child[k].auth
  BY <1>0 DEF RetireInv, RetiredOK
<1>4. recovering # k
  BY <1>0 DEF ChildInv, TypeInv, Children
<1>5. \/ child[k].state \in {"reading", "starting"} /\ to \in {"ready", "failed"}
      \/ child[k].state = "ready" /\ to = "dead"
  BY DEF LaunchEnds, LaunchFails, Dies, IsPending
<1>6. to \in {"starting", "ready", "dead"} => child[k].state \in {"starting", "ready"}
  BY DEF LaunchEnds, LaunchFails, Dies, IsPending
<1>7. UNCHANGED <<active, recovering, closed, epoch, queue, vault, writer, issued, call, reset, closing>>
  BY DEF LaunchEnds, LaunchFails, Dies
<1>8. issued \in Nat /\ child[k].auth <= issued
  BY <1>0 DEF TypeInv, ServerInv, IssuedInv
<1> HIDE DEF r, to
<1>9. ChildMoves(k, r)
  BY <1>0, <1>1, <1>2, <1>3, <1>4, <1>5, <1>6, <1>7, <1>8 DEF Asks, ChildMoves
<1> QED
  BY <1>1, <1>9, ChildStep

\* A new credential, announced or not.
LEMMA CredentialStep ==
  ASSUME ServerInv, NEW k \in Children, CredentialArrives(k)
  PROVE  ServerInv'
<1> DEFINE r == [child[k] EXCEPT !.auth = issued + 1]
           op == PersistOp(k, <<"notice">>)
<1>0. /\ TypeInv /\ RetireInv /\ ChildInv /\ child[k] \in Child /\ child[k].state = "ready"
      /\ issued \in Nat /\ child[k].start \in Nat /\ child[k].auth \in Nat /\ child[k].auth <= issued
  BY ChildType DEF ServerInv, TypeInv, IssuedInv, CredentialArrives
<1>1. /\ r \in Child /\ r.state = "ready" /\ r.start = child[k].start /\ r.auth = issued + 1
      /\ r.epoch = child[k].epoch /\ r.why = child[k].why /\ r.fate = child[k].fate
  <2>1. PICK n \in Nat : n = issued + 1
    BY <1>0
  <2> QED
    BY <1>0, <2>1 DEF Child
<1>2. child' = [child EXCEPT ![k] = r]
  BY DEF CredentialArrives
<1>3. Persisting(op)
  <2>1. child[k].epoch \in Nat /\ k \in Nat
    BY <1>0, ChildType
  <2>2. <<"notice">> \in Callers /\ <<"notice">> # <<"reset">>
    BY CallerTags DEF Callers
  <2> QED
    BY <1>0, <2>1, <2>2 DEF Persisting, PersistOp, Op, HasStarted
<1>4. recovering # k
  BY <1>0 DEF ChildInv, TypeInv, Children
<1>5. Asks
  BY <1>3 DEF CredentialArrives, Asks
<1>6. reset.at = "idle" => child[k].why # "retired" /\ child[k].start <= child[k].auth
  BY <1>0 DEF RetireInv, RetiredOK
<1>7. UNCHANGED <<active, recovering, closed, epoch, vault, writer, call, reset, closing>>
  BY DEF CredentialArrives
<1>8. issued' \in Nat /\ issued <= issued' /\ issued' = issued + 1
  BY <1>0 DEF CredentialArrives
<1>9. reset.at = "idle" => r.start <= r.auth
  <2> SUFFICES ASSUME reset.at = "idle" PROVE child[k].start <= issued + 1
    BY <1>1
  <2> QED
    BY <1>0, <1>6
<1> HIDE DEF r, op
<1>10. ChildMoves(k, r)
  BY <1>0, <1>1, <1>2, <1>4, <1>5, <1>6, <1>7, <1>8, <1>9 DEF ChildMoves
<1> QED
  BY <1>1, <1>10, ChildStep

\* The promise closeActive waited for is settled.
LEMMA SettlesStep ==
  ASSUME ServerInv, NEW k \in Children, CloseSettles(k)
  PROVE  ServerInv'
<1> DEFINE saves == child[k].state # "failed" /\ child[k].fate = "await, persist"
           r == [child[k] EXCEPT !.fate = IF saves THEN "persist" ELSE "kill"]
           op == PersistOp(k, <<"child", k>>)
<1>0. /\ TypeInv /\ RetireInv /\ ChildInv /\ child[k] \in Child
      /\ child[k].fate \in {"await, persist", "await, kill"} /\ ~IsPending(k)
  BY ChildType DEF ServerInv, CloseSettles
<1>a. issued \in Nat /\ child[k].auth \in Nat /\ child[k].auth <= issued
  BY <1>0, ChildType DEF ServerInv, TypeInv, IssuedInv
<1>1. /\ r \in Child /\ r.state = child[k].state /\ r.start = child[k].start /\ r.auth = child[k].auth
      /\ r.epoch = child[k].epoch /\ r.why = child[k].why /\ r.fate \in {"persist", "kill"}
  BY <1>0 DEF Child
<1>2. child' = [child EXCEPT ![k] = r]
  BY DEF CloseSettles
<1>3. saves => Persisting(op)
  <2>1. child[k].epoch \in Nat /\ k \in Nat
    BY <1>0, ChildType
  <2>2. <<"child", k>> \in Callers /\ <<"child", k>> # <<"reset">>
    BY <2>1, CallerTags DEF Callers
  <2>3. saves => HasStarted(k)
    BY <1>0 DEF HasStarted, IsPending, Child
  <2> QED
    BY <1>0, <2>1, <2>2, <2>3 DEF Persisting, PersistOp, Op
<1>4. Asks
  BY <1>3 DEF CloseSettles, Asks
<1>5. reset.at = "idle" => child[k].why # "retired" /\ child[k].start <= child[k].auth
  BY <1>0 DEF RetireInv, RetiredOK
<1>6. recovering = k => child[k].state = "dead"
  BY <1>0, ChildType DEF ChildInv
<1>7. /\ UNCHANGED <<active, recovering, closed, epoch, vault, writer, call, reset, closing>>
      /\ issued' = issued
  BY DEF CloseSettles
<1> HIDE DEF r, op, saves
<1>8. r.fate = "kept" <=> child[k].fate = "kept"
  BY <1>0, <1>1
<1>9. ChildMoves(k, r)
  <2>1. issued' \in Nat /\ issued <= issued' /\ r.auth <= issued'
    BY <1>a, <1>1, <1>7
  <2>2. r.state = "gone" => child[k].fate # "kept"
    BY <1>0
  <2>3. recovering' = recovering /\ (recovering = k => r.state = "dead")
    BY <1>1, <1>6, <1>7
  <2>4. reset.at = "idle" => r.start <= r.auth /\ child[k].why # "retired"
    BY <1>1, <1>5
  <2> QED
    BY <1>1, <1>2, <1>4, <1>7, <1>8, <2>1, <2>2, <2>3, <2>4 DEF ChildMoves
<1> QED
  BY <1>1, <1>9, ChildStep

\* The process is gone, its credential saved or given up; a retirement opens the gate.
LEMMA KillStep ==
  ASSUME ServerInv, NEW k \in Children, Kill(k)
  PROVE  ServerInv'
<1> DEFINE r == [child[k] EXCEPT !.state = "gone"]
<1>0. /\ TypeInv /\ RetireInv /\ ChildInv /\ child[k] \in Child
      /\ child[k].state \in {"reading", "starting", "ready", "dead"}
      /\ child[k].fate \in {"kill", "persist"}
      /\ issued \in Nat /\ child[k].auth <= issued
  BY ChildType DEF ServerInv, TypeInv, IssuedInv, Kill, IsOver, Child
<1>1. /\ r \in Child /\ r.state = "gone" /\ r.start = child[k].start /\ r.auth = child[k].auth
      /\ r.epoch = child[k].epoch /\ r.why = child[k].why /\ r.fate = child[k].fate
  BY <1>0 DEF Child
<1>2. child' = [child EXCEPT ![k] = r]
  BY DEF Kill
<1>3. reset.at = "idle" => child[k].start <= child[k].auth
  BY <1>0 DEF RetireInv
<1>4. reset.at = "idle" /\ child[k].why = "retired" => ~IsSaving(k)
  BY <1>0 DEF RetireInv, RetiredOK, Kill, IsSaving, IsQueued
<1>5. /\ UNCHANGED <<active, closed, epoch, queue, vault, writer, issued, call, reset, closing>>
      /\ recovering' = IF recovering = k THEN 0 ELSE recovering
  BY DEF Kill
<1> HIDE DEF r
<1>6. ChildMoves(k, r)
  BY <1>0, <1>1, <1>2, <1>3, <1>4, <1>5 DEF ChildMoves, Asks
<1> QED
  BY <1>1, <1>6, ChildStep

-----------------------------------------------------------------------------
(***************************************************************************)
(* closeActive, by a retirement, an unresponsive turn or close().          *)
(***************************************************************************)
\* What is true of the cached child once it is being closed.
LEMMA CloseActiveStep ==
  ASSUME ServerInv,
         NEW why \in {"retired", "contested", "unresponsive", "closed"},
         CloseActive(TRUE, why),
         UNCHANGED <<closed, epoch, vault, writer, issued, reset>>,
         \/ recovering' = recovering
         \/ active # 0 /\ recovering' = active /\ child[active].state = "dead",
         why = "retired" =>
           /\ active # 0 /\ recovering' = active /\ child[active].state = "dead"
           /\ \A i \in 1..(active - 1) : IsOver(i),
         \A k \in Children : k = active => IsAwaited(k)',
         \A k \in Children : ~IsOver(k) /\ IsAwaited(k) => IsAwaited(k)',
         call' \in [Calls -> Call],
         closing' \in [at : {"idle", "recovery", "closing", "done"}, child : Nat],
         ChildrenKept => CallInv',
         recovering' = 0 \/ closing'.at \notin {"closing", "done"},
         closing'.at # "done",
         closing'.at # "idle" =>
           /\ closed /\ reset.at \in {"idle", "done"}
           /\ \A c \in Turns : call'[c].at \in {"idle", "acquire", "done"}
  PROVE  ServerInv'
<1> DEFINE fate == Fate(active, TRUE)
           r == [child[active] EXCEPT !.fate = fate, !.why = why]
           op == PersistOp(active, <<"child", active>>)
<1>0. /\ TypeInv /\ ChildInv /\ CallInv /\ CloseInv /\ QueueInv /\ EpochInv /\ RetireInv /\ IssuedInv
      /\ Len(child) \in Nat /\ Children = 1..Len(child) /\ active' = 0
  BY ChildrenType DEF ServerInv, CloseActive
<1>1. ASSUME active # 0
      PROVE  /\ active \in Children /\ child[active] \in Child /\ active \in Nat
             /\ r \in Child /\ r.fate = fate /\ fate # "kept" /\ r.why = why
             /\ r.state = child[active].state /\ r.epoch = child[active].epoch
             /\ r.start = child[active].start /\ r.auth = child[active].auth
             /\ child' = [child EXCEPT ![active] = r]
             /\ fate = "persist" => HasStarted(active)
             /\ child[active].epoch <= epoch
  <2>1. active \in Children
    BY <1>0, <1>1 DEF TypeInv
  <2>2. child[active] \in Child /\ active \in Nat
    BY <1>0, <2>1, ChildType
  <2>3. /\ fate \in {"await, persist", "await, kill", "persist", "kill"}
        /\ fate = "persist" => HasStarted(active)
    BY <2>2 DEF Fate, HasStarted, IsPending, Child
  <2>4. child' = [child EXCEPT ![active] = r]
    BY <1>1 DEF CloseActive
  <2> HIDE DEF fate
  <2> QED
    BY <1>0, <2>1, <2>2, <2>3, <2>4 DEF Child, ChildInv
<1>2. ASSUME active # 0
      PROVE  Becomes(active, r) /\ ChildrenKept
  <2> HIDE DEF r, fate
  <2>1. Becomes(active, r)
    BY <1>0, <1>1, <1>2, OneBecomes
  <2> QED
    BY <1>0, <1>1, <1>2, <2>1, BecomesKeeps
<1>3. active = 0 => UNCHANGED <<child, queue>>
  BY DEF CloseActive
<1>4. ChildrenKept
  BY <1>2, <1>3, UnchangedKeeps
<1>5. ASSUME active # 0
      PROVE  IF fate = "persist" THEN queue' = Append(queue, op) /\ Persisting(op) ELSE UNCHANGED queue
  <2>1. queue' = IF fate = "persist" THEN Append(queue, op) ELSE queue
    BY <1>5 DEF CloseActive
  <2>2. fate = "persist" => Persisting(op)
    <3>1. child[active].epoch \in Nat /\ <<"child", active>> \in Callers /\ <<"child", active>> # <<"reset">>
      BY <1>0, <1>1, <1>5, ChildType, CallerTags DEF Callers
    <3> HIDE DEF fate
    <3> QED
      BY <1>1, <1>5, <3>1 DEF Persisting, PersistOp, Op
  <2> HIDE DEF fate, op
  <2> QED
    BY <2>1, <2>2
<1>6. Asks
  BY <1>3, <1>5 DEF Asks
<1> HIDE DEF r, fate
<1>7. queue' \in Seq(Op) /\ QueueInv' /\ (IsClearing' <=> IsClearing) /\ QueueGrows
  BY <1>0, <1>4, <1>6, AskingStep
<1>8. child' \in Seq(Child) /\ Len(child') = Len(child) /\ Children' = Children
  BY <1>0, <1>2, <1>3 DEF Becomes, TypeInv, Children
<1>9. TypeInv'
  BY <1>0, <1>1, <1>7, <1>8 DEF TypeInv
<1>10. ChildInv'
  <2>1. ASSUME NEW k \in Children'
        PROVE  /\ ~IsOver(k)' /\ child'[k].fate = "kept" => active' = k
               /\ ~IsOver(k)' /\ child'[k].fate # "kept" => IsAwaited(k)'
               /\ child'[k].epoch <= epoch'
    <3>1. CASE k = active /\ active # 0
      <4>1. child'[k].fate # "kept" /\ child'[k].epoch = child[k].epoch
        BY <1>1, <1>2, <3>1 DEF Becomes
      <4>2. child[k].epoch <= epoch'
        BY <1>0, <1>1, <3>1
      <4>3. IsAwaited(k)'
        BY <1>1, <3>1
      <4> QED
        BY <4>1, <4>2, <4>3
    <3>2. CASE k # active
      <4>1. k \in Children /\ child'[k] = child[k]
        BY <1>2, <1>3, <1>8, <2>1, <3>2 DEF Becomes
      <4> QED
        BY <1>0, <3>2, <4>1 DEF ChildInv, IsOver
    <3> QED
      BY <1>0, <1>8, <2>1, <3>1, <3>2
  <2>2. recovering' # 0 => recovering' = Len(child') /\ child'[recovering'].state = "dead"
    <3>1. CASE active # 0 /\ recovering' = active
      BY <1>0, <1>1, <1>2, <1>8, <3>1 DEF ChildInv, Becomes
    <3>2. CASE recovering' = recovering /\ recovering # 0
      BY <1>0, <1>3, <3>2 DEF ChildInv
    <3> QED
      BY <3>1, <3>2
  <2>3. \A k \in Children' : k # active'
    BY <1>0, <1>8
  <2> QED
    BY <1>0, <2>1, <2>2, <2>3 DEF ChildInv
<1>11. CallInv'
  BY <1>4
<1>12. CloseInv'
  BY <1>0 DEF CloseInv
<1>13. EpochInv'
  BY <1>0, <1>7, EpochStays
<1>14. RetireInv'
  <2>1. ASSUME NEW k \in Children, k # active, reset.at = "idle"
        PROVE  Spares(k)
    <3>1. child'[k] = child[k]
      BY <1>2, <1>3, <2>1 DEF Becomes
    <3>2. recovering = k => recovering' = k
      BY <1>0, <2>1 DEF ChildInv
    <3> QED
      BY <1>0, <2>1, <3>1, <3>2 DEF Spares, RetireInv
  <2>2. ASSUME active # 0, reset.at = "idle", why # "retired"
        PROVE  Spares(active)
    BY <1>0, <1>1, <1>2, <2>2 DEF Spares, Becomes, RetireInv
  <2>3. ASSUME NEW k \in Children, k = active, reset.at = "idle", why = "retired"
        PROVE  Retires(k)
    <3>1. /\ active # 0 /\ child'[k] = r /\ r.state = "dead" /\ recovering' = k /\ k = Len(child)
          /\ child[k].start <= child[k].auth
      BY <1>0, <1>1, <1>2, <2>3 DEF Becomes, ChildInv, RetireInv
    <3>2. fate = "persist"
      BY <2>3 DEF fate, Fate, IsPending
    <3>3. \A i \in 1..(k - 1) : IsOver(i)'
      BY <1>0, <1>4, <2>3, <3>1 DEF ChildrenKept
    <3>4. IsSaving(k)'
      <4>1. Len(queue') = Len(queue) + 1 /\ queue'[Len(queue')] = op
        BY <1>0, <1>4, <1>5, <3>1, <3>2, QueueAppend
      <4>2. PICK i \in DOMAIN queue' : i = Len(queue')
        BY <1>0, <1>7, <4>1 DEF TypeInv
      <4>3. op.kind = "persist" /\ op.child = active /\ op.by = <<"child", active>> /\ op.value = 0
        BY DEF PersistOp
      <4> HIDE DEF op
      <4> QED
        BY <2>3, <4>1, <4>2, <4>3 DEF IsSaving
    <3>5. \A m \in Children' : ~(k < m)
      BY <1>0, <1>8, <3>1
    <3>6. RetiredOK(k)'
      BY <1>1, <2>3, <3>1, <3>2, <3>3, <3>4, <3>5 DEF RetiredOK
    <3> QED
      BY <1>1, <2>3, <3>1, <3>6 DEF Retires
  <2>4. reset'.at = "idle" => /\ reset.at = "idle"
                              /\ \A k \in Children : Spares(k) \/ Retires(k)
                              /\ \A k \in Children' \ Children : IsNew(k)
    BY <1>0, <1>8, <2>1, <2>2, <2>3
  <2> QED
    BY <1>0, <1>4, <1>7, <2>4, RetiredStays
<1>15. IssuedInv'
  <2>1. \A k \in Children' : child'[k].auth = child[k].auth /\ k \in Children
    BY <1>1, <1>2, <1>3, <1>8 DEF Becomes
  <2>2. issued \in Nat
    BY <1>0 DEF TypeInv
  <2> QED
    BY <1>0, <1>7, <2>1, <2>2 DEF IssuedInv, QueueGrows
<1> QED
  BY <1>7, <1>9, <1>10, <1>11, <1>12, <1>13, <1>14, <1>15 DEF ServerInv

\* A caller finds the cached process dead and retires it, behind the gate.
LEMMA RetireStep ==
  ASSUME ServerInv, NEW c \in Calls, call[c].at \in {"await", "launch"}, Resolved(c),
         ~(call[c].at = "launch" \/ (active = call[c].child /\ IsAlive(call[c].child))),
         active = call[c].child
  PROVE  ServerInv'
<1> DEFINE k == call[c].child
           r == [call[c] EXCEPT !.at = "acquire"]
<1>0. /\ TypeInv /\ ChildInv /\ CallInv /\ CloseInv /\ call[c] \in Call /\ k \in Children /\ k # 0
      /\ child[k] \in Child
  BY ChildType DEF ServerInv, TypeInv, CallInv
<1>1. /\ CloseActive(TRUE, Retirement(k)) /\ recovering' = k /\ call' = [call EXCEPT ![c] = r]
      /\ UNCHANGED <<closed, epoch, vault, writer, issued, reset, closing>>
  BY DEF Resolved, Move
<1>2. child[k].state = "dead"
  BY <1>0 DEF Resolved, IsPending, IsAlive, Child, ChildInv
<1>3. r \in Call /\ r.at = "acquire"
  BY <1>0 DEF Call
<1> HIDE DEF r
<1>4. /\ call' \in [Calls -> Call] /\ call'[c] = r
      /\ \A d \in Calls : d # c => call'[d] = call[d]
  BY <1>0, <1>1, <1>3, CallBecomes
<1>5. \A m \in Children : m = active => IsAwaited(m)'
  BY <1>1 DEF IsAwaited
<1>6. ASSUME NEW m \in Children, ~IsOver(m), IsAwaited(m)
      PROVE  IsAwaited(m)'
  <2>1. recovering # m
    BY <1>0, ChildType DEF ChildInv
  <2>2. CASE \E d \in Turns : call[d].at = "closing" /\ call[d].child = m
    <3>1. PICK d \in Turns : call[d].at = "closing" /\ call[d].child = m
      BY <2>2
    <3>2. d # c /\ d \in Calls
      BY <3>1 DEF Calls
    <3> QED
      BY <1>4, <3>1, <3>2 DEF IsAwaited
  <2> QED
    BY <1>1, <1>6, <2>1, <2>2 DEF IsAwaited
<1>7. ChildrenKept => CallInv'
  BY <1>0, <1>3, <1>4 DEF CallInv, ChildrenKept
<1>8. closing.at \in {"idle", "recovery"}
  BY <1>0 DEF CloseInv, TypeInv
<1>9. closing'.at # "idle" =>
        /\ closed /\ reset.at \in {"idle", "done"}
        /\ \A d \in Turns : call'[d].at \in {"idle", "acquire", "done"}
  BY <1>0, <1>1, <1>3, <1>4 DEF CloseInv, Calls
<1>10. PICK why \in {"retired", "contested"} :
         /\ CloseActive(TRUE, why)
         /\ why = "retired" => \A i \in 1..(active - 1) : IsOver(i)
  BY <1>1 DEF Retirement
<1>11. closing' \in [at : {"idle", "recovery", "closing", "done"}, child : Nat]
  BY <1>0, <1>1 DEF TypeInv
<1> HIDE DEF k
<1> QED
  BY <1>0, <1>1, <1>2, <1>4, <1>5, <1>6, <1>7, <1>8, <1>9, <1>10, <1>11, CloseActiveStep DEF k

\* A turn has found the cached process unresponsive, and closes it.
LEMMA UnresponsiveStep ==
  ASSUME ServerInv, NEW c \in Calls, Unresponsive(c)
  PROVE  ServerInv'
<1> DEFINE r == [call[c] EXCEPT !.at = "closing"]
<1>0. /\ TypeInv /\ ChildInv /\ CallInv /\ CloseInv /\ call[c] \in Call
      /\ active = call[c].child /\ active \in Children /\ c \in Turns /\ call[c].at = "have"
  BY DEF ServerInv, TypeInv, CallInv, Unresponsive
<1>1. /\ CloseActive(TRUE, "unresponsive") /\ call' = [call EXCEPT ![c] = r]
      /\ UNCHANGED <<recovering, closed, epoch, vault, writer, issued, reset, closing>>
  BY DEF Unresponsive, Move
<1>2. r \in Call /\ r.at = "closing" /\ r.child = active
  BY <1>0 DEF Call
<1> HIDE DEF r
<1>3. /\ call' \in [Calls -> Call] /\ call'[c] = r
      /\ \A d \in Calls : d # c => call'[d] = call[d]
  BY <1>0, <1>1, <1>2, CallBecomes
<1>4. \A m \in Children : m = active => IsAwaited(m)'
  BY <1>0, <1>2, <1>3 DEF IsAwaited
<1>5. ASSUME NEW m \in Children, IsAwaited(m)
      PROVE  IsAwaited(m)'
  BY <1>0, <1>1, <1>2, <1>5, AwaitedStays
<1>6. ChildrenKept => CallInv'
  BY <1>0, <1>2, <1>3 DEF CallInv, ChildrenKept
<1>7. closing.at = "idle"
  BY <1>0 DEF CloseInv
<1>8. closing' \in [at : {"idle", "recovery", "closing", "done"}, child : Nat]
  BY <1>0, <1>1 DEF TypeInv
<1> QED
  BY <1>0, <1>1, <1>3, <1>4, <1>5, <1>6, <1>7, <1>8, CloseActiveStep

\* close() goes on when no process is being retired.
LEMMA CloseProceedsStep ==
  ASSUME ServerInv, CloseProceeds
  PROVE  ServerInv'
<1>0. /\ TypeInv /\ ChildInv /\ CallInv /\ CloseInv /\ closing.at = "recovery" /\ recovering = 0
      /\ active \in Nat
  BY DEF ServerInv, TypeInv, CloseProceeds
<1>1. /\ CloseActive(TRUE, "closed") /\ closing' = [at |-> "closing", child |-> active]
      /\ UNCHANGED <<recovering, closed, epoch, vault, writer, issued, call, reset>>
  BY DEF CloseProceeds
<1>2. closing'.at = "closing" /\ closing'.child = active
  BY <1>1
<1>3. closing' \in [at : {"idle", "recovery", "closing", "done"}, child : Nat]
  BY <1>0, <1>1
<1>4. \A m \in Children : m = active => IsAwaited(m)'
  BY <1>2 DEF IsAwaited
<1>5. \A m \in Children : IsAwaited(m) => IsAwaited(m)'
  BY <1>0, <1>1 DEF IsAwaited
<1>6. ChildrenKept => CallInv'
  BY <1>0, <1>1 DEF CallInv, ChildrenKept
<1>7. call' \in [Calls -> Call]
  BY <1>0, <1>1 DEF TypeInv
<1>8. /\ closed /\ reset.at \in {"idle", "done"}
      /\ \A d \in Turns : call'[d].at \in {"idle", "acquire", "done"}
  BY <1>0, <1>1 DEF CloseInv
<1> QED
  BY <1>0, <1>1, <1>2, <1>3, <1>4, <1>5, <1>6, <1>7, <1>8, CloseActiveStep

-----------------------------------------------------------------------------
(***************************************************************************)
(* The steps of the credential queue.                                      *)
(***************************************************************************)
\* Nothing changes in a child but, perhaps, what is remembered of its end.
Remembered ==
  /\ child' \in Seq(Child) /\ Len(child') = Len(child) /\ Children' = Children
  /\ \A k \in Children :
       /\ child'[k].state = child[k].state /\ child'[k].epoch = child[k].epoch
       /\ child'[k].start = child[k].start /\ child'[k].auth = child[k].auth
       /\ child'[k].fate = child[k].fate

\* The credentials of the retired processes are as safe after the step as before.
KeepsSafe ==
  \A j \in Children :
    child'[j].why = "retired" =>
      /\ child[j].why = "retired"
      /\ IsSaved(j) => IsSaved(j)'
      /\ child[j].state = "dead" /\ IsSaving(j) => IsSaving(j)' \/ IsSaved(j)'

\* The credential of a retired process stays safe while the queue works.
LEMMA RetiredMoves ==
  ASSUME TypeInv, RetireInv, Remembered, recovering' = recovering,
         reset'.at = "idle" => reset.at = "idle" /\ KeepsSafe
  PROVE  RetireInv'
<1> SUFFICES ASSUME reset'.at = "idle", NEW j \in Children'
             PROVE  child'[j].start <= child'[j].auth /\ (child'[j].why = "retired" => RetiredOK(j)')
  BY DEF RetireInv
<1>1. /\ reset.at = "idle" /\ KeepsSafe /\ j \in Children /\ j \in 1..Len(child) /\ Len(child) \in Nat
      /\ Children = 1..Len(child)
  BY ChildrenType DEF Remembered
<1>2. child'[j].start <= child'[j].auth
  BY <1>1 DEF RetireInv, Remembered
<1>3. ASSUME child'[j].why = "retired"
      PROVE  RetiredOK(j)'
  <2>1. RetiredOK(j)
    BY <1>1, <1>3 DEF RetireInv, KeepsSafe
  <2>2. \A i \in 1..(j - 1) : IsOver(i)'
    BY <1>1, <2>1 DEF RetiredOK, Remembered, IsOver
  <2>3. child'[j].fate = "persist" /\ child'[j].state \in {"dead", "gone"}
    BY <1>1, <2>1 DEF RetiredOK, Remembered
  <2>4. child'[j].state = "dead" => recovering' = j /\ (IsSaving(j)' \/ IsSaved(j)')
    BY <1>1, <1>3, <2>1 DEF RetiredOK, Remembered, KeepsSafe
  <2>5. child'[j].state = "gone" => IsSaved(j)'
    BY <1>1, <1>3, <2>1 DEF RetiredOK, Remembered, KeepsSafe
  <2>6. \A k \in Children' :
          j < k /\ child'[k].state \in {"starting", "ready", "dead"} => child'[k].start >= child'[j].auth
    BY <1>1, <2>1 DEF RetiredOK, Remembered
  <2> QED
    BY <2>2, <2>3, <2>4, <2>5, <2>6 DEF RetiredOK
<1> QED
  BY <1>2, <1>3

\* A step of the queue: the queue, the vault and what is remembered change.
QueueMoves ==
  /\ Remembered
  /\ UNCHANGED <<active, recovering, closed, epoch, issued, call, closing>>
  /\ reset' \in [at : {"idle", "logout", "closing", "clearing", "done"}, child : Nat, upTo : Nat,
                 ok : BOOLEAN]
  /\ reset'.at = reset.at /\ reset'.child = reset.child
  /\ vault' \in Nat /\ writer' \in Nat /\ vault' <= issued
  /\ queue' \in Seq(Op) /\ QueueInv' /\ (IsClearing' => IsClearing)
  /\ \A i \in DOMAIN queue' : queue'[i].value <= issued
  /\ reset.at \in {"clearing", "done"} /\ ~IsClearing' =>
       /\ \A i \in DOMAIN queue' : queue'[i].value # 0 => queue'[i].epoch = epoch
       /\ reset'.ok /\ vault' # 0 => writer' = epoch
  /\ reset.at = "idle" => KeepsSafe

\* A step of the persistence queue or of the reset keeps the invariant.
LEMMA QueueStep ==
  ASSUME ServerInv, QueueMoves
  PROVE  ServerInv'
<1>0. /\ TypeInv /\ ChildInv /\ CallInv /\ CloseInv /\ QueueInv /\ EpochInv /\ RetireInv /\ IssuedInv
      /\ Len(child) \in Nat /\ Children = 1..Len(child)
  BY ChildrenType DEF ServerInv
<1> USE DEF QueueMoves
<1>1. TypeInv'
  <2>1. /\ child' \in Seq(Child) /\ queue' \in Seq(Op) /\ Len(child') = Len(child)
        /\ {epoch', vault', writer', issued'} \subseteq Nat
    BY <1>0 DEF TypeInv, Remembered
  <2>2. reset' \in [at : {"idle", "logout", "closing", "clearing", "done"}, child : Nat, upTo : Nat,
                    ok : BOOLEAN]
    OBVIOUS
  <2>3. /\ active' \in 0..Len(child') /\ recovering' \in 0..Len(child')
        /\ closed' \in BOOLEAN /\ call' \in [Calls -> Call]
        /\ closing' \in [at : {"idle", "recovery", "closing", "done"}, child : Nat]
    BY <1>0, <2>1 DEF TypeInv
  <2> QED
    BY <2>1, <2>2, <2>3 DEF TypeInv
<1>2. ChildInv'
  <2>1. \A k \in Children : IsAwaited(k) => IsAwaited(k)'
    BY DEF IsAwaited
  <2>2. /\ active' # 0 => active' = Len(child')
        /\ recovering' # 0 => active' = 0 /\ recovering' = Len(child')
                             /\ child'[recovering'].state = "dead"
    <3>1. recovering # 0 => recovering \in Children
      BY <1>0 DEF TypeInv
    <3> QED
      BY <1>0, <3>1 DEF ChildInv, Remembered
  <2>3. ASSUME NEW k \in Children'
        PROVE  /\ active' = k => child'[k].fate = "kept" /\ child'[k].state # "gone"
               /\ ~IsOver(k)' /\ child'[k].fate = "kept" => active' = k
               /\ ~IsOver(k)' /\ child'[k].fate # "kept" => IsAwaited(k)'
               /\ child'[k].epoch <= epoch'
    <3>1. /\ k \in Children /\ child'[k].state = child[k].state /\ child'[k].fate = child[k].fate
          /\ child'[k].epoch = child[k].epoch /\ active' = active /\ epoch' = epoch
      BY DEF Remembered
    <3>2. IsOver(k)' <=> IsOver(k)
      BY <3>1 DEF IsOver
    <3> QED
      BY <1>0, <2>1, <3>1, <3>2 DEF ChildInv
  <2> QED
    BY <2>2, <2>3 DEF ChildInv
<1>3. CallInv'
  BY <1>0 DEF CallInv, Remembered, HasStarted
<1>4. CloseInv'
  BY <1>0 DEF CloseInv, Remembered, IsOver
<1>5. EpochInv'
  BY <1>0 DEF EpochInv
<1>6. RetireInv'
  BY <1>0, RetiredMoves
<1>7. IssuedInv'
  BY <1>0 DEF IssuedInv, Remembered
<1> QED
  BY <1>1, <1>2, <1>3, <1>4, <1>5, <1>6, <1>7 DEF ServerInv

\* In the epoch of the owner's first credential every process is of that epoch.
LEMMA OneEpoch ==
  ASSUME ServerInv, reset.at = "idle"
  PROVE  /\ \A k \in Children : child[k].epoch = epoch
         /\ \A i \in DOMAIN queue : queue[i].kind = "persist" /\ queue[i].epoch = epoch
<1>1. epoch = 0 /\ \A k \in Children : child[k].epoch \in Nat /\ child[k].epoch <= epoch
  BY ChildType DEF ServerInv, EpochInv, ChildInv
<1>2. \A k \in Children : child[k].epoch = epoch
  BY <1>1
<1>3. \A i \in DOMAIN queue : queue[i].kind = "persist"
  <2>1. \A i \in DOMAIN queue : queue[i] \in Op
    BY ChildrenType DEF ServerInv
  <2> QED
    BY <2>1 DEF ServerInv, EpochInv, IsClearing, Op
<1> QED
  BY <1>2, <1>3 DEF ServerInv, QueueInv

\* When the first operation is over, the credential of a retired process still waits
\* behind it, or is in the vault.
LEMMA TailKeepsSafe ==
  ASSUME ServerInv, queue # <<>>, queue' = Tail(queue), Remembered, ChildrenKept,
         vault' \in Nat,
         vault' = vault \/ (queue[1].value # 0 /\ vault' = queue[1].value),
         \A j \in Children :
           child'[j].why = "retired" =>
             /\ child[j].why = "retired"
             /\ queue[1].kind = "persist" /\ queue[1].child = j /\ child[j].state = "dead"
                /\ queue[1].value \in {0, child[j].auth} => vault' >= child[j].auth
  PROVE  KeepsSafe
<1>0. TypeInv /\ QueueInv
  BY DEF ServerInv
<1>1. /\ \A i \in DOMAIN queue' :
           /\ i + 1 \in DOMAIN queue /\ queue'[i] = queue[i + 1] /\ queue'[i].value = 0
      /\ \A i \in DOMAIN queue : i > 1 => i - 1 \in DOMAIN queue' /\ queue'[i - 1] = queue[i]
      /\ 1 \in DOMAIN queue
  BY <1>0, QueueTail
<1>2. \A i \in DOMAIN queue : i \in Nat /\ i >= 1
  BY <1>0 DEF TypeInv
<1> SUFFICES ASSUME NEW j \in Children, child'[j].why = "retired"
             PROVE  /\ child[j].why = "retired"
                    /\ IsSaved(j) => IsSaved(j)'
                    /\ child[j].state = "dead" /\ IsSaving(j) => IsSaving(j)' \/ IsSaved(j)'
  BY DEF KeepsSafe
<1>3. child'[j].auth = child[j].auth
  BY DEF Remembered
<1>4. vault' >= child[j].auth => IsSaved(j)'
  BY <1>1, <1>3 DEF IsSaved
<1>5. IsSaved(j) => IsSaved(j)'
  BY <1>1, <1>4 DEF IsSaved
<1>6. ASSUME child[j].state = "dead", IsSaving(j)
      PROVE  IsSaving(j)' \/ IsSaved(j)'
  <2>1. PICK i \in DOMAIN queue :
          /\ queue[i].kind = "persist" /\ queue[i].child = j /\ queue[i].by = <<"child", j>>
          /\ queue[i].value \in {0, child[j].auth}
    BY <1>6 DEF IsSaving
  <2>2. CASE i = 1
    BY <1>4, <1>6, <2>1, <2>2
  <2>3. CASE i # 1
    <3>1. i > 1
      BY <1>2, <2>3
    <3>2. PICK m \in DOMAIN queue' : queue'[m] = queue[i]
      BY <1>1, <3>1
    <3> QED
      BY <1>3, <2>1, <3>2 DEF IsSaving
  <2> QED
    BY <2>2, <2>3
<1> QED
  BY <1>5, <1>6

\* A step that leaves the children alone changes nothing in them.
LEMMA UnchangedRemembers ==
  ASSUME TypeInv, UNCHANGED child
  PROVE  Remembered /\ ChildrenKept
  BY UnchangedKeeps DEF TypeInv, Remembered, Children

\* The credential is not persisted: it is of another epoch, or there is none.
LEMMA DroppedStep ==
  ASSUME ServerInv, Prepare, queue' = Tail(queue),
         ~(/\ queue[1].epoch = epoch
           /\ child[queue[1].child].auth # 0 /\ child[queue[1].child].state # "gone")
  PROVE  ServerInv'
<1>0. /\ TypeInv /\ QueueInv /\ EpochInv /\ IssuedInv /\ queue # <<>>
      /\ UNCHANGED <<child, active, recovering, closed, epoch, vault, writer, issued,
                     call, reset, closing>>
  BY DEF ServerInv, Prepare
<1>1. Remembered /\ ChildrenKept
  BY <1>0, UnchangedRemembers
<1>2. /\ queue' \in Seq(Op) /\ QueueInv'
      /\ \A i \in DOMAIN queue' : queue'[i].value = 0
      /\ Head(queue) = queue[1] /\ 1 \in DOMAIN queue
      /\ IF queue[1].kind = "clear" THEN ~IsClearing' ELSE IsClearing' <=> IsClearing
  BY <1>0, <1>1, QueueTail
<1>3. queue[1].kind = "persist"
  BY <1>2 DEF Prepare
<1>4. IsClearing' <=> IsClearing
  BY <1>2, <1>3
<1>5. vault \in Nat /\ writer \in Nat /\ issued \in Nat
  BY <1>0 DEF TypeInv
<1>6. reset.at = "idle" => KeepsSafe
  <2> SUFFICES ASSUME reset.at = "idle", NEW j \in Children, queue[1].child = j, child[j].state = "dead"
               PROVE  vault' >= child[j].auth
    BY <1>0, <1>1, <1>5, TailKeepsSafe
  <2>1. queue[1].epoch = epoch
    BY <1>2, OneEpoch
  <2>2. child[j].auth = 0
    BY <2>1
  <2> QED
    BY <1>0, <1>5, <2>2
<1>7. \A i \in DOMAIN queue' : queue'[i].value <= issued
  BY <1>2, <1>5
<1>8. reset.at \in {"clearing", "done"} /\ ~IsClearing' => (reset'.ok /\ vault' # 0 => writer' = epoch)
  BY <1>0, <1>4 DEF EpochInv
<1>9. /\ reset' \in [at : {"idle", "logout", "closing", "clearing", "done"}, child : Nat, upTo : Nat,
                      ok : BOOLEAN]
      /\ vault' \in Nat /\ writer' \in Nat /\ vault' <= issued
  BY <1>0, <1>5 DEF TypeInv, IssuedInv
<1>10. QueueMoves
  BY <1>0, <1>1, <1>2, <1>4, <1>6, <1>7, <1>8, <1>9 DEF QueueMoves
<1> QED
  BY <1>10, QueueStep

\* The credential the child's file holds is on its way to the vault.  A process that
\* was not killed is the retired one itself, or one launched after it.
LEMMA PreparedStep ==
  ASSUME ServerInv, Prepare, queue' = [queue EXCEPT ![1].value = child[queue[1].child].auth],
         queue[1].epoch = epoch,
         child[queue[1].child].auth # 0, child[queue[1].child].state # "gone"
  PROVE  ServerInv'
<1> DEFINE l == queue[1].child
           r == [queue[1] EXCEPT !.value = child[l].auth]
<1>0. /\ TypeInv /\ QueueInv /\ EpochInv /\ IssuedInv /\ RetireInv /\ queue # <<>> /\ queue \in Seq(Op)
      /\ UNCHANGED <<child, active, recovering, closed, epoch, vault, writer, issued,
                     call, reset, closing>>
  BY DEF ServerInv, TypeInv, Prepare
<1>1. Remembered /\ ChildrenKept
  BY <1>0, UnchangedRemembers
<1>2. 1 \in DOMAIN queue /\ Head(queue) = queue[1] /\ queue[1] \in Op
  BY <1>0
<1>3. queue[1].kind = "persist" /\ l \in Children /\ HasStarted(l)
  BY <1>0, <1>2 DEF Prepare, QueueInv
<1>4. child[l].auth \in Nat /\ child[l].start \in Nat
  BY <1>0, <1>3, ChildType
<1>5. r \in Op /\ r.value = child[l].auth /\ r.kind = "persist" /\ r.child = l
      /\ r.epoch = queue[1].epoch /\ r.by = queue[1].by
  BY <1>2, <1>3, <1>4 DEF Op
<1>6. queue' = [queue EXCEPT ![1] = r]
  OBVIOUS
<1> HIDE DEF r
<1>7. /\ queue' \in Seq(Op) /\ DOMAIN queue' = DOMAIN queue /\ queue'[1] = r
      /\ \A i \in DOMAIN queue : i # 1 => queue'[i] = queue[i]
  BY <1>0, <1>2, <1>5, <1>6
<1>8. \A i \in DOMAIN queue : i \in Nat /\ (i # 1 => i > 1 /\ queue[i].value = 0)
  BY <1>0 DEF QueueInv
<1>9. IsClearing' <=> IsClearing
  BY <1>2, <1>3, <1>5, <1>7 DEF IsClearing
<1>10. QueueInv'
  <2>1. ASSUME NEW i \in DOMAIN queue'
        PROVE  /\ i > 1 => queue'[i].value = 0
               /\ queue'[i].kind = "clear" <=> queue'[i].by = <<"reset">>
               /\ queue'[i].kind = "clear" => queue'[i].value = 0
               /\ queue'[i].kind = "persist" =>
                    /\ queue'[i].child \in Children' /\ HasStarted(queue[i].child)'
                    /\ queue'[i].epoch = child'[queue'[i].child].epoch
    <3>1. CASE i = 1
      <4>1. /\ queue'[i] = r /\ r.kind = queue[1].kind /\ r.by # <<"reset">>
            /\ r.epoch = child[l].epoch /\ r.child = l
        BY <1>2, <1>3, <1>5, <1>7, <1>0, <3>1 DEF QueueInv
      <4>2. l \in Children' /\ HasStarted(l)' /\ child'[l].epoch = child[l].epoch
        BY <1>1, <1>3 DEF ChildrenKept
      <4> QED
        BY <1>5, <3>1, <4>1, <4>2 DEF HasStarted
    <3>2. CASE i # 1
      BY <1>0, <1>1, <1>7, <1>8, <2>1, <3>2 DEF QueueInv, ChildrenKept
    <3> QED
      BY <3>1, <3>2
  <2>2. ASSUME NEW i \in DOMAIN queue', NEW j \in DOMAIN queue',
               queue'[i].kind = "clear", queue'[j].kind = "clear"
        PROVE  i = j
    BY <1>0, <1>5, <1>7, <2>2 DEF QueueInv
  <2> QED
    BY <2>1, <2>2 DEF QueueInv
<1>11. ASSUME reset.at = "idle", NEW j \in Children, child'[j].why = "retired"
       PROVE  /\ child[j].why = "retired"
              /\ IsSaved(j) => IsSaved(j)'
              /\ child[j].state = "dead" /\ IsSaving(j) => IsSaving(j)' \/ IsSaved(j)'
  <2>1. /\ child[j].why = "retired" /\ RetiredOK(j) /\ child[j].auth \in Nat
        /\ child'[j].auth = child[j].auth
    BY <1>0, <1>11, ChildType DEF RetireInv
  <2>2. child[l].auth >= child[j].auth
    <3>1. j \in Nat /\ l \in Nat /\ j >= 1 /\ l >= 1
      BY <1>0, <1>3, ChildrenType
    <3>2. CASE l < j
      <4>1. IsOver(l)
        BY <2>1, <3>1, <3>2 DEF RetiredOK
      <4> QED
        BY <1>3, <4>1 DEF IsOver, HasStarted
    <3>3. CASE j < l
      <4>1. child[l].state \in {"ready", "dead"}
        BY <1>3 DEF HasStarted
      <4>2. child[l].start >= child[j].auth
        BY <1>3, <2>1, <3>3, <4>1 DEF RetiredOK
      <4>3. child[l].start <= child[l].auth
        BY <1>0, <1>3, <1>11 DEF RetireInv
      <4> QED
        BY <1>4, <2>1, <4>2, <4>3
    <3>4. CASE j = l
      BY <1>4, <3>4
    <3> QED
      BY <3>1, <3>2, <3>3, <3>4
  <2>3. IsSaved(j) => IsSaved(j)'
    BY <1>0, <1>5, <1>7, <1>8, <2>1, <2>2 DEF IsSaved
  <2>4. ASSUME IsSaving(j)
        PROVE  IsSaving(j)'
    <3>1. PICK i \in DOMAIN queue :
            /\ queue[i].kind = "persist" /\ queue[i].child = j /\ queue[i].by = <<"child", j>>
            /\ queue[i].value \in {0, child[j].auth}
      BY <2>4 DEF IsSaving
    <3>2. /\ i \in DOMAIN queue'
          /\ queue'[i].kind = "persist" /\ queue'[i].child = j /\ queue'[i].by = <<"child", j>>
          /\ queue'[i].value \in {0, child'[j].auth}
      BY <1>5, <1>7, <2>1, <3>1
    <3> QED
      BY <3>2 DEF IsSaving
  <2> QED
    BY <2>1, <2>3, <2>4
<1>12. reset.at = "idle" => KeepsSafe
  BY <1>11 DEF KeepsSafe
<1>13. vault \in Nat /\ writer \in Nat /\ issued \in Nat /\ child[l].auth <= issued
  BY <1>0, <1>3 DEF TypeInv, IssuedInv
<1>14. \A i \in DOMAIN queue' : queue'[i].value <= issued
  BY <1>5, <1>7, <1>8, <1>13
<1>15. reset.at \in {"clearing", "done"} /\ ~IsClearing' =>
         /\ \A i \in DOMAIN queue' : queue'[i].value # 0 => queue'[i].epoch = epoch
         /\ reset'.ok /\ vault' # 0 => writer' = epoch
  BY <1>0, <1>5, <1>7, <1>8, <1>9 DEF EpochInv
<1>16. /\ reset' \in [at : {"idle", "logout", "closing", "clearing", "done"}, child : Nat, upTo : Nat,
                       ok : BOOLEAN]
       /\ vault' \in Nat /\ writer' \in Nat /\ vault' <= issued
  BY <1>0, <1>13 DEF TypeInv, IssuedInv
<1>17. QueueMoves
  BY <1>0, <1>1, <1>7, <1>9, <1>10, <1>12, <1>14, <1>15, <1>16 DEF QueueMoves
<1> QED
  BY <1>17, QueueStep

\* The operation reaches the vault.
LEMMA VaultStep ==
  ASSUME ServerInv, VaultChanges
  PROVE  ServerInv'
<1>0. /\ TypeInv /\ QueueInv /\ EpochInv /\ IssuedInv /\ RetireInv /\ queue # <<>> /\ queue \in Seq(Op)
      /\ UNCHANGED <<child, active, recovering, closed, epoch, issued, call, reset, closing>>
  BY DEF ServerInv, TypeInv, VaultChanges
<1>1. Remembered /\ ChildrenKept
  BY <1>0, UnchangedRemembers
<1>2. queue' = Tail(queue)
  BY DEF VaultChanges
<1>3. /\ queue' \in Seq(Op) /\ QueueInv'
      /\ \A i \in DOMAIN queue' : queue'[i].value = 0
      /\ Head(queue) = queue[1] /\ 1 \in DOMAIN queue
      /\ IF queue[1].kind = "clear" THEN ~IsClearing' ELSE IsClearing' <=> IsClearing
  BY <1>0, <1>1, <1>2, QueueTail
<1>4. /\ vault' = queue[1].value /\ writer' = queue[1].epoch
      /\ queue[1].kind = "clear" \/ queue[1].value # 0
  BY <1>3 DEF VaultChanges
<1>5. queue[1] \in Op /\ queue[1].value \in Nat /\ queue[1].epoch \in Nat
      /\ issued \in Nat /\ queue[1].value <= issued
  <2>1. queue[1] \in Op
    BY <1>0, <1>3
  <2> QED
    BY <1>0, <1>3, <2>1 DEF Op, TypeInv, IssuedInv
<1>6. reset.at = "idle" => KeepsSafe
  <2>1. ASSUME reset.at = "idle"
        PROVE  queue[1].value # 0
    BY <1>3, <1>4, <2>1, OneEpoch
  <2>2. ASSUME reset.at = "idle", NEW j \in Children,
               queue[1].child = j, child[j].state = "dead", queue[1].value \in {0, child[j].auth}
        PROVE  vault' >= child[j].auth
    BY <1>4, <1>5, <2>1, <2>2
  <2> QED
    BY <1>0, <1>1, <1>2, <1>4, <1>5, <2>1, <2>2, TailKeepsSafe
<1>7. reset.at \in {"clearing", "done"} /\ ~IsClearing' => (vault' # 0 => writer' = epoch)
  <2>1. CASE queue[1].kind = "clear"
    BY <1>0, <1>3, <1>4, <2>1 DEF QueueInv
  <2>2. CASE queue[1].kind # "clear"
    BY <1>0, <1>3, <1>4, <2>2 DEF EpochInv
  <2> QED
    BY <2>1, <2>2
<1>8. /\ reset' \in [at : {"idle", "logout", "closing", "clearing", "done"}, child : Nat, upTo : Nat,
                      ok : BOOLEAN]
      /\ vault' \in Nat /\ writer' \in Nat /\ vault' <= issued
      /\ \A i \in DOMAIN queue' : queue'[i].value <= issued
      /\ IsClearing' => IsClearing
  BY <1>0, <1>3, <1>4, <1>5 DEF TypeInv
<1>9. QueueMoves
  BY <1>0, <1>1, <1>3, <1>6, <1>7, <1>8 DEF QueueMoves
<1> QED
  BY <1>9, QueueStep

\* The operation fails: the credential of a retired process is given up, and a reset
\* does not report success.
LEMMA VaultFailsStep ==
  ASSUME ServerInv, VaultFails
  PROVE  ServerInv'
<1>0. /\ TypeInv /\ QueueInv /\ EpochInv /\ IssuedInv /\ RetireInv /\ queue # <<>> /\ queue \in Seq(Op)
      /\ UNCHANGED <<active, recovering, closed, epoch, vault, writer, issued, call, closing>>
      /\ queue' = Tail(queue) /\ vault \in Nat /\ writer \in Nat /\ issued \in Nat
  BY DEF ServerInv, TypeInv, VaultFails
<1>1. Head(queue) = queue[1] /\ 1 \in DOMAIN queue
  BY <1>0
<1>2. CASE queue[1].kind = "persist" /\ child[queue[1].child].why = "retired"
  <2> DEFINE l == queue[1].child
             r == [child[l] EXCEPT !.why = "lost"]
  <2>1. l \in Children /\ child[l] \in Child
    BY <1>0, <1>1, <1>2, ChildType DEF QueueInv
  <2>2. child' = [child EXCEPT ![l] = r]
    BY <1>1, <1>2 DEF VaultFails
  <2>3. /\ r \in Child /\ r.why = "lost" /\ r.state = child[l].state /\ r.epoch = child[l].epoch
        /\ r.start = child[l].start /\ r.auth = child[l].auth /\ r.fate = child[l].fate
    BY <2>1 DEF Child
  <2> HIDE DEF r, l
  <2>4. Becomes(l, r)
    BY <1>0, <2>1, <2>2, <2>3, OneBecomes
  <2>5. Remembered /\ ChildrenKept
    BY <1>0, <2>1, <2>3, <2>4, BecomesKeeps DEF Becomes, Remembered
  <2>6. \A j \in Children : child'[j].why = "retired" => child[j].why = "retired" /\ j # l
    BY <2>1, <2>3, <2>4 DEF Becomes
  <2>7. /\ queue' \in Seq(Op) /\ QueueInv'
        /\ \A i \in DOMAIN queue' : queue'[i].value = 0
        /\ IsClearing' <=> IsClearing
    BY <1>0, <1>2, <2>5, QueueTail
  <2>8. KeepsSafe
    BY <1>0, <2>5, <2>6, TailKeepsSafe DEF l
  <2>9. reset' = reset
    BY <1>1, <1>2 DEF VaultFails
  <2>10. /\ reset' \in [at : {"idle", "logout", "closing", "clearing", "done"}, child : Nat, upTo : Nat,
                         ok : BOOLEAN]
         /\ \A i \in DOMAIN queue' : queue'[i].value <= issued
         /\ vault <= issued
    BY <1>0, <2>7, <2>9 DEF TypeInv, IssuedInv
  <2>11. reset.at \in {"clearing", "done"} /\ ~IsClearing' => (reset'.ok /\ vault' # 0 => writer' = epoch)
    BY <1>0, <2>7, <2>9 DEF EpochInv
  <2>12. QueueMoves
    BY <1>0, <2>5, <2>7, <2>8, <2>9, <2>10, <2>11 DEF QueueMoves
  <2> QED
    BY <2>12, QueueStep
<1>3. CASE ~(queue[1].kind = "persist" /\ child[queue[1].child].why = "retired")
  <2>1. child' = child
    BY <1>1, <1>3 DEF VaultFails
  <2>2. Remembered /\ ChildrenKept
    BY <1>0, <2>1, UnchangedRemembers
  <2>3. /\ queue' \in Seq(Op) /\ QueueInv'
        /\ \A i \in DOMAIN queue' : queue'[i].value = 0
        /\ IF queue[1].kind = "clear" THEN ~IsClearing' ELSE IsClearing' <=> IsClearing
    BY <1>0, <2>2, QueueTail
  <2>4. KeepsSafe
    BY <1>0, <1>3, <2>1, <2>2, TailKeepsSafe
  <2>5. /\ reset' \in [at : {"idle", "logout", "closing", "clearing", "done"}, child : Nat, upTo : Nat,
                        ok : BOOLEAN]
        /\ reset'.at = reset.at /\ reset'.child = reset.child
        /\ IF queue[1].kind = "clear" THEN reset'.ok = FALSE ELSE reset' = reset
    BY <1>0, <1>1 DEF TypeInv, VaultFails
  <2>6. /\ \A i \in DOMAIN queue' : queue'[i].value <= issued
        /\ vault <= issued
        /\ IsClearing' => IsClearing
    BY <1>0, <1>1, <2>3 DEF IssuedInv, IsClearing
  <2>7. reset.at \in {"clearing", "done"} /\ ~IsClearing' => (reset'.ok /\ vault' # 0 => writer' = epoch)
    BY <1>0, <2>3, <2>5 DEF EpochInv
  <2>8. QueueMoves
    BY <1>0, <2>2, <2>3, <2>4, <2>5, <2>6, <2>7 DEF QueueMoves
  <2> QED
    BY <2>8, QueueStep
<1> QED
  BY <1>2, <1>3

-----------------------------------------------------------------------------
(***************************************************************************)
(* The steps of the owner's reset and of close().                          *)
(***************************************************************************)
\* A step that touches no process and no credential.
LEMMA QuietStep ==
  ASSUME ServerInv, UNCHANGED <<child, active, recovering, queue, vault, writer, issued, call>>,
         TypeInv', epoch <= epoch',
         \A k \in Children : ~IsOver(k) /\ IsAwaited(k) => IsAwaited(k)',
         CloseInv', EpochInv',
         reset'.at = "idle" => reset.at = "idle"
  PROVE  ServerInv'
<1>0. /\ TypeInv /\ ChildInv /\ CallInv /\ QueueInv /\ RetireInv /\ IssuedInv /\ ChildrenKept
      /\ Children' = Children
  BY UnchangedKeeps DEF ServerInv, Children
<1>1. ChildInv'
  <2>1. \A k \in Children : child[k].epoch \in Nat /\ child[k].epoch <= epoch
    BY <1>0, ChildType DEF ChildInv
  <2>2. epoch \in Nat /\ epoch' \in Nat
    BY <1>0 DEF TypeInv
  <2>3. \A k \in Children : child'[k].epoch <= epoch'
    BY <2>1, <2>2
  <2> QED
    BY <1>0, <2>3 DEF ChildInv, IsOver
<1>2. CallInv'
  BY <1>0 DEF CallInv, HasStarted
<1>3. QueueInv'
  BY <1>0, QueueStays
<1>4. RetireInv'
  BY <1>0 DEF RetireInv, RetiredOK, IsSaving, IsSaved, IsOver
<1>5. IssuedInv'
  BY <1>0 DEF IssuedInv
<1> QED
  BY <1>1, <1>2, <1>3, <1>4, <1>5 DEF ServerInv

\* The owner's reset begins, in a new epoch.
LEMMA ResetBeginsStep ==
  ASSUME ServerInv, ResetBegins
  PROVE  ServerInv'
<1>0. /\ TypeInv /\ CloseInv /\ EpochInv /\ epoch \in Nat /\ active \in Nat /\ issued \in Nat
      /\ reset.at = "idle" /\ closing.at = "idle"
      /\ UNCHANGED <<child, active, recovering, closed, queue, vault, writer, issued, call, closing>>
  BY DEF ServerInv, TypeInv, ResetBegins
<1>1. /\ reset' \in [at : {"idle", "logout", "closing", "clearing", "done"}, child : Nat, upTo : Nat,
                      ok : BOOLEAN]
      /\ reset'.at = "logout"
  BY <1>0 DEF ResetBegins
<1>2. epoch' \in Nat /\ epoch <= epoch'
  BY <1>0 DEF ResetBegins
<1>3. TypeInv'
  BY <1>0, <1>1, <1>2 DEF TypeInv
<1>4. \A k \in Children : IsAwaited(k) => IsAwaited(k)'
  BY <1>0, <1>1 DEF IsAwaited
<1>5. CloseInv'
  BY <1>0 DEF CloseInv
<1>6. EpochInv'
  BY <1>0, <1>1 DEF EpochInv, IsClearing
<1> QED
  BY <1>0, <1>1, <1>2, <1>3, <1>4, <1>5, <1>6, QuietStep

\* It ends when its operation has left the queue.
LEMMA ResetEndsStep ==
  ASSUME ServerInv, ResetEnds
  PROVE  ServerInv'
<1>0. /\ TypeInv /\ CloseInv /\ EpochInv /\ QueueInv /\ reset.at = "clearing" /\ epoch \in Nat
      /\ UNCHANGED <<child, active, recovering, closed, epoch, queue, vault, writer, issued, call, closing>>
      /\ ~IsClearing
  BY ResetIsQueued DEF ServerInv, TypeInv, ResetEnds
<1>1. /\ reset' \in [at : {"idle", "logout", "closing", "clearing", "done"}, child : Nat, upTo : Nat,
                      ok : BOOLEAN]
      /\ reset'.at = "done" /\ reset'.ok = reset.ok
  BY <1>0 DEF TypeInv, ResetEnds
<1>2. TypeInv'
  BY <1>0, <1>1 DEF TypeInv
<1>3. \A k \in Children : IsAwaited(k) => IsAwaited(k)'
  BY <1>0 DEF IsAwaited
<1>4. CloseInv'
  BY <1>0 DEF CloseInv
<1>5. EpochInv'
  BY <1>0, <1>1 DEF EpochInv, IsClearing
<1> QED
  BY <1>0, <1>1, <1>2, <1>3, <1>4, <1>5, QuietStep

\* close() begins once no turn and no reset is under way.
LEMMA CloseBeginsStep ==
  ASSUME ServerInv, CloseBegins
  PROVE  ServerInv'
<1>0. /\ TypeInv /\ EpochInv /\ epoch \in Nat /\ closed' = TRUE
      /\ UNCHANGED <<child, active, recovering, epoch, queue, vault, writer, issued, call, reset>>
      /\ closing.at = "idle" /\ reset.at \in {"idle", "done"}
      /\ \A c \in Turns : call[c].at \in {"idle", "done"}
  BY DEF ServerInv, TypeInv, CloseBegins
<1>1. /\ closing' \in [at : {"idle", "recovery", "closing", "done"}, child : Nat]
      /\ closing'.at = "recovery"
  BY <1>0 DEF TypeInv, CloseBegins
<1>2. TypeInv'
  BY <1>0, <1>1 DEF TypeInv
<1>3. \A k \in Children : IsAwaited(k) => IsAwaited(k)'
  BY <1>0 DEF IsAwaited
<1>4. CloseInv'
  BY <1>0, <1>1 DEF CloseInv
<1>5. EpochInv'
  BY <1>0 DEF EpochInv, IsClearing
<1> QED
  BY <1>0, <1>2, <1>3, <1>4, <1>5, QuietStep

\* It returns when the process it closed is gone, and then every process is: nobody
\* else was closing one.
LEMMA CloseEndsStep ==
  ASSUME ServerInv, CloseEnds
  PROVE  ServerInv'
<1>0. /\ TypeInv /\ ChildInv /\ CloseInv /\ EpochInv /\ epoch \in Nat /\ closing.at = "closing"
      /\ UNCHANGED <<child, active, recovering, closed, epoch, queue, vault, writer, issued, call, reset>>
      /\ closing.child # 0 => IsOver(closing.child)
  BY DEF ServerInv, TypeInv, CloseEnds
<1>1. /\ closing' \in [at : {"idle", "recovery", "closing", "done"}, child : Nat]
      /\ closing'.at = "done"
  BY <1>0 DEF TypeInv, CloseEnds
<1>2. TypeInv'
  BY <1>0, <1>1 DEF TypeInv
<1>3. ASSUME NEW k \in Children
      PROVE  IsOver(k)
  <2> SUFFICES ASSUME ~IsOver(k) PROVE FALSE
    OBVIOUS
  <2>1. k # 0
    BY <1>0, ChildType
  <2>2. active = 0 /\ recovering = 0 /\ reset.at \in {"idle", "done"}
        /\ \A c \in Turns : call[c].at # "closing"
    BY <1>0 DEF CloseInv
  <2>3. IsAwaited(k)
    BY <1>0, <2>1, <2>2 DEF ChildInv
  <2>4. closing.child = k
    BY <2>1, <2>2, <2>3 DEF IsAwaited
  <2> QED
    BY <1>0, <2>1, <2>4
<1>4. CloseInv'
  BY <1>0, <1>1, <1>3 DEF CloseInv, Children, IsOver
<1>5. EpochInv'
  BY <1>0 DEF EpochInv, IsClearing
<1> QED
  BY <1>0, <1>2, <1>3, <1>4, <1>5, QuietStep

\* The logout is answered or not; the cached process is being closed.
LEMMA ResetLogsOutStep ==
  ASSUME ServerInv, NEW isAnswered \in BOOLEAN, ResetLogsOut(isAnswered)
  PROVE  ServerInv'
<1> DEFINE out(j) ==
             [child[j] EXCEPT !.auth = IF isAnswered /\ j = reset.child THEN 0 ELSE @,
                              !.fate = IF j = active THEN Fate(j, FALSE) ELSE @,
                              !.why = IF j = active THEN "reset" ELSE @]
<1>0. /\ TypeInv /\ ChildInv /\ CallInv /\ CloseInv /\ QueueInv /\ EpochInv /\ IssuedInv
      /\ Len(child) \in Nat /\ Children = 1..Len(child) /\ active \in Nat /\ issued \in Nat
      /\ reset.at = "logout" /\ active' = 0
      /\ UNCHANGED <<recovering, closed, epoch, queue, vault, writer, issued, call, closing>>
  <2>1. /\ TypeInv /\ ChildInv /\ CallInv /\ CloseInv /\ QueueInv /\ EpochInv /\ IssuedInv
    BY DEF ServerInv
  <2>2. Len(child) \in Nat /\ Children = 1..Len(child)
    BY <2>1, ChildrenType
  <2>3. active \in Nat /\ issued \in Nat
    BY <2>1 DEF TypeInv
  <2> QED
    BY <2>1, <2>2, <2>3 DEF ResetLogsOut
<1>1. /\ reset' \in [at : {"idle", "logout", "closing", "clearing", "done"}, child : Nat, upTo : Nat,
                      ok : BOOLEAN]
      /\ reset'.at = "closing" /\ reset'.child = active
  BY <1>0 DEF TypeInv, ResetLogsOut
<1>2. child' = [j \in 1..Len(child) |-> out(j)]
  BY <1>0 DEF ResetLogsOut
<1>3. ASSUME NEW j \in Children
      PROVE  /\ out(j) \in Child /\ out(j).state = child[j].state /\ out(j).epoch = child[j].epoch
             /\ IF j = active THEN out(j).fate # "kept" ELSE out(j).fate = child[j].fate
             /\ out(j).auth \in {0, child[j].auth}
  <2>1. child[j] \in Child
    BY <1>0, ChildType
  <2>2. PICK auth \in Nat : auth = (IF isAnswered /\ j = reset.child THEN 0 ELSE child[j].auth)
    BY <1>0, ChildType
  <2>3. PICK fate \in {"kept", "await, persist", "await, kill", "persist", "kill"} :
          fate = (IF j = active THEN Fate(j, FALSE) ELSE child[j].fate)
    BY <2>1 DEF Fate, Child
  <2>4. PICK why \in {"none", "retired", "contested", "lost", "unresponsive", "reset", "closed"} :
          why = (IF j = active THEN "reset" ELSE child[j].why)
    BY <2>1 DEF Child
  <2>5. out(j) = [child[j] EXCEPT !.auth = auth, !.fate = fate, !.why = why]
    BY <2>2, <2>3, <2>4
  <2>6. j = active => fate # "kept"
    BY <2>3 DEF Fate
  <2> HIDE DEF out
  <2>7. /\ out(j) \in Child /\ out(j).state = child[j].state /\ out(j).epoch = child[j].epoch
        /\ out(j).fate = fate /\ out(j).auth = auth
    BY <2>1, <2>5 DEF Child
  <2> QED
    BY <2>2, <2>3, <2>6, <2>7
<1> HIDE DEF out
<1>4. /\ child' \in Seq(Child) /\ Len(child') = Len(child) /\ Children' = Children
      /\ \A j \in Children : child'[j] = out(j)
  <2>1. child' \in [1..Len(child) -> Child]
    BY <1>0, <1>2, <1>3
  <2>2. child' \in Seq(Child)
    BY <1>0, <2>1, SeqDef
  <2>3. DOMAIN child' = 1..Len(child)
    BY <2>1
  <2>4. Len(child') = Len(child)
    BY <1>0, <2>2, <2>3
  <2> QED
    BY <1>0, <1>2, <2>2, <2>3, <2>4 DEF Children
<1>5. ChildrenKept
  BY <1>3, <1>4 DEF ChildrenKept, HasStarted, IsOver
<1>6. QueueInv' /\ (IsClearing' <=> IsClearing)
  BY <1>0, <1>5, QueueStays
<1>7. TypeInv'
  BY <1>0, <1>1, <1>4 DEF TypeInv
<1>8. ChildInv'
  <2>1. ASSUME NEW k \in Children
        PROVE  /\ ~IsOver(k)' /\ child'[k].fate # "kept" => IsAwaited(k)'
               /\ ~IsOver(k)' /\ child'[k].fate = "kept" => active' = k
               /\ child'[k].epoch <= epoch'
    <3>1. k = active => IsAwaited(k)'
      BY <1>1 DEF IsAwaited
    <3>2. IsAwaited(k) => IsAwaited(k)'
      BY <1>0 DEF IsAwaited
    <3> QED
      BY <1>0, <1>3, <1>4, <3>1, <3>2 DEF ChildInv, IsOver
  <2>2. recovering # 0 => recovering = Len(child') /\ child'[recovering].state = "dead"
    <3>1. recovering # 0 => recovering \in Children
      BY <1>0 DEF TypeInv
    <3> QED
      BY <1>0, <1>3, <1>4, <3>1 DEF ChildInv
  <2>3. \A k \in Children' : k # active'
    BY <1>0, <1>4
  <2> QED
    BY <1>0, <1>4, <2>1, <2>2, <2>3 DEF ChildInv
<1>9. CallInv'
  BY <1>0, <1>5 DEF CallInv, ChildrenKept
<1>10. CloseInv'
  BY <1>0 DEF CloseInv
<1>11. EpochInv'
  BY <1>0, <1>1, <1>6 DEF EpochInv
<1>12. RetireInv'
  BY <1>1 DEF RetireInv
<1>13. IssuedInv'
  BY <1>0, <1>3, <1>4 DEF IssuedInv
<1> QED
  BY <1>6, <1>7, <1>8, <1>9, <1>10, <1>11, <1>12, <1>13 DEF ServerInv

\* Its process is gone, and the vault is to be cleared after all that was asked for.
LEMMA ResetClearsStep ==
  ASSUME ServerInv, ResetClears
  PROVE  ServerInv'
<1> DEFINE op == ClearOp
<1>0. /\ TypeInv /\ ChildInv /\ CallInv /\ CloseInv /\ QueueInv /\ EpochInv /\ IssuedInv
      /\ Len(child) \in Nat /\ Children = 1..Len(child) /\ issued \in Nat
      /\ reset.at = "closing" /\ (reset.child # 0 => IsOver(reset.child))
      /\ UNCHANGED <<child, active, recovering, closed, epoch, vault, writer, issued, call, closing>>
      /\ queue' = Append(queue, op)
  <2>1. /\ TypeInv /\ ChildInv /\ CallInv /\ CloseInv /\ QueueInv /\ EpochInv /\ IssuedInv
    BY DEF ServerInv
  <2>2. Len(child) \in Nat /\ Children = 1..Len(child)
    BY <2>1, ChildrenType
  <2>3. issued \in Nat
    BY <2>1 DEF TypeInv
  <2> QED
    BY <2>1, <2>2, <2>3 DEF ResetClears
<1>1. /\ reset' \in [at : {"idle", "logout", "closing", "clearing", "done"}, child : Nat, upTo : Nat,
                      ok : BOOLEAN]
      /\ reset'.at = "clearing"
  BY <1>0 DEF TypeInv, ResetClears
<1>2. op \in Op /\ op.kind = "clear" /\ op.by = <<"reset">> /\ op.value = 0
  <2>1. epoch \in Nat /\ <<"reset">> \in Callers
    BY <1>0 DEF TypeInv, Callers
  <2> QED
    BY <2>1 DEF ClearOp, Op
<1> HIDE DEF op
<1>3. /\ queue' \in Seq(Op) /\ Len(queue') = Len(queue) + 1 /\ Len(queue) \in Nat
      /\ queue'[Len(queue) + 1] = op
      /\ DOMAIN queue = 1..Len(queue) /\ DOMAIN queue' = 1..(Len(queue) + 1)
      /\ \A i \in DOMAIN queue : queue'[i] = queue[i]
  BY <1>0, <1>2 DEF TypeInv
<1>4. \A i \in DOMAIN queue' : \/ i \in DOMAIN queue /\ queue'[i] = queue[i]
                               \/ i = Len(queue) + 1 /\ queue'[i] = op
  BY <1>3
<1>5. \A i \in DOMAIN queue : queue[i].kind # "clear"
  BY <1>0 DEF EpochInv, IsClearing
<1>6. IsClearing'
  <2>1. PICK i \in DOMAIN queue' : queue'[i] = op
    BY <1>3
  <2> QED
    BY <1>2, <2>1 DEF IsClearing
<1>7. QueueInv'
  <2>1. ASSUME NEW i \in DOMAIN queue'
        PROVE  /\ i > 1 => queue'[i].value = 0
               /\ queue'[i].kind = "clear" <=> queue'[i].by = <<"reset">>
               /\ queue'[i].kind = "clear" => queue'[i].value = 0
               /\ queue'[i].kind = "persist" =>
                    /\ queue'[i].child \in Children' /\ HasStarted(queue[i].child)'
                    /\ queue'[i].epoch = child'[queue'[i].child].epoch
    <3>1. CASE i \in DOMAIN queue /\ queue'[i] = queue[i]
      BY <1>0, <3>1 DEF QueueInv, Children, HasStarted
    <3>2. CASE queue'[i] = op
      BY <1>2, <3>2
    <3> QED
      BY <1>4, <3>1, <3>2
  <2>2. ASSUME NEW i \in DOMAIN queue', NEW j \in DOMAIN queue',
               queue'[i].kind = "clear", queue'[j].kind = "clear"
        PROVE  i = j
    <3>1. i = Len(queue) + 1
      BY <1>4, <1>5, <2>2
    <3>2. j = Len(queue) + 1
      BY <1>4, <1>5, <2>2
    <3> QED
      BY <3>1, <3>2
  <2> QED
    BY <2>1, <2>2 DEF QueueInv
<1>8. TypeInv'
  BY <1>0, <1>1, <1>3 DEF TypeInv
<1>9. ChildInv'
  <2>1. ASSUME NEW k \in Children, ~IsOver(k), IsAwaited(k)
        PROVE  IsAwaited(k)'
    <3>1. reset.child # k
      BY <1>0, <2>1, ChildType
    <3> QED
      BY <1>0, <2>1, <3>1 DEF IsAwaited
  <2> QED
    BY <1>0, <2>1 DEF ChildInv, Children, IsOver
<1>10. CallInv'
  BY <1>0 DEF CallInv, Children, HasStarted
<1>11. CloseInv'
  BY <1>0 DEF CloseInv
<1>12. EpochInv'
  BY <1>1, <1>6 DEF EpochInv
<1>13. RetireInv'
  BY <1>1 DEF RetireInv
<1>14. IssuedInv'
  BY <1>0, <1>2, <1>4 DEF IssuedInv, Children
<1> QED
  BY <1>7, <1>8, <1>9, <1>10, <1>11, <1>12, <1>13, <1>14 DEF ServerInv

-----------------------------------------------------------------------------
(***************************************************************************)
(* The invariant, and what it implies.                                     *)
(***************************************************************************)
\* It holds when the application starts.
LEMMA ServerInvInit ==
  ASSUME Init
  PROVE  ServerInv
<1>1. TypeInv
  <2>1. Idle \in Call
    BY DEF Idle, Call
  <2>2. call \in [Calls -> Call]
    BY <2>1 DEF Init
  <2>3. child \in Seq(Child) /\ Len(child) = 0 /\ queue \in Seq(Op)
    BY DEF Init
  <2>4. /\ reset \in [at : {"idle", "logout", "closing", "clearing", "done"}, child : Nat, upTo : Nat,
                      ok : BOOLEAN]
        /\ closing \in [at : {"idle", "recovery", "closing", "done"}, child : Nat]
    BY DEF Init
  <2>5. epoch = 0 /\ vault = 1 /\ writer = 0 /\ issued = 1 /\ active = 0 /\ recovering = 0
    BY DEF Init
  <2>6. {epoch, vault, writer, issued} \subseteq Nat
    BY <2>5
  <2>7. closed \in BOOLEAN
    BY DEF Init
  <2> QED
    BY <2>2, <2>3, <2>4, <2>5, <2>6, <2>7 DEF TypeInv
<1>2. Children = {} /\ DOMAIN queue = {}
  BY DEF Init, Children
<1>3. ChildInv
  BY <1>2 DEF Init, ChildInv
<1>4. CallInv /\ CloseInv
  BY <1>2 DEF Init, CallInv, CloseInv, Idle
<1>5. QueueInv /\ EpochInv
  BY <1>2 DEF Init, QueueInv, EpochInv, IsClearing
<1>6. RetireInv /\ IssuedInv
  BY <1>2 DEF Init, RetireInv, IssuedInv
<1> QED
  BY <1>1, <1>3, <1>4, <1>5, <1>6 DEF ServerInv

\* Each step keeps it.
LEMMA ServerInvStep ==
  ASSUME ServerInv, [Next]_vars
  PROVE  ServerInv'
<1>1. ASSUME NEW c \in Calls, Acquire(c)
      PROVE  ServerInv'
  <2>1. CASE closed \/ active # 0
    BY <1>1, <2>1, JoinStep
  <2>2. CASE ~closed /\ active = 0
    BY <1>1, <2>2, LaunchStep
  <2> QED
    BY <2>1, <2>2
<1>2. ASSUME NEW c \in Calls, Await(c)
      PROVE  ServerInv'
  <2>1. CASE Failed(c)
    BY <1>2, <2>1, FailedStep DEF Await
  <2>2. CASE Resolved(c)
    <3>1. CASE UNCHANGED <<child, active, recovering, queue>>
      BY <1>2, <2>2, <3>1, HaveStep DEF Await
    <3>2. CASE /\ ~(call[c].at = "launch" \/ (active = call[c].child /\ IsAlive(call[c].child)))
               /\ active = call[c].child
      BY <1>2, <2>2, <3>2, RetireStep DEF Await
    <3> QED
      BY <2>2, <3>1, <3>2 DEF Resolved
  <2> QED
    BY <1>2, <2>1, <2>2 DEF Await
<1>3. ASSUME NEW c \in Calls, Enter(c) \/ Caller(c) \/ Unresponsive(c)
      PROVE  ServerInv'
  BY <1>1, <1>2, <1>3, EnterStep, UseStep, FinishStep, UnresponsiveStep DEF Caller
<1>4. ASSUME NEW k \in Children, Process(k) \/ LaunchFails(k) \/ Dies(k) \/ CredentialArrives(k)
      PROVE  ServerInv'
  BY <1>4, ReadsStep, LaunchEndsStep, SettlesStep, KillStep, CredentialStep DEF Process
<1>5. CASE Prepare
  <2>1. Head(queue) = queue[1]
    BY <1>5 DEF Prepare, ServerInv, TypeInv
  <2> QED
    BY <1>5, <2>1, DroppedStep, PreparedStep DEF Prepare
<1>6. CASE VaultChanges \/ VaultFails
  BY <1>6, VaultStep, VaultFailsStep
<1>7. CASE ResetBegins \/ Reset
  BY <1>7, ResetBeginsStep, ResetLogsOutStep, ResetClearsStep, ResetEndsStep DEF Reset
<1>8. CASE CloseBegins \/ Close
  BY <1>8, CloseBeginsStep, CloseProceedsStep, CloseEndsStep DEF Close
<1>9. CASE UNCHANGED vars
  <2>1. ChildrenKept
    BY <1>9, UnchangedKeeps DEF vars
  <2>2. TypeInv'
    BY <1>9 DEF vars, ServerInv, TypeInv
  <2>3. CloseInv'
    BY <1>9 DEF vars, ServerInv, CloseInv, Children, IsOver
  <2>4. EpochInv'
    BY <1>9 DEF vars, ServerInv, EpochInv, IsClearing
  <2>5. \A k \in Children : IsAwaited(k) => IsAwaited(k)'
    BY <1>9 DEF vars, IsAwaited
  <2>6. epoch <= epoch'
    BY <1>9 DEF vars, ServerInv, TypeInv
  <2> QED
    BY <1>9, <2>2, <2>3, <2>4, <2>5, <2>6, QuietStep DEF vars
<1> QED
  BY <1>3, <1>4, <1>5, <1>6, <1>7, <1>8, <1>9 DEF Next, Vault

\* The invariant of every behaviour.
LEMMA ServerInvariant == Spec => []ServerInv
  BY ServerInvInit, ServerInvStep, PTL DEF Spec

\* No process is lost: one that runs is the cached one or is being closed, and none
\* runs once close() has returned.
THEOREM ChildrenAreOwned == Spec => []EveryChildIsOwned
<1>1. ServerInv => EveryChildIsOwned
  BY DEF ServerInv, ChildInv, CloseInv, EveryChildIsOwned
<1> QED
  BY <1>1, ServerInvariant, PTL

\* Until the owner resets it, a process launched after a retired one starts with a
\* credential at least as new as the last the retired one held.
THEOREM RetirementIsSafe == Spec => []RetirementKeepsCredential
<1>1. ServerInv => RetirementKeepsCredential
  BY DEF ServerInv, RetireInv, RetiredOK, RetirementKeepsCredential
<1> QED
  BY <1>1, ServerInvariant, PTL

-----------------------------------------------------------------------------
(***************************************************************************)
(* What a reset forgets: without a relic nothing issued before the reset   *)
(* is in a process of the new epoch, on its way to the vault or, past the  *)
(* clearing, in the vault.                                                 *)
(***************************************************************************)
IsFresh(value) == value = 0 \/ value > reset.upTo

IsForgotten ==
  /\ \A k \in Children : child[k].epoch = epoch => IsFresh(child[k].auth)
  /\ \A i \in DOMAIN queue : queue[i].epoch = epoch => IsFresh(queue[i].value)
  /\ reset.at \in {"clearing", "done"} /\ ~IsClearing /\ reset.ok => IsFresh(vault)

ForgetInv ==
  /\ \A k \in Children : child[k].state = "reading" => child[k].start = 0
  /\ reset.at # "idle" =>
       reset.upTo <= issued /\ ((\E k \in Children : IsRelic(k)) \/ IsForgotten)

\* A child keeps what it started with, and gets no credential but a new one.
Keeps(k) ==
  /\ child'[k].epoch = child[k].epoch /\ child'[k].start = child[k].start
  /\ child'[k].state = "reading" => child[k].state = "reading"
  /\ child'[k].auth \in {child[k].auth, 0} \/ child'[k].auth > issued

ChildrenKeep ==
  /\ Children \subseteq Children'
  /\ \A k \in Children : Keeps(k)
  /\ \A k \in Children' : k \notin Children => child'[k].start = 0 /\ child'[k].auth = 0

\* The credentials of the queue were in it, or are those of its processes.
QueueKeeps ==
  \A i \in DOMAIN queue' :
    \/ queue'[i].value = 0
    \/ \E j \in DOMAIN queue : queue'[i].value = queue[j].value /\ queue'[i].epoch = queue[j].epoch
    \/ \E k \in Children : queue'[i].value = child[k].auth /\ queue'[i].epoch = child[k].epoch

\* The vault is left alone, cleared, or takes a credential from the queue.
VaultKeeps ==
  \/ vault' = vault /\ reset'.at = reset.at /\ reset'.ok = reset.ok /\ (IsClearing => IsClearing')
  \/ vault' = 0 \/ ~reset'.ok \/ reset'.at \notin {"clearing", "done"} \/ IsClearing'
  \/ \E j \in DOMAIN queue : vault' = queue[j].value /\ queue[j].epoch = epoch

\* A step that does no more than this forgets nothing of the reset.
LEMMA KeepsForgotten ==
  ASSUME ServerInv, ServerInv', ForgetInv, ChildrenKeep, QueueKeeps, VaultKeeps,
         epoch' = epoch, issued' >= issued, reset'.upTo = reset.upTo,
         reset'.at # "idle" <=> reset.at # "idle"
  PROVE  ForgetInv'
<1>1. /\ issued \in Nat /\ issued' \in Nat /\ reset.upTo \in Nat
      /\ \A k \in Children : child[k].auth \in Nat /\ child[k].start \in Nat
  BY ChildrenType DEF ServerInv, TypeInv, Child
<1>2. \A k \in Children' : child'[k].state = "reading" => child'[k].start = 0
  BY DEF ForgetInv, ChildrenKeep, Keeps
<1>3. ASSUME reset'.at # "idle", \E k \in Children : IsRelic(k)
      PROVE  \E k \in Children' : IsRelic(k)'
  BY <1>3 DEF ChildrenKeep, Keeps, IsRelic
<1>4. ASSUME reset'.at # "idle", IsForgotten
      PROVE  IsForgotten'
  <2>1. \A k \in Children : child[k].epoch = epoch => IsFresh(child[k].auth)
    BY <1>4 DEF IsForgotten
  <2>2. \A k \in Children' : child'[k].epoch = epoch' => IsFresh(child[k].auth)'
    <3> SUFFICES ASSUME NEW k \in Children', child'[k].epoch = epoch', child'[k].auth # 0
                 PROVE  child'[k].auth > reset.upTo
      BY DEF IsFresh
    <3>1. k \in Children /\ Keeps(k)
      BY DEF ChildrenKeep
    <3>2. CASE child'[k].auth = child[k].auth
      BY <2>1, <3>1, <3>2 DEF Keeps, IsFresh
    <3>3. CASE child'[k].auth > issued
      <4>1. reset.upTo <= issued /\ child'[k].auth \in Nat
        <5>1. child' \in Seq(Child) /\ Children' = DOMAIN child'
          BY DEF ServerInv, TypeInv, Children
        <5>2. child'[k] \in Child
          BY <5>1
        <5> QED
          BY <1>4, <5>2 DEF ForgetInv, Child
      <4> QED
        BY <1>1, <3>3, <4>1
    <3> QED
      BY <3>1, <3>2, <3>3 DEF Keeps
  <2>3. \A i \in DOMAIN queue' : queue'[i].epoch = epoch' => IsFresh(queue[i].value)'
    <3> SUFFICES ASSUME NEW i \in DOMAIN queue', queue'[i].epoch = epoch', queue'[i].value # 0
                 PROVE  queue'[i].value > reset.upTo
      BY DEF IsFresh
    <3>1. CASE \E j \in DOMAIN queue :
                 queue'[i].value = queue[j].value /\ queue'[i].epoch = queue[j].epoch
      BY <1>4, <3>1 DEF IsForgotten, IsFresh
    <3>2. CASE \E k \in Children :
                 queue'[i].value = child[k].auth /\ queue'[i].epoch = child[k].epoch
      BY <2>1, <3>2 DEF IsFresh
    <3> QED
      BY <3>1, <3>2 DEF QueueKeeps
  <2>4. reset'.at \in {"clearing", "done"} /\ ~IsClearing' /\ reset'.ok => IsFresh(vault)'
    BY <1>4 DEF VaultKeeps, IsForgotten, IsFresh
  <2> QED
    BY <2>2, <2>3, <2>4 DEF IsForgotten
<1>5. reset'.at # "idle" => reset'.upTo <= issued'
  BY <1>1 DEF ForgetInv
<1> QED
  BY <1>2, <1>3, <1>4, <1>5 DEF ForgetInv

\* Asking for a persist puts no credential in the queue.
LEMMA AskingKeeps ==
  ASSUME ServerInv, \/ UNCHANGED queue
                    \/ \E k, by : queue' = Append(queue, PersistOp(k, by))
  PROVE  QueueKeeps /\ (IsClearing => IsClearing')
<1>1. queue \in Seq(Op) /\ Len(queue) \in Nat
  BY DEF ServerInv, TypeInv
<1>2. CASE UNCHANGED queue
  BY <1>2 DEF QueueKeeps, IsClearing
<1>3. ASSUME NEW k, NEW by, queue' = Append(queue, PersistOp(k, by))
      PROVE  QueueKeeps /\ (IsClearing => IsClearing')
  <2> DEFINE op == PersistOp(k, by)
  <2>1. op.value = 0
    BY DEF PersistOp
  <2> HIDE DEF op
  <2>2. queue' = Append(queue, op)
    BY <1>3 DEF op
  <2>3. \A i \in DOMAIN queue : i \in DOMAIN queue' /\ queue'[i] = queue[i]
    BY <1>1, <2>2
  <2>4. \A i \in DOMAIN queue' : (i \in DOMAIN queue /\ queue'[i] = queue[i]) \/ queue'[i] = op
    BY <1>1, <2>2
  <2> QED
    BY <2>1, <2>3, <2>4 DEF QueueKeeps, IsClearing
<1> QED
  BY <1>2, <1>3

\* Replacing the record of a child by one that started with the same.
LEMMA ChildKeeps ==
  ASSUME ServerInv, NEW k \in Children, NEW r, child' = [child EXCEPT ![k] = r],
         r.epoch = child[k].epoch, r.start = child[k].start,
         r.state = "reading" => child[k].state = "reading",
         r.auth \in {child[k].auth, 0} \/ r.auth > issued
  PROVE  ChildrenKeep
<1>1. child \in Seq(Child) /\ Children = DOMAIN child
  BY DEF ServerInv, TypeInv, Children
<1>2. /\ Children' = Children /\ child'[k] = r
      /\ \A j \in Children : j # k => child'[j] = child[j]
  BY <1>1 DEF Children
<1> QED
  BY <1>2 DEF ChildrenKeep, Keeps

LEMMA SameChildren ==
  ASSUME UNCHANGED child
  PROVE  ChildrenKeep
  BY DEF ChildrenKeep, Keeps, Children

\* closeActive asks for a persist at most, and marks one child.
LEMMA CloseActiveKeeps ==
  ASSUME ServerInv, NEW persist, NEW why, CloseActive(persist, why)
  PROVE  ChildrenKeep /\ QueueKeeps /\ (IsClearing => IsClearing')
<1>1. CASE active = 0
  BY <1>1, SameChildren, AskingKeeps DEF CloseActive
<1>2. CASE active # 0
  <2>1. active \in Children /\ child[active] \in Child
    BY <1>2, ChildrenType DEF ServerInv, TypeInv
  <2> DEFINE r == [child[active] EXCEPT !.fate = Fate(active, persist), !.why = why]
  <2>2. child' = [child EXCEPT ![active] = r]
    BY <1>2, <2>1, ChildrenType DEF CloseActive, ServerInv, TypeInv, Children
  <2>3. r.epoch = child[active].epoch /\ r.start = child[active].start
        /\ r.state = child[active].state /\ r.auth = child[active].auth
    BY <2>1 DEF Child
  <2> HIDE DEF r
  <2>4. ChildrenKeep
    BY <2>1, <2>2, <2>3, ChildKeeps
  <2>5. \/ UNCHANGED queue
        \/ \E k, by : queue' = Append(queue, PersistOp(k, by))
    BY <1>2 DEF CloseActive
  <2> QED
    BY <2>4, <2>5, AskingKeeps
<1> QED
  BY <1>1, <1>2

\* A call launches a process with no credential, or closes one, at most.
LEMMA CallKeeps ==
  ASSUME ServerInv, NEW c \in Calls, Enter(c) \/ Caller(c) \/ Unresponsive(c)
  PROVE  /\ ChildrenKeep /\ QueueKeeps /\ (IsClearing => IsClearing')
         /\ UNCHANGED <<epoch, vault, issued, reset>>
<1>1. CASE Enter(c) \/ Finish(c) \/ Failed(c)
  BY <1>1, SameChildren, AskingKeeps DEF Enter, Finish, Failed
<1>2. CASE Acquire(c)
  <2>1. CASE UNCHANGED child
    BY <1>2, <2>1, SameChildren, AskingKeeps DEF Acquire
  <2>2. CASE child' = Append(child, NewChild)
    <3>1. child \in Seq(Child) /\ Children = DOMAIN child
      BY DEF ServerInv, TypeInv, Children
    <3>2. /\ \A k \in Children : k \in Children' /\ child'[k] = child[k]
          /\ \A k \in Children' : k \notin Children => child'[k] = NewChild
      BY <2>2, <3>1 DEF Children
    <3>3. ChildrenKeep
      BY <3>2 DEF ChildrenKeep, Keeps, NewChild
    <3> QED
      BY <1>2, <3>3, AskingKeeps DEF Acquire
  <2> QED
    BY <1>2, <2>1, <2>2 DEF Acquire
<1>3. CASE Await(c) /\ Resolved(c)
  <2>1. CASE UNCHANGED <<child, queue>>
    BY <1>3, <2>1, SameChildren, AskingKeeps DEF Resolved
  <2>2. CASE CloseActive(TRUE, Retirement(call[c].child))
    BY <1>3, <2>2, CloseActiveKeeps DEF Resolved
  <2> QED
    BY <1>3, <2>1, <2>2 DEF Resolved
<1>4. CASE Use(c)
  <2>1. \/ UNCHANGED queue
        \/ \E k, by : queue' = Append(queue, PersistOp(k, by))
    BY <1>4 DEF Use
  <2> QED
    BY <1>4, <2>1, SameChildren, AskingKeeps DEF Use
<1>5. CASE Unresponsive(c)
  BY <1>5, CloseActiveKeeps DEF Unresponsive
<1> QED
  BY <1>1, <1>2, <1>3, <1>4, <1>5 DEF Caller, Await

\* A process that starts reads the vault; until then it had no credential.
LEMMA ReadsForget ==
  ASSUME ServerInv, ServerInv', ForgetInv, NEW k \in Children, LaunchReads(k)
  PROVE  ForgetInv'
<1>1. /\ child \in Seq(Child) /\ Children = DOMAIN child /\ child[k] \in Child
      /\ vault \in Nat /\ reset.upTo \in Nat /\ child[k].start = 0
  BY ChildrenType DEF ServerInv, TypeInv, Children, ForgetInv, LaunchReads
<1>2. /\ Children' = Children
      /\ child'[k] = [child[k] EXCEPT !.state = "starting", !.start = vault, !.auth = vault]
      /\ \A j \in Children : j # k => child'[j] = child[j]
      /\ UNCHANGED <<queue, epoch, vault, issued, reset>>
  BY <1>1 DEF LaunchReads, Children
<1>3. /\ child'[k].state = "starting" /\ child'[k].start = vault /\ child'[k].auth = vault
      /\ child'[k].epoch = child[k].epoch
  BY <1>1, <1>2 DEF Child
<1>4. \A j \in Children' : child'[j].state = "reading" => child'[j].start = 0
  BY <1>2, <1>3 DEF ForgetInv
<1>5. (\E j \in Children : IsRelic(j)) => \E j \in Children' : IsRelic(j)'
  BY <1>1, <1>2 DEF IsRelic
<1>6. ASSUME IsForgotten, ~IsRelic(k)'
      PROVE  IsForgotten'
  <2>1. vault = 0 \/ vault > reset.upTo \/ child[k].epoch # epoch
    BY <1>1, <1>2, <1>3, <1>6 DEF IsRelic
  <2>2. \A j \in Children' : child'[j].epoch = epoch' => IsFresh(child[j].auth)'
    BY <1>2, <1>3, <1>6, <2>1 DEF IsForgotten, IsFresh
  <2>3. \A i \in DOMAIN queue' : queue'[i].epoch = epoch' => IsFresh(queue[i].value)'
    BY <1>2, <1>6 DEF IsForgotten, IsFresh
  <2>4. reset'.at \in {"clearing", "done"} /\ ~IsClearing' /\ reset'.ok => IsFresh(vault)'
    BY <1>2, <1>6 DEF IsForgotten, IsFresh, IsClearing
  <2> QED
    BY <2>2, <2>3, <2>4 DEF IsForgotten
<1> QED
  BY <1>2, <1>4, <1>5, <1>6 DEF ForgetInv

\* What a process does keeps it, or gives it a new credential.
LEMMA ProcessForgets ==
  ASSUME ServerInv, ServerInv', ForgetInv, NEW k \in Children,
         Process(k) \/ LaunchFails(k) \/ Dies(k) \/ CredentialArrives(k)
  PROVE  ForgetInv'
<1>1. child[k] \in Child /\ issued \in Nat
  BY ChildrenType DEF ServerInv, TypeInv
<1>2. CASE LaunchReads(k)
  BY <1>2, ReadsForget
<1>3. CASE LaunchEnds(k) \/ LaunchFails(k) \/ Dies(k) \/ Kill(k)
  <2>1. \E s \in {"ready", "failed", "dead", "gone"} : child' = [child EXCEPT ![k].state = s]
    BY <1>3 DEF LaunchEnds, LaunchFails, Dies, Kill
  <2>2. PICK s \in {"ready", "failed", "dead", "gone"} :
          child' = [child EXCEPT ![k] = [child[k] EXCEPT !.state = s]]
    BY <2>1, ChildrenType DEF ServerInv, TypeInv, Children
  <2> DEFINE r == [child[k] EXCEPT !.state = s]
  <2>3. r.epoch = child[k].epoch /\ r.start = child[k].start /\ r.auth = child[k].auth /\ r.state = s
    BY <1>1 DEF Child
  <2> HIDE DEF r
  <2>4. ChildrenKeep
    BY <2>2, <2>3, ChildKeeps DEF r
  <2>5. UNCHANGED <<queue, epoch, vault, issued, reset>>
    BY <1>3 DEF LaunchEnds, LaunchFails, Dies, Kill
  <2> QED
    BY <1>1, <2>4, <2>5, AskingKeeps, KeepsForgotten DEF VaultKeeps
<1>4. CASE CloseSettles(k)
  <2>1. PICK f \in {"persist", "kill"} :
          child' = [child EXCEPT ![k] = [child[k] EXCEPT !.fate = f]]
    BY <1>4, ChildrenType DEF CloseSettles, ServerInv, TypeInv, Children
  <2> DEFINE r == [child[k] EXCEPT !.fate = f]
  <2>2. /\ r.epoch = child[k].epoch /\ r.start = child[k].start /\ r.auth = child[k].auth
        /\ r.state = child[k].state
    BY <1>1 DEF Child
  <2> HIDE DEF r
  <2>3. ChildrenKeep
    BY <2>1, <2>2, ChildKeeps DEF r
  <2>4. /\ UNCHANGED <<epoch, vault, issued, reset>>
        /\ \/ UNCHANGED queue
           \/ \E j, by : queue' = Append(queue, PersistOp(j, by))
    BY <1>4 DEF CloseSettles
  <2> QED
    BY <1>1, <2>3, <2>4, AskingKeeps, KeepsForgotten DEF VaultKeeps
<1>5. CASE CredentialArrives(k)
  <2> DEFINE r == [child[k] EXCEPT !.auth = issued + 1]
  <2>1. child' = [child EXCEPT ![k] = r]
    BY <1>5, ChildrenType DEF CredentialArrives, ServerInv, TypeInv, Children
  <2>2. /\ r.epoch = child[k].epoch /\ r.start = child[k].start /\ r.auth = issued + 1
        /\ r.state = child[k].state
    BY <1>1 DEF Child
  <2> HIDE DEF r
  <2>3. issued + 1 > issued
    BY <1>1
  <2>4. ChildrenKeep
    BY <2>1, <2>2, <2>3, ChildKeeps
  <2>5. /\ UNCHANGED <<epoch, vault, reset>> /\ issued' = issued + 1
        /\ \/ UNCHANGED queue
           \/ \E j, by : queue' = Append(queue, PersistOp(j, by))
    BY <1>5 DEF CredentialArrives
  <2> QED
    BY <1>1, <2>4, <2>5, AskingKeeps, KeepsForgotten DEF VaultKeeps
<1> QED
  BY <1>2, <1>3, <1>4, <1>5 DEF Process

\* The first operation is over.
LEMMA TailKeeps ==
  ASSUME ServerInv, queue # <<>>, queue' = Tail(queue)
  PROVE  QueueKeeps /\ (queue[1].kind # "clear" /\ IsClearing => IsClearing')
<1>1. queue \in Seq(Op) /\ Len(queue) \in Nat /\ Len(queue) # 0
  BY DEF ServerInv, TypeInv
<1>2. /\ DOMAIN queue = 1..Len(queue) /\ DOMAIN queue' = 1..(Len(queue) - 1)
      /\ \A i \in 1..(Len(queue) - 1) : queue'[i] = queue[i + 1]
  BY <1>1
<1>3. \A i \in DOMAIN queue' : queue'[i].value = 0
  BY <1>1, <1>2 DEF ServerInv, QueueInv
<1>4. ASSUME queue[1].kind # "clear", NEW i \in DOMAIN queue, queue[i].kind = "clear"
      PROVE  IsClearing'
  <2>1. i - 1 \in DOMAIN queue' /\ queue'[i - 1] = queue[i]
    BY <1>1, <1>2, <1>4
  <2> QED
    BY <1>4, <2>1 DEF IsClearing
<1> QED
  BY <1>3, <1>4 DEF QueueKeeps, IsClearing

\* A persist carries the credential of its process, if its epoch has not passed.
LEMMA PrepareForgets ==
  ASSUME ServerInv, ServerInv', ForgetInv, Prepare
  PROVE  ForgetInv'
<1>1. /\ queue \in Seq(Op) /\ Len(queue) \in Nat /\ Len(queue) # 0 /\ Head(queue) = queue[1]
      /\ 1 \in DOMAIN queue /\ queue[1] \in Op /\ issued \in Nat
      /\ queue[1].kind = "persist"
      /\ UNCHANGED <<child, epoch, vault, issued, reset>>
  BY DEF Prepare, ServerInv, TypeInv
<1>2. queue[1].child \in Children /\ queue[1].epoch = child[queue[1].child].epoch
  BY <1>1 DEF ServerInv, QueueInv
<1>3. CASE queue' = Tail(queue)
  <2>1. QueueKeeps /\ (IsClearing => IsClearing')
    BY <1>1, <1>3, TailKeeps DEF Prepare
  <2> QED
    BY <1>1, <2>1, SameChildren, KeepsForgotten DEF VaultKeeps
<1>4. CASE queue' = [queue EXCEPT ![1].value = child[queue[1].child].auth]
  <2>1. /\ DOMAIN queue' = DOMAIN queue
        /\ queue'[1] = [queue[1] EXCEPT !.value = child[queue[1].child].auth]
        /\ \A i \in DOMAIN queue : i # 1 => queue'[i] = queue[i]
    BY <1>1, <1>4
  <2>2. /\ queue'[1].value = child[queue[1].child].auth /\ queue'[1].epoch = queue[1].epoch
        /\ queue'[1].kind = queue[1].kind
    BY <1>1, <2>1 DEF Op
  <2>3. QueueKeeps /\ (IsClearing => IsClearing')
    BY <1>1, <1>2, <2>1, <2>2 DEF QueueKeeps, IsClearing
  <2> QED
    BY <1>1, <2>3, SameChildren, KeepsForgotten DEF VaultKeeps
<1> QED
  BY <1>1, <1>3, <1>4 DEF Prepare

\* Past the clearing only operations of the new epoch reach the vault.
LEMMA VaultForgets ==
  ASSUME ServerInv, ServerInv', ForgetInv, VaultChanges \/ VaultFails
  PROVE  ForgetInv'
<1>1. /\ queue \in Seq(Op) /\ Len(queue) \in Nat /\ Len(queue) # 0 /\ Head(queue) = queue[1]
      /\ 1 \in DOMAIN queue /\ queue # <<>> /\ queue' = Tail(queue) /\ issued \in Nat
      /\ queue[1].kind = "clear" \/ queue[1].value # 0
      /\ UNCHANGED <<epoch, issued>>
      /\ reset \in [at : {"idle", "logout", "closing", "clearing", "done"}, child : Nat, upTo : Nat,
                    ok : BOOLEAN]
  BY DEF VaultChanges, VaultFails, ServerInv, TypeInv
<1>2. ChildrenKeep
  <2>1. CASE UNCHANGED child
    BY <2>1, SameChildren
  <2>2. CASE /\ queue[1].kind = "persist"
             /\ child' = [child EXCEPT ![queue[1].child].why = "lost"]
    <3> DEFINE k == queue[1].child
               r == [child[k] EXCEPT !.why = "lost"]
    <3>1. k \in Children /\ child[k] \in Child
      BY <1>1, <2>2, ChildrenType DEF ServerInv, QueueInv
    <3>2. child' = [child EXCEPT ![k] = r]
      BY <2>2, <3>1, ChildrenType DEF ServerInv, TypeInv, Children
    <3>3. /\ r.epoch = child[k].epoch /\ r.start = child[k].start /\ r.auth = child[k].auth
          /\ r.state = child[k].state
      BY <3>1 DEF Child
    <3> HIDE DEF k, r
    <3> QED
      BY <3>1, <3>2, <3>3, ChildKeeps
  <2> QED
    BY <1>1, <2>1, <2>2 DEF VaultChanges, VaultFails
<1>3. QueueKeeps /\ (queue[1].kind # "clear" /\ IsClearing => IsClearing')
  BY <1>1, TailKeeps
<1>4. reset'.upTo = reset.upTo /\ reset'.at = reset.at
  BY <1>1 DEF VaultChanges, VaultFails
<1>5. VaultKeeps
  <2>1. CASE VaultFails
    BY <1>1, <1>3, <2>1 DEF VaultFails, VaultKeeps
  <2>2. CASE VaultChanges /\ queue[1].kind = "clear"
    BY <1>1, <2>2 DEF VaultChanges, VaultKeeps, ServerInv, QueueInv
  <2>3. CASE VaultChanges /\ queue[1].kind # "clear"
    <3>1. vault' = queue[1].value /\ queue[1].value # 0
      BY <1>1, <2>3 DEF VaultChanges
    <3>2. reset.at \in {"clearing", "done"} /\ ~IsClearing => queue[1].epoch = epoch
      BY <1>1, <3>1 DEF ServerInv, EpochInv
    <3> QED
      BY <1>1, <1>3, <1>4, <2>3, <3>1, <3>2 DEF VaultKeeps
  <2> QED
    BY <2>1, <2>2, <2>3
<1> QED
  BY <1>1, <1>2, <1>3, <1>4, <1>5, KeepsForgotten

\* When a reset begins there is nothing of the new epoch.
LEMMA ResetBeginsForgets ==
  ASSUME ServerInv, ServerInv', ForgetInv, ResetBegins
  PROVE  ForgetInv'
<1>1. /\ UNCHANGED <<child, queue, vault, issued>> /\ epoch' = epoch + 1 /\ epoch \in Nat
      /\ reset'.at = "logout" /\ reset'.upTo = issued /\ issued \in Nat
  BY DEF ResetBegins, ServerInv, TypeInv
<1>2. ASSUME NEW k \in Children
      PROVE  child[k].epoch # epoch'
  <2>1. child[k] \in Child /\ child[k].epoch <= epoch
    BY ChildrenType DEF ServerInv, ChildInv
  <2>2. child[k].epoch \in Nat
    BY <2>1 DEF Child
  <2> QED
    BY <1>1, <2>1, <2>2
<1>3. \A i \in DOMAIN queue : queue[i].value # 0 => queue[i].epoch # epoch'
  <2> SUFFICES ASSUME NEW i \in DOMAIN queue, queue[i].value # 0
               PROVE  queue[i].epoch # epoch'
    OBVIOUS
  <2>1. queue[i] \in Op /\ queue[i].kind = "persist"
    BY ChildrenType DEF ServerInv, QueueInv, Op
  <2> QED
    BY <1>2, <2>1 DEF ServerInv, QueueInv
<1>4. IsForgotten'
  BY <1>1, <1>2, <1>3 DEF IsForgotten, IsFresh, Children
<1> QED
  BY <1>1, <1>4 DEF ForgetInv, Children

\* The rest of the reset takes credentials away.
LEMMA ResetForgetsStep ==
  ASSUME ServerInv, ServerInv', ForgetInv, Reset
  PROVE  ForgetInv'
<1>1. /\ reset \in [at : {"idle", "logout", "closing", "clearing", "done"}, child : Nat, upTo : Nat,
                    ok : BOOLEAN]
      /\ issued \in Nat /\ queue \in Seq(Op) /\ Len(queue) \in Nat
  BY DEF ServerInv, TypeInv
<1>2. ASSUME NEW b \in BOOLEAN, ResetLogsOut(b)
      PROVE  ForgetInv'
  <2>1. ChildrenKeep
    <3>1. Children' = Children
      BY <1>2 DEF ResetLogsOut, Children, ServerInv, TypeInv
    <3>2. ASSUME NEW k \in Children
          PROVE  Keeps(k)
      <4>1. child[k] \in Child
        BY ChildrenType DEF ServerInv
      <4> QED
        BY <1>2, <4>1 DEF ResetLogsOut, Keeps, Child
    <3> QED
      BY <3>1, <3>2 DEF ChildrenKeep
  <2>2. /\ UNCHANGED <<queue, epoch, vault, issued>>
        /\ reset.at = "logout" /\ reset'.at = "closing" /\ reset'.upTo = reset.upTo
    BY <1>1, <1>2 DEF ResetLogsOut
  <2> QED
    BY <1>1, <2>1, <2>2, AskingKeeps, KeepsForgotten DEF VaultKeeps
<1>3. CASE ResetClears
  <2>1. /\ queue' = Append(queue, ClearOp) /\ ClearOp.kind = "clear" /\ ClearOp.value = 0
        /\ UNCHANGED <<child, epoch, vault, issued>>
        /\ reset.at = "closing" /\ reset'.at = "clearing" /\ reset'.upTo = reset.upTo
    BY <1>1, <1>3 DEF ResetClears, ClearOp
  <2> DEFINE op == ClearOp
  <2>2. op.kind = "clear" /\ op.value = 0 /\ queue' = Append(queue, op)
    BY <2>1
  <2> HIDE DEF op
  <2>3. /\ \A i \in DOMAIN queue' : (i \in DOMAIN queue /\ queue'[i] = queue[i]) \/ queue'[i] = op
        /\ \E i \in DOMAIN queue' : queue'[i] = op
    BY <1>1, <2>2
  <2>4. QueueKeeps /\ IsClearing'
    BY <2>2, <2>3 DEF QueueKeeps, IsClearing
  <2> QED
    BY <1>1, <2>1, <2>4, SameChildren, KeepsForgotten DEF VaultKeeps
<1>4. CASE ResetEnds
  <2>1. /\ UNCHANGED <<child, queue, epoch, vault, issued>>
        /\ reset.at = "clearing" /\ reset'.at = "done" /\ reset'.upTo = reset.upTo
        /\ reset'.ok = reset.ok
    BY <1>1, <1>4 DEF ResetEnds
  <2>2. Children' = Children /\ (IsClearing' <=> IsClearing) /\ \A k \in Children : IsRelic(k)' <=> IsRelic(k)
    BY <2>1 DEF Children, IsClearing, IsRelic
  <2>3. IsForgotten => IsForgotten'
    BY <2>1, <2>2 DEF IsForgotten, IsFresh
  <2> QED
    BY <2>1, <2>2, <2>3 DEF ForgetInv
<1> QED
  BY <1>2, <1>3, <1>4 DEF Reset

\* Each step keeps it.
LEMMA ForgetInvStep ==
  ASSUME ServerInv, ServerInv', ForgetInv, [Next]_vars
  PROVE  ForgetInv'
<1>1. issued \in Nat
  BY DEF ServerInv, TypeInv
<1>2. ASSUME NEW c \in Calls, Enter(c) \/ Caller(c) \/ Unresponsive(c)
      PROVE  ForgetInv'
  BY <1>1, <1>2, CallKeeps, KeepsForgotten DEF VaultKeeps
<1>3. CASE CloseBegins \/ CloseEnds \/ UNCHANGED vars
  <2>1. UNCHANGED <<child, queue, epoch, vault, issued, reset>>
    BY <1>3 DEF CloseBegins, CloseEnds, vars
  <2> QED
    BY <1>1, <2>1, SameChildren, AskingKeeps, KeepsForgotten DEF VaultKeeps
<1>4. CASE CloseProceeds
  <2>1. UNCHANGED <<epoch, vault, issued, reset>> /\ CloseActive(TRUE, "closed")
    BY <1>4 DEF CloseProceeds
  <2>2. ChildrenKeep /\ QueueKeeps /\ (IsClearing => IsClearing')
    BY <2>1, CloseActiveKeeps
  <2>3. VaultKeeps
    BY <2>1, <2>2 DEF VaultKeeps
  <2>4. issued' >= issued
    BY <1>1, <2>1
  <2> QED
    BY <2>1, <2>2, <2>3, <2>4, KeepsForgotten
<1> QED
  BY <1>2, <1>3, <1>4, ProcessForgets, PrepareForgets, VaultForgets, ResetBeginsForgets,
     ResetForgetsStep DEF Next, Vault, Close

\* After a reset that reported success the vault holds nothing of the old epoch, and
\* a credential issued before it only if a process of the new epoch started with one.
THEOREM ResetIsForgetful == Spec => []ResetForgets
<1>1. Init => ForgetInv
  BY DEF Init, ForgetInv, Children
<1>2. ServerInv /\ ServerInv' /\ ForgetInv /\ [Next]_vars => ForgetInv'
  BY ForgetInvStep
<1>3. ServerInv /\ ForgetInv => ResetForgets
  <2> SUFFICES ASSUME ServerInv, ForgetInv, reset.at = "done", reset.ok, vault # 0
               PROVE  writer = epoch /\ (vault > reset.upTo \/ \E k \in Children : IsRelic(k))
    BY DEF ResetForgets
  <2>1. ~IsClearing
    BY ResetIsQueued DEF ServerInv, EpochInv
  <2> QED
    BY <2>1 DEF ServerInv, EpochInv, ForgetInv, IsForgotten, IsFresh
<1> QED
  BY <1>1, <1>2, <1>3, ServerInvariant, PTL DEF Spec

=============================================================================
