-------------------------- MODULE OwnerAccessProofs --------------------------
(***************************************************************************)
(* Proofs about the owner's sign-in, for every set of processes, browsers, *)
(* configurations, accounts and callbacks, and for every bound.            *)
(***************************************************************************)
EXTENDS OwnerAccess, TLAPS

TransactionRecord ==
  [flow : Flows, browser : Browsers, revocation : Nat, status : {"pending", "claimed"},
   claim : Callbacks \union {None}]

SessionRecord == [flow : Flows, browser : Browsers]

CookieRecord == [flow : Flows, generation : Configurations, revocation : Nat]

CallbackRecord ==
  [process : Processes, browser : Browsers, flow : Flows, cookie : CookieRecord \union {None}]

FlowRecord ==
  [browser : Browsers \union {None}, generation : Configurations \union {None}, epoch : Nat,
   exchanges : Nat, subject : Subjects \union {None}]

RowRecord ==
  [generation : Configurations \union {None}, revocation : Nat, owner : Subjects \union {None},
   sessions : SUBSET SessionRecord, transactions : SUBSET TransactionRecord]

RowTypeOK ==
  /\ row \in RowRecord
  /\ row.generation = None =>
       row.owner = None /\ row.sessions = {} /\ row.transactions = {}

TypeOK ==
  /\ RowTypeOK
  /\ activated \in [Processes -> BOOLEAN]
  /\ jar \in [Browsers -> [flow : Flows \union {0}, session : CookieRecord \union {None}]]
  /\ callback \in [Callbacks -> CallbackRecord \union {None}]
  /\ flow \in [Flows -> FlowRecord]
  /\ epoch \in Nat

\* What the row keeps was begun in the present epoch, and a transaction is the only one
\* of its flow, unspent as long as it is pending.
LiveInv ==
  /\ \A s \in row.sessions : flow[s.flow].epoch = epoch
  /\ \A t \in row.transactions :
       /\ flow[t.flow] # NoFlow
       /\ flow[t.flow].epoch = epoch
       /\ t.status = "pending" => flow[t.flow].exchanges = 0
  /\ \A t, u \in row.transactions : t.flow = u.flow => t = u
  /\ \A f \in Flows : flow[f].exchanges <= 1

AccessInv == TypeOK /\ LiveInv

\* The row was written by a process of the site, and its owner is the account of every
\* session ever granted.
OwnerInv ==
  /\ row.generation # None => \E p \in Processes : row.generation = Config[p]
  /\ \A f \in Flows : flow[f].subject # None => row.owner = flow[f].subject

\* All the processes of the site, the replaced ones and their successors, have been
\* configured with one owner's address.
OneIdentity == \A p, q \in Processes : Identity[Config[p]] = Identity[Config[q]]

-----------------------------------------------------------------------------
\* What a process finds in the row, or starts from, holds no more than the row does, and
\* nothing at all when the row is of another configuration.
LEMMA StateForKeeps ==
  ASSUME TypeOK, NEW p \in Processes
  PROVE  /\ StateFor(p) \in RowRecord
         /\ StateFor(p).generation = Config[p]
         /\ Config[p] \in Configurations
         /\ StateFor(p).sessions \subseteq row.sessions
         /\ StateFor(p).transactions \subseteq row.transactions
         /\ row.generation # Config[p] => StateFor(p).sessions = {} /\ StateFor(p).transactions = {}
         /\ Foreign(p) => row.generation # Config[p]
<1>1. Config[p] \in Configurations
  BY AccessAssumption
<1>2. CASE row.generation = Config[p]
  BY <1>1, <1>2 DEF StateFor, TypeOK, RowTypeOK, RowRecord, Foreign
<1>3. CASE row.generation # Config[p]
  <2>1. StateFor(p) = Fresh(p)
    BY <1>3 DEF StateFor
  <2>2. Fresh(p) \in RowRecord /\ Fresh(p).sessions = {} /\ Fresh(p).transactions = {}
        /\ Fresh(p).generation = Config[p]
    BY <1>1 DEF Fresh, TypeOK, RowTypeOK, RowRecord
  <2> QED
    BY <1>1, <1>3, <2>1, <2>2
<1> QED
  BY <1>2, <1>3

\* A row of a configuration, whose grants are among those of the row before, keeps the invariant.
LEMMA FewerGrants ==
  ASSUME AccessInv,
         row' \in RowRecord, row'.generation # None,
         row'.sessions \subseteq row.sessions, row'.transactions \subseteq row.transactions,
         flow' = flow, epoch' = epoch
  PROVE  RowTypeOK' /\ LiveInv'
BY DEF AccessInv, TypeOK, LiveInv, RowTypeOK

\* The invariant holds of an owner who has not signed in yet.
LEMMA AccessInvInit == Init => AccessInv
BY AccessAssumption
DEF Init, AccessInv, TypeOK, LiveInv, RowTypeOK, RowRecord, NoFlow, FlowRecord, Flows

\* A sign-in that begins adds the only transaction of a flow nobody has used.
LEMMA StartKeeps ==
  ASSUME AccessInv, NEW p \in Processes, NEW b \in Browsers, NEW f \in Flows, Start(p, b, f)
  PROVE  AccessInv'
<1> DEFINE t == [flow |-> f, browser |-> b, revocation |-> StateFor(p).revocation,
                 status |-> "pending", claim |-> None]
           new == [NoFlow EXCEPT !.browser = b, !.generation = Config[p], !.epoch = epoch']
<1>0. TypeOK
  BY DEF AccessInv
<1>1. /\ row' = [StateFor(p) EXCEPT !.transactions = @ \union {t}]
      /\ flow' = [flow EXCEPT ![f] = new]
      /\ flow[f] = NoFlow
      /\ activated' = [activated EXCEPT ![p] = TRUE]
      /\ jar' = [jar EXCEPT ![b].flow = f]
      /\ callback' = callback
  BY DEF Start
<1>2. /\ epoch' \in Nat
      /\ Foreign(p) \/ epoch' = epoch
      /\ Foreign(p) => StateFor(p).sessions = {} /\ StateFor(p).transactions = {}
  BY <1>0, StateForKeeps DEF Start, TypeOK
<1>3. t \in TransactionRecord
  BY <1>0, StateForKeeps DEF TransactionRecord, RowRecord
<1>4. /\ row' \in RowRecord
      /\ row'.sessions = StateFor(p).sessions
      /\ row'.transactions = StateFor(p).transactions \union {t}
      /\ row'.generation \in Configurations
  BY <1>0, <1>1, <1>3, StateForKeeps DEF RowRecord
<1>5. /\ new \in FlowRecord
      /\ new # NoFlow
      /\ new.epoch = epoch'
      /\ new.exchanges = 0
  BY <1>0, <1>2, StateForKeeps, AccessAssumption DEF NoFlow, FlowRecord
<1>6. t.flow = f /\ t.status = "pending"
  OBVIOUS
<1> HIDE DEF t, new
<1>7. /\ flow' \in [Flows -> FlowRecord]
      /\ flow'[f] = new
      /\ \A g \in Flows \ {f} : flow'[g] = flow[g]
  BY <1>0, <1>1, <1>5 DEF TypeOK
<1>8. TypeOK'
  <2>1. jar' \in [Browsers -> [flow : Flows \union {0}, session : CookieRecord \union {None}]]
    BY <1>0, <1>1 DEF TypeOK
  <2> QED
    BY <1>0, <1>1, <1>2, <1>4, <1>7, <2>1, AccessAssumption DEF TypeOK, RowTypeOK
<1>9. \A x \in row'.transactions : x # t => x \in row.transactions /\ x.flow # f /\ x.flow \in Flows
  <2>1. StateFor(p).transactions \subseteq row.transactions
    BY <1>0, StateForKeeps
  <2>2. \A x \in row.transactions : x.flow \in Flows /\ flow[x.flow] # NoFlow
    BY <1>0 DEF AccessInv, LiveInv, TypeOK, RowTypeOK, RowRecord, TransactionRecord
  <2> QED
    BY <1>1, <1>4, <2>1, <2>2
<1>10. \A x \in row.sessions : x.flow \in Flows
  BY <1>0 DEF TypeOK, RowTypeOK, RowRecord, SessionRecord
<1>11. LiveInv'
  <2>1. \A s \in row'.sessions : flow'[s.flow].epoch = epoch'
    <3> SUFFICES ASSUME NEW s \in row'.sessions
                 PROVE  flow'[s.flow].epoch = epoch'
      OBVIOUS
    <3>1. s \in row.sessions /\ epoch' = epoch
      BY <1>0, <1>2, <1>4, StateForKeeps
    <3> QED
      BY <3>1, <1>5, <1>7, <1>10 DEF AccessInv, LiveInv
  <2>2. \A x \in row'.transactions :
          /\ flow'[x.flow] # NoFlow
          /\ flow'[x.flow].epoch = epoch'
          /\ x.status = "pending" => flow'[x.flow].exchanges = 0
    <3> SUFFICES ASSUME NEW x \in row'.transactions, x # t
                 PROVE  /\ flow'[x.flow] # NoFlow
                        /\ flow'[x.flow].epoch = epoch'
                        /\ x.status = "pending" => flow'[x.flow].exchanges = 0
      BY <1>5, <1>6, <1>7
    <3>1. epoch' = epoch
      BY <1>0, <1>2, <1>4
    <3> QED
      BY <3>1, <1>7, <1>9 DEF AccessInv, LiveInv
  <2>3. \A x, y \in row'.transactions : x.flow = y.flow => x = y
    BY <1>6, <1>9 DEF AccessInv, LiveInv
  <2>4. \A g \in Flows : flow'[g].exchanges <= 1
    BY <1>5, <1>7 DEF AccessInv, LiveInv
  <2> QED
    BY <2>1, <2>2, <2>3, <2>4 DEF LiveInv
<1> QED
  BY <1>8, <1>11 DEF AccessInv

\* A claim turns a pending transaction, unspent, into a claimed one that is spent.
LEMMA ClaimKeeps ==
  ASSUME AccessInv, NEW c \in Callbacks, NEW p \in Processes, NEW b \in Browsers, Claim(c, p, b)
  PROVE  AccessInv'
<1>0. TypeOK
  BY DEF AccessInv
<1>1. PICK t \in Claimable(p, b) :
        /\ row' = [row EXCEPT !.transactions = (@ \ {t}) \union {[t EXCEPT !.status = "claimed", !.claim = c]}]
        /\ callback' = [callback EXCEPT ![c] =
                          [process |-> p, browser |-> b, flow |-> t.flow, cookie |-> jar[b].session]]
        /\ flow' = [flow EXCEPT ![t.flow].exchanges = @ + 1]
  BY DEF Claim
<1>2. /\ activated' = [activated EXCEPT ![p] = TRUE]
      /\ jar' = jar
      /\ epoch' = epoch
  BY DEF Claim
<1>3. /\ t \in row.transactions
      /\ t \in TransactionRecord
      /\ t.flow \in Flows
      /\ t.status = "pending"
      /\ flow[t.flow].exchanges = 0
      /\ flow[t.flow] # NoFlow
      /\ flow[t.flow] \in FlowRecord
      /\ flow[t.flow].epoch = epoch
      /\ row.generation # None
  BY <1>0 DEF Claimable, AccessInv, LiveInv, TypeOK, RowTypeOK, RowRecord, TransactionRecord
<1> DEFINE u == [t EXCEPT !.status = "claimed", !.claim = c]
           spent == [flow[t.flow] EXCEPT !.exchanges = @ + 1]
<1>4. u \in TransactionRecord /\ u.flow = t.flow /\ u.status = "claimed"
  BY <1>3 DEF TransactionRecord
<1>5. /\ spent \in FlowRecord
      /\ spent # NoFlow
      /\ spent.epoch = epoch
      /\ spent.exchanges = 1
  BY <1>3 DEF FlowRecord, NoFlow
<1>6. /\ row' \in RowRecord
      /\ row'.generation = row.generation
      /\ row'.sessions = row.sessions
      /\ row'.transactions = (row.transactions \ {t}) \union {u}
  <2> HIDE DEF u
  <2>1. row' = [row EXCEPT !.transactions = (@ \ {t}) \union {u}]
    BY <1>1 DEF u
  <2> QED
    BY <2>1, <1>0, <1>4 DEF TypeOK, RowTypeOK, RowRecord
<1>7. flow' = [flow EXCEPT ![t.flow] = spent]
  BY <1>0, <1>1, <1>3 DEF TypeOK
<1> HIDE DEF u, spent
<1>8. /\ flow' \in [Flows -> FlowRecord]
      /\ flow'[t.flow] = spent
      /\ \A g \in Flows \ {t.flow} : flow'[g] = flow[g]
  BY <1>0, <1>3, <1>5, <1>7 DEF TypeOK
<1>9. TypeOK'
  <2>1. [process |-> p, browser |-> b, flow |-> t.flow, cookie |-> jar[b].session] \in CallbackRecord
    BY <1>0, <1>3 DEF TypeOK, CallbackRecord
  <2>2. callback' \in [Callbacks -> CallbackRecord \union {None}]
    BY <1>0, <1>1, <2>1 DEF TypeOK
  <2> QED
    BY <1>0, <1>2, <1>3, <1>6, <1>8, <2>2 DEF TypeOK, RowTypeOK
<1>10. \A x \in row'.transactions : x # u => x \in row.transactions /\ x.flow # t.flow /\ x.flow \in Flows
  <2>1. \A x \in row.transactions : x.flow \in Flows
    BY <1>0 DEF TypeOK, RowTypeOK, RowRecord, TransactionRecord
  <2> QED
    BY <1>3, <1>6, <2>1 DEF AccessInv, LiveInv
<1>11. \A x \in row.sessions : x.flow \in Flows
  BY <1>0 DEF TypeOK, RowTypeOK, RowRecord, SessionRecord
<1>12. LiveInv'
  <2>1. \A s \in row'.sessions : flow'[s.flow].epoch = epoch'
    BY <1>2, <1>5, <1>6, <1>8, <1>11 DEF AccessInv, LiveInv
  <2>2. \A x \in row'.transactions :
          /\ flow'[x.flow] # NoFlow
          /\ flow'[x.flow].epoch = epoch'
          /\ x.status = "pending" => flow'[x.flow].exchanges = 0
    BY <1>2, <1>4, <1>5, <1>8, <1>10 DEF AccessInv, LiveInv
  <2>3. \A x, y \in row'.transactions : x.flow = y.flow => x = y
    BY <1>4, <1>10 DEF AccessInv, LiveInv
  <2>4. \A g \in Flows : flow'[g].exchanges <= 1
    BY <1>5, <1>8 DEF AccessInv, LiveInv
  <2> QED
    BY <2>1, <2>2, <2>3, <2>4 DEF LiveInv
<1> QED
  BY <1>9, <1>12 DEF AccessInv

\* Google's answer, while the claimed transaction is still there, is a session of its flow.
LEMMA GrantKeeps ==
  ASSUME AccessInv, NEW c \in Callbacks, NEW subject \in Subjects \union {None}, Grant(c, subject)
  PROVE  AccessInv'
<1> DEFINE p == callback[c].process
           found == Found(c, StateFor(p))
           state == [StateFor(p) EXCEPT !.transactions = @ \ found]
           s == [flow |-> callback[c].flow, browser |-> callback[c].browser]
<1>0. TypeOK
  BY DEF AccessInv
<1>1. /\ callback[c] \in CallbackRecord
      /\ p \in Processes /\ callback[c].browser \in Browsers /\ callback[c].flow \in Flows
  BY <1>0 DEF Grant, TypeOK, CallbackRecord
<1>2. /\ StateFor(p) \in RowRecord
      /\ StateFor(p).generation = Config[p]
      /\ Config[p] \in Configurations
      /\ StateFor(p).sessions \subseteq row.sessions
      /\ StateFor(p).transactions \subseteq row.transactions
  BY <1>0, <1>1, StateForKeeps
<1>3. /\ state \in RowRecord
      /\ state.generation = Config[p]
      /\ state.revocation \in Nat
      /\ state.sessions = StateFor(p).sessions
      /\ state.transactions \subseteq row.transactions
  BY <1>2 DEF RowRecord
<1>4. /\ found # {}
      /\ subject \in Subjects
      /\ row' = [state EXCEPT !.owner = subject, !.sessions = Retained(c, state) \union {s}]
      /\ flow' = [flow EXCEPT ![callback[c].flow].subject = subject]
      /\ jar' = [jar EXCEPT ![callback[c].browser] =
                   [flow |-> 0, session |-> [flow |-> callback[c].flow, generation |-> Config[p],
                                             revocation |-> state.revocation]]]
      /\ callback' = [callback EXCEPT ![c] = None]
      /\ activated' = [activated EXCEPT ![p] = TRUE]
      /\ epoch' = epoch
  BY DEF Grant, IsOwner
<1>5. \E t \in row.transactions : t.flow = callback[c].flow
  BY <1>2, <1>4 DEF Found
<1>6. /\ flow[callback[c].flow].epoch = epoch
      /\ flow[callback[c].flow] # NoFlow
      /\ flow[callback[c].flow] \in FlowRecord
  BY <1>0, <1>1, <1>5 DEF AccessInv, LiveInv, TypeOK
<1>7. s \in SessionRecord /\ s.flow = callback[c].flow
  BY <1>1 DEF SessionRecord
<1>8. Retained(c, state) \subseteq row.sessions
  BY <1>2, <1>3 DEF Retained
<1> HIDE DEF state, s, found
<1>9. /\ row' \in RowRecord
      /\ row'.generation = Config[p]
      /\ row'.sessions = Retained(c, state) \union {s}
      /\ row'.transactions = state.transactions
  BY <1>0, <1>3, <1>4, <1>7, <1>8 DEF RowRecord, TypeOK, RowTypeOK
<1> DEFINE granted == [flow[callback[c].flow] EXCEPT !.subject = subject]
<1>10. /\ granted \in FlowRecord
       /\ granted # NoFlow
       /\ granted.epoch = flow[callback[c].flow].epoch
       /\ granted.exchanges = flow[callback[c].flow].exchanges
  BY <1>4, <1>6, AccessAssumption DEF FlowRecord, NoFlow
<1>11. flow' = [flow EXCEPT ![callback[c].flow] = granted]
  BY <1>0, <1>1, <1>4 DEF TypeOK
<1> HIDE DEF granted
<1>12. /\ flow' \in [Flows -> FlowRecord]
       /\ flow'[callback[c].flow] = granted
       /\ \A g \in Flows \ {callback[c].flow} : flow'[g] = flow[g]
  BY <1>0, <1>1, <1>10, <1>11 DEF TypeOK
<1>13. TypeOK'
  <2>1. [flow |-> callback[c].flow, generation |-> Config[p], revocation |-> state.revocation] \in CookieRecord
    BY <1>1, <1>2, <1>3 DEF CookieRecord
  <2>2. jar' \in [Browsers -> [flow : Flows \union {0}, session : CookieRecord \union {None}]]
    BY <1>0, <1>1, <1>4, <2>1 DEF TypeOK
  <2> QED
    BY <1>0, <1>2, <1>4, <1>9, <1>12, <2>2, AccessAssumption DEF TypeOK, RowTypeOK
<1>14. \A x \in row.sessions \union row.transactions : x.flow \in Flows
  BY <1>0 DEF TypeOK, RowTypeOK, RowRecord, SessionRecord, TransactionRecord
<1>15. LiveInv'
  <2>1. \A x \in row'.sessions : flow'[x.flow].epoch = epoch'
    BY <1>4, <1>6, <1>7, <1>8, <1>9, <1>10, <1>12, <1>14 DEF AccessInv, LiveInv
  <2>2. \A x \in row'.transactions :
          /\ flow'[x.flow] # NoFlow
          /\ flow'[x.flow].epoch = epoch'
          /\ x.status = "pending" => flow'[x.flow].exchanges = 0
    BY <1>3, <1>4, <1>6, <1>9, <1>10, <1>12, <1>14 DEF AccessInv, LiveInv
  <2>3. \A x, y \in row'.transactions : x.flow = y.flow => x = y
    BY <1>3, <1>9 DEF AccessInv, LiveInv
  <2>4. \A g \in Flows : flow'[g].exchanges <= 1
    BY <1>10, <1>12 DEF AccessInv, LiveInv
  <2> QED
    BY <2>1, <2>2, <2>3, <2>4 DEF LiveInv
<1> QED
  BY <1>13, <1>15 DEF AccessInv

\* The other steps add no grant to the row.
LEMMA OtherStepsKeep ==
  ASSUME AccessInv, [Next]_vars,
         ~ \E p \in Processes, b \in Browsers :
             \/ \E f \in Flows : Start(p, b, f)
             \/ \E c \in Callbacks : Claim(c, p, b),
         ~ \E c \in Callbacks, s \in Subjects \union {None} : Grant(c, s)
  PROVE  AccessInv'
<1>0. TypeOK
  BY DEF AccessInv
<1>1. ASSUME NEW p \in Processes, NEW b \in Browsers, Spend(p, b)
      PROVE  AccessInv'
  <2>1. PICK t \in Claimable(p, b) : row' = [row EXCEPT !.transactions = @ \ {t}]
    BY <1>1 DEF Spend
  <2>2. /\ row' \in RowRecord /\ row'.generation = row.generation
        /\ row'.sessions = row.sessions /\ row'.transactions \subseteq row.transactions
        /\ row.generation # None
    BY <1>0, <2>1 DEF Claimable, TypeOK, RowTypeOK, RowRecord
  <2>3. RowTypeOK' /\ LiveInv'
    BY <1>1, <2>2, FewerGrants DEF Spend
  <2>4. jar' \in [Browsers -> [flow : Flows \union {0}, session : CookieRecord \union {None}]]
    BY <1>0, <1>1 DEF Spend, TypeOK
  <2> QED
    BY <1>0, <1>1, <2>3, <2>4 DEF Spend, TypeOK, AccessInv
<1>2. ASSUME NEW p \in Processes, NEW b \in Browsers, TurnAway(p, b)
      PROVE  AccessInv'
  <2>1. jar' \in [Browsers -> [flow : Flows \union {0}, session : CookieRecord \union {None}]]
    BY <1>0, <1>2 DEF TurnAway, TypeOK
  <2> QED
    BY <1>0, <1>2, <2>1 DEF TurnAway, AccessInv, TypeOK, RowTypeOK, LiveInv
<1>3. ASSUME NEW c \in Callbacks, NEW subject \in Subjects \union {None}, Refuse(c, subject)
      PROVE  AccessInv'
  <2> DEFINE p == callback[c].process
  <2>1. callback[c] \in CallbackRecord /\ p \in Processes /\ callback[c].browser \in Browsers
    BY <1>0, <1>3 DEF Refuse, TypeOK, CallbackRecord
  <2>2. jar' \in [Browsers -> [flow : Flows \union {0}, session : CookieRecord \union {None}]]
    BY <1>0, <1>3, <2>1 DEF Refuse, TypeOK
  <2>3. RowTypeOK' /\ LiveInv'
    <3>1. CASE UNCHANGED row
      BY <1>0, <1>3, <3>1 DEF Refuse, AccessInv, TypeOK, RowTypeOK, LiveInv
    <3>2. CASE row' = [StateFor(p) EXCEPT !.transactions = @ \ Found(c, StateFor(p))]
      <4>1. /\ row' \in RowRecord /\ row'.generation = Config[p] /\ Config[p] \in Configurations
            /\ row'.sessions \subseteq row.sessions /\ row'.transactions \subseteq row.transactions
        BY <1>0, <2>1, <3>2, StateForKeeps DEF RowRecord
      <4> QED
        BY <1>3, <4>1, FewerGrants, AccessAssumption DEF Refuse
    <3> QED  BY <1>3, <3>1, <3>2 DEF Refuse
  <2> QED
    BY <1>0, <1>3, <2>2, <2>3 DEF Refuse, TypeOK, AccessInv
<1>4. ASSUME NEW c \in Callbacks, Abandon(c)
      PROVE  AccessInv'
  BY <1>0, <1>4 DEF Abandon, AccessInv, TypeOK, RowTypeOK, LiveInv
<1>5. ASSUME NEW p \in Processes, NEW b \in Browsers, SignOut(p, b)
      PROVE  AccessInv'
  <2>1. jar' \in [Browsers -> [flow : Flows \union {0}, session : CookieRecord \union {None}]]
    BY <1>0, <1>5 DEF SignOut, TypeOK
  <2>2. activated' \in [Processes -> BOOLEAN]
    BY <1>0, <1>5 DEF SignOut, TypeOK, IsStale, Foreign
  <2>3. RowTypeOK' /\ LiveInv'
    <3>1. CASE UNCHANGED row
      BY <1>0, <1>5, <3>1 DEF SignOut, AccessInv, TypeOK, RowTypeOK, LiveInv
    <3>2. CASE row' = [StateFor(p) EXCEPT
                         !.sessions = @ \ SessionsIn(p, jar[b].session, StateFor(p))]
      <4>1. /\ row' \in RowRecord /\ row'.generation = Config[p] /\ Config[p] \in Configurations
            /\ row'.sessions \subseteq row.sessions /\ row'.transactions \subseteq row.transactions
        BY <1>0, <3>2, StateForKeeps DEF RowRecord
      <4> QED
        BY <1>5, <4>1, FewerGrants, AccessAssumption DEF SignOut
    <3> QED  BY <1>5, <3>1, <3>2 DEF SignOut
  <2> QED
    BY <1>0, <1>5, <2>1, <2>2, <2>3 DEF SignOut, TypeOK, AccessInv
<1>6. ASSUME NEW p \in Processes, NEW b \in Browsers, RevokeAll(p, b)
      PROVE  AccessInv'
  <2>1. jar' \in [Browsers -> [flow : Flows \union {0}, session : CookieRecord \union {None}]]
    BY <1>0, <1>6 DEF RevokeAll, TypeOK
  <2>2. row' \in RowRecord /\ row'.sessions = {} /\ row'.transactions = {}
        /\ row'.generation = row.generation /\ row'.owner = row.owner
    <3>1. row.revocation + 1 \in Nat /\ row \in RowRecord
      BY <1>0 DEF TypeOK, RowTypeOK, RowRecord
    <3> DEFINE next == row.revocation + 1
    <3>2. row' = [row EXCEPT !.revocation = next, !.sessions = {}, !.transactions = {}]
      BY <1>6 DEF RevokeAll
    <3> HIDE DEF next
    <3>3. next \in Nat
      BY <3>1 DEF next
    <3> QED
      BY <3>1, <3>2, <3>3 DEF RowRecord
  <2> QED
    BY <1>0, <1>6, <2>1, <2>2 DEF RevokeAll, TypeOK, RowTypeOK, AccessInv, LiveInv
<1>7. CASE Lapse
  <2>1. /\ row' \in RowRecord /\ row'.generation = row.generation /\ row.generation # None
        /\ row'.sessions \subseteq row.sessions /\ row'.transactions \subseteq row.transactions
    BY <1>0, <1>7 DEF Lapse, TypeOK, RowTypeOK, RowRecord
  <2>2. RowTypeOK' /\ LiveInv'
    BY <1>7, <2>1, FewerGrants DEF Lapse
  <2> QED
    BY <1>0, <1>7, <2>2 DEF Lapse, TypeOK, AccessInv
<1>8. ASSUME NEW p \in Processes, Restart(p)
      PROVE  AccessInv'
  BY <1>0, <1>8 DEF Restart, AccessInv, TypeOK, RowTypeOK, LiveInv
<1>9. CASE UNCHANGED vars
  BY <1>0, <1>9 DEF vars, AccessInv, TypeOK, RowTypeOK, LiveInv
<1> QED
  BY <1>1, <1>2, <1>3, <1>4, <1>5, <1>6, <1>7, <1>8, <1>9 DEF Next

\* Every step keeps the invariant.
LEMMA AccessInvStep == AccessInv /\ [Next]_vars => AccessInv'
BY StartKeeps, ClaimKeeps, GrantKeeps, OtherStepsKeep

\* It always holds.
LEMMA AccessInvHolds == Spec => []AccessInv
BY AccessInvInit, AccessInvStep, PTL DEF Spec

-----------------------------------------------------------------------------
\* Nothing a browser holds is accepted that comes from a sign-in begun before the last
\* revocation or change of configuration: a session in the row is of the present epoch,
\* because the transaction it came from was (revokeAll, transact, finish).
THEOREM RevocationTotal == Spec => []RevocationIsTotal
<1>1. AccessInv => RevocationIsTotal
  <2> SUFFICES ASSUME AccessInv, NEW p \in Processes, NEW b \in Browsers,
                      Admits(p, jar[b].session)
               PROVE  flow[jar[b].session.flow].epoch = epoch
    BY DEF RevocationIsTotal
  <2>1. PICK s \in StateFor(p).sessions : jar[b].session.flow = s.flow
    BY DEF Admits, SessionsIn
  <2>2. s \in row.sessions
    BY <2>1, StateForKeeps DEF AccessInv
  <2> QED
    BY <2>1, <2>2 DEF AccessInv, LiveInv
<1> QED
  BY <1>1, AccessInvHolds, PTL

\* However many callbacks arrive, and at whichever process, the verifier of a sign-in goes
\* to Google at most once: the claim is committed before the exchange (finish).
THEOREM VerifierOnce == Spec => []VerifierUsedOnce
<1>1. AccessInv => VerifierUsedOnce
  BY DEF AccessInv, LiveInv, VerifierUsedOnce
<1> QED
  BY <1>1, AccessInvHolds, PTL

-----------------------------------------------------------------------------
\* Under one owner's address no process forgets the owner the row names.
LEMMA OwnerIsRemembered ==
  ASSUME OneIdentity, TypeOK, OwnerInv, NEW p \in Processes
  PROVE  StateFor(p).owner = row.owner
<1>1. CASE Foreign(p)
  <2>1. PICK q \in Processes : row.generation = Config[q]
    BY <1>1 DEF OwnerInv, Foreign
  <2> QED
    BY <1>1, <2>1 DEF OneIdentity, StateFor, Fresh
<1>2. CASE ~Foreign(p)
  BY <1>2 DEF Foreign, StateFor, Fresh, TypeOK, RowTypeOK
<1> QED
  BY <1>1, <1>2

\* The owner and the sessions granted agree after every step.
LEMMA OwnerInvStep ==
  ASSUME OneIdentity, AccessInv, OwnerInv, [Next]_vars
  PROVE  OwnerInv'
<1>0. TypeOK
  BY DEF AccessInv
<1> DEFINE SameOwner == /\ row'.owner = row.owner
                        /\ row'.generation # None => \E p \in Processes : row'.generation = Config[p]
<1>1. ASSUME SameOwner, \A f \in Flows : flow'[f].subject \in {None, flow[f].subject}
      PROVE  OwnerInv'
  BY <1>1 DEF OwnerInv
<1>2. ASSUME NEW p \in Processes, NEW b \in Browsers, NEW f \in Flows, Start(p, b, f)
      PROVE  OwnerInv'
  <2>1. row'.generation = Config[p] /\ row'.owner = row.owner
    BY <1>0, <1>2, StateForKeeps, OwnerIsRemembered DEF Start, RowRecord
  <2>2. \A g \in Flows : flow'[g].subject \in {None, flow[g].subject}
    BY <1>0, <1>2 DEF Start, NoFlow, TypeOK
  <2> QED
    BY <1>1, <2>1, <2>2
<1>3. ASSUME NEW c \in Callbacks, NEW p \in Processes, NEW b \in Browsers, Claim(c, p, b)
      PROVE  OwnerInv'
  <2>1. row'.generation = row.generation /\ row'.owner = row.owner
    BY <1>0, <1>3 DEF Claim, TypeOK, RowTypeOK, RowRecord
  <2>2. \A g \in Flows : flow'[g].subject = flow[g].subject
    <3>1. PICK t \in Claimable(p, b) : flow' = [flow EXCEPT ![t.flow].exchanges = @ + 1]
      BY <1>3 DEF Claim
    <3>2. \A g \in Flows : flow[g] \in FlowRecord
      BY <1>0 DEF TypeOK
    <3> QED
      BY <1>0, <3>1, <3>2 DEF TypeOK, FlowRecord
  <2> QED
    BY <1>1, <2>1, <2>2 DEF OwnerInv
<1>4. ASSUME NEW c \in Callbacks, NEW s \in Subjects \union {None}, Grant(c, s)
      PROVE  OwnerInv'
  <2> DEFINE p == callback[c].process
             state == [StateFor(p) EXCEPT !.transactions = @ \ Found(c, StateFor(p))]
  <2>1. p \in Processes /\ callback[c].flow \in Flows
    BY <1>0, <1>4 DEF Grant, TypeOK, CallbackRecord
  <2>2. StateFor(p) \in RowRecord /\ StateFor(p).generation = Config[p]
        /\ StateFor(p).owner = row.owner
    BY <1>0, <2>1, StateForKeeps, OwnerIsRemembered
  <2>3. state \in RowRecord /\ state.generation = Config[p] /\ state.owner = row.owner
    BY <2>2 DEF RowRecord
  <2>4. /\ s # None
        /\ state.owner \in {None, s}
        /\ flow' = [flow EXCEPT ![callback[c].flow].subject = s]
        /\ \E sessions : row' = [state EXCEPT !.owner = s, !.sessions = sessions]
    BY <1>4 DEF Grant, IsOwner
  <2> HIDE DEF state
  <2>5. row'.owner = s /\ row'.generation = Config[p]
    BY <2>3, <2>4 DEF RowRecord
  <2>6. \A g \in Flows : flow'[g].subject \in {flow[g].subject, s}
    <3>1. \A g \in Flows : flow[g] \in FlowRecord
      BY <1>0 DEF TypeOK
    <3> QED
      BY <1>0, <2>1, <2>4, <3>1 DEF TypeOK, FlowRecord
  <2> QED
    BY <2>1, <2>3, <2>4, <2>5, <2>6 DEF OwnerInv
<1>5. ASSUME NEW p \in Processes, NEW b \in Browsers, Spend(p, b)
      PROVE  OwnerInv'
  BY <1>0, <1>1, <1>5 DEF Spend, OwnerInv, TypeOK, RowTypeOK, RowRecord
<1>6. ASSUME NEW c \in Callbacks, NEW s \in Subjects \union {None}, Refuse(c, s)
      PROVE  OwnerInv'
  <2>1. callback[c].process \in Processes
    BY <1>0, <1>6 DEF Refuse, TypeOK, CallbackRecord
  <2>2. SameOwner
    <3> DEFINE state == StateFor(callback[c].process)
    <3>1. /\ state \in RowRecord
          /\ state.generation = Config[callback[c].process]
          /\ state.owner = row.owner
      BY <1>0, <2>1, StateForKeeps, OwnerIsRemembered
    <3>2. UNCHANGED row \/ \E kept : row' = [state EXCEPT !.transactions = kept]
      BY <1>6 DEF Refuse
    <3> HIDE DEF state
    <3> QED
      BY <2>1, <3>1, <3>2 DEF RowRecord, OwnerInv
  <2> QED
    BY <1>1, <1>6, <2>2 DEF Refuse
<1>7. ASSUME NEW p \in Processes, NEW b \in Browsers, SignOut(p, b)
      PROVE  OwnerInv'
  <2>1. SameOwner
    BY <1>0, <1>7, StateForKeeps, OwnerIsRemembered DEF SignOut, RowRecord, OwnerInv
  <2> QED
    BY <1>1, <1>7, <2>1 DEF SignOut
<1>8. ASSUME NEW p \in Processes, NEW b \in Browsers, RevokeAll(p, b)
      PROVE  OwnerInv'
  <2>1. \E n : row' = [row EXCEPT !.revocation = n, !.sessions = {}, !.transactions = {}]
    BY <1>8 DEF RevokeAll
  <2>2. row'.generation = row.generation /\ row'.owner = row.owner
    BY <1>0, <2>1 DEF TypeOK, RowTypeOK, RowRecord
  <2> QED
    BY <1>1, <1>8, <2>2 DEF RevokeAll, OwnerInv
<1>9. CASE Lapse
  BY <1>0, <1>1, <1>9 DEF Lapse, OwnerInv, TypeOK, RowTypeOK, RowRecord
<1>10. CASE \/ \E p \in Processes, b \in Browsers : TurnAway(p, b)
            \/ \E c \in Callbacks : Abandon(c)
            \/ \E p \in Processes : Restart(p)
            \/ UNCHANGED vars
  BY <1>10 DEF TurnAway, Abandon, Restart, vars, OwnerInv
<1> QED
  BY <1>2, <1>3, <1>4, <1>5, <1>6, <1>7, <1>8, <1>9, <1>10 DEF Next

\* As long as the owner's address stays, the sessions ever granted belong to one Google
\* account, whatever else of the configuration changes (fresh(stored.owner) in transact).
THEOREM OneOwnerHolds ==
  ASSUME OneIdentity
  PROVE  Spec => []OneOwner
<1>1. Init => OwnerInv
  BY DEF Init, OwnerInv, NoFlow
<1>2. AccessInv /\ OwnerInv /\ [Next]_vars => OwnerInv'
  BY OwnerInvStep
<1>3. AccessInv /\ OwnerInv => OneOwner
  BY DEF AccessInv, OwnerInv, OneOwner
<1> QED
  BY <1>1, <1>2, <1>3, AccessInvHolds, PTL DEF Spec
=============================================================================
