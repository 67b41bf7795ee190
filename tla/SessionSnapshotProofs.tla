------------------------- MODULE SessionSnapshotProofs -------------------------
(***************************************************************************)
(* Theorems about the owner's settings, the catalogue and the snapshot of  *)
(* a session, for every set of models and requests and every bound on      *)
(* receipts and revisions.                                                 *)
(***************************************************************************)
EXTENDS SessionSnapshot, SequenceTheorems, FiniteSetTheorems, TLAPS

-----------------------------------------------------------------------------
(***************************************************************************)
(* The inductive invariant.  Of the catalogue it says that every number    *)
(* anybody holds is that of a receipt that was issued.                     *)
(***************************************************************************)
Receipt == [version : Numbers, models : SUBSET Models]
Issued == 0 .. Len(receipts)

Refreshing == [op : {"refresh"}, models : SUBSET Models]
Ensuring ==
  [op : {"ensure"}, settings : Models, version : Numbers, at : {"probing", "persisting"},
   found : Issued]

Question == [settings : Models, version : 0..MaxReceipts, answer : Issued \cup {None}]

CatalogueInv ==
  /\ receipts \in Seq(Receipt) /\ Len(receipts) <= MaxReceipts
  /\ offered \in SUBSET Models /\ expired \in Nat
  /\ stored \in Issued /\ memory \in Issued /\ receipt \in Issued
  /\ leases \in [Models -> [Numbers -> Issued]]
  /\ loader = None \/ loader \in [found : Issued]
  /\ mutation = None \/ mutation \in Refreshing \cup Ensuring
  /\ ask = None \/ ask \in Question
  /\ mutation # None /\ mutation.op = "ensure" => ask \in Question /\ ask.answer = None

\* The document is the latest revision of its history.
DocumentInv ==
  /\ document \in [schema : {"none", "legacy", "current"}, revision : 0..MaxRevision,
                   settings : Models \cup {None}]
  /\ inForce \in [Revisions -> Models \cup {None}]
  /\ document.schema # "none" =>
       /\ document.revision # 0 /\ document.settings \in Models
       /\ inForce[document.revision] = document.settings

RequestRecord ==
  [at : {"received", "answered"}, settings : Models, ifMatch : Revisions, receipt : Nat,
   answer : 0..MaxRevision \cup {None}]

\* If-Match fixes the one revision a request can bring about, before and after
\* the ledger forgets it; while the ledger remembers, it gives that revision.
RequestOK(k) ==
  \/ request[k] = None /\ ledger[k] = 0 /\ applied[k] = {}
  \/ /\ request[k] \in RequestRecord
     /\ applied[k] \subseteq {request[k].ifMatch + 1}
     /\ ledger[k] # 0 /\ request[k].at = "answered" => request[k].answer = ledger[k]

RequestInv ==
  /\ request \in [Keys -> RequestRecord \cup {None}]
  /\ ledger \in [Keys -> 0..MaxRevision]
  /\ applied \in [Keys -> SUBSET Revisions]
  /\ \A k \in Keys : RequestOK(k)

\* What was read of the settings is in the history, and not its future.
IsPast(revision, m) ==
  revision \in 1..document.revision /\ m \in Models /\ inForce[revision] = m

\* While a snapshot is prepared there is none; the answer waited for is to a question.
PrepareInv ==
  prepare # None =>
    /\ snapshot = None
    /\ prepare.at = "asking" => ask \in Question
    /\ prepare \in [at : {"asking", "proved", "read"}, current : Issued,
                    revision : 0..MaxRevision, settings : Models \cup {None}]
    /\ prepare.at = "read" => IsPast(prepare.revision, prepare.settings)

SnapshotInv ==
  snapshot # None =>
    /\ snapshot \in [revision : 0..MaxRevision, settings : Models, receipt : Issued, version : Numbers]
    /\ IsPast(snapshot.revision, snapshot.settings)
    /\ Covers(snapshot.receipt, snapshot.settings)

SettingsInv == CatalogueInv /\ DocumentInv /\ RequestInv /\ PrepareInv /\ SnapshotInv

-----------------------------------------------------------------------------
(***************************************************************************)
(* The catalogue.                                                          *)
(***************************************************************************)
\* Receipts are issued, never changed.
ReceiptsGrow ==
  /\ Len(receipts) <= Len(receipts')
  /\ \A i \in 1..Len(receipts) : receipts'[i] = receipts[i]

\* A question is open until the one who asked takes the answer.
AskStays == ask \in Question => (ask \in Question)'

\* A step that issues none leaves the numbers that are known as they are.
LEMMA ReceiptsStay ==
  ASSUME CatalogueInv, UNCHANGED receipts
  PROVE  ReceiptsGrow /\ Issued' = Issued
  BY DEF ReceiptsGrow, Issued, CatalogueInv

\* What does not touch the catalogue keeps its part of the invariant.
LEMMA CatalogueStays ==
  ASSUME CatalogueInv, UNCHANGED catalogue
  PROVE  CatalogueInv'
  BY DEF catalogue, CatalogueInv, Issued, Ensuring, Question

\* Every receipt anybody can hold has a version and lists models.
LEMMA ReceiptType ==
  ASSUME CatalogueInv, NEW i \in Issued, i # 0
  PROVE  receipts[i] \in Receipt
<1>1. receipts \in Seq(Receipt) /\ i \in 1..Len(receipts)
  BY DEF CatalogueInv, Issued
<1> QED
  BY <1>1

\* A receipt is issued: the old ones keep their numbers.
LEMMA Issues ==
  ASSUME CatalogueInv, Len(receipts) < MaxReceipts, NEW r \in Receipt,
         receipts' = Append(receipts, r)
  PROVE  /\ ReceiptsGrow /\ Issued \subseteq Issued' /\ Len(receipts) + 1 \in Issued'
         /\ receipts' \in Seq(Receipt) /\ Len(receipts') <= MaxReceipts
<1>1. receipts \in Seq(Receipt) /\ Len(receipts) \in Nat
  BY DEF CatalogueInv
<1>2. /\ receipts' \in Seq(Receipt)
      /\ Len(receipts') = Len(receipts) + 1
      /\ \A i \in 1..Len(receipts) : receipts'[i] = receipts[i]
  BY <1>1
<1> QED
  BY <1>1, <1>2, CatalogueAssumption DEF ReceiptsGrow, Issued

\* The first receipt is the one number there is.
LEMMA CatalogueInvInit == CatalogueInit => CatalogueInv
<1> SUFFICES ASSUME CatalogueInit
             PROVE  CatalogueInv
  OBVIOUS
<1>1. NewReceipt(1, Models) \in Receipt
  BY CatalogueAssumption DEF NewReceipt, Receipt, Numbers
<1>2. receipts \in Seq(Receipt) /\ Len(receipts) = 1
  BY <1>1 DEF CatalogueInit
<1> QED
  BY <1>2, CatalogueAssumption DEF CatalogueInit, CatalogueInv, Issued

\* An answer that is a receipt's number answers a question.
LEMMA AnswerType ==
  ASSUME ask \in Question, NEW i \in Issued, Answer(i)
  PROVE  ask' \in Question
  BY DEF Answer, Question

\* No step of the catalogue invents a number, or takes a receipt back.
LEMMA CatalogueStep ==
  ASSUME CatalogueInv, CatalogueNext
  PROVE  CatalogueInv' /\ ReceiptsGrow /\ AskStays
<1>0. 0 \in Issued /\ Len(receipts) \in Nat
  BY DEF CatalogueInv, Issued
<1>1. CASE Offer
  <2>1. UNCHANGED <<receipts, expired, stored, memory, leases, mutation, loader, receipt, ask>>
        /\ offered' \in SUBSET Models
    BY <1>1 DEF Offer
  <2>2. ReceiptsGrow /\ Issued' = Issued
    BY <2>1, ReceiptsStay
  <2> QED
    BY <2>1, <2>2 DEF AskStays, CatalogueInv, Ensuring, Refreshing, Question
<1>2. CASE Expire
  <2>1. UNCHANGED <<receipts, offered, stored, memory, leases, mutation, loader, receipt, ask>>
        /\ expired' \in Nat
    BY <1>2 DEF Expire, CatalogueInv
  <2>2. ReceiptsGrow /\ Issued' = Issued
    BY <2>1, ReceiptsStay
  <2> QED
    BY <2>1, <2>2 DEF AskStays, CatalogueInv, Ensuring, Refreshing, Question
<1>3. CASE LoadBegins
  <2>1. UNCHANGED <<receipts, offered, expired, stored, memory, leases, mutation, ask>>
    BY <1>3 DEF LoadBegins
  <2>2. ReceiptsGrow /\ Issued' = Issued
    BY <2>1, ReceiptsStay
  <2>3. receipt' \in Issued /\ (loader' = None \/ loader' \in [found : Issued])
    BY <1>3 DEF LoadBegins, CatalogueInv
  <2> QED
    BY <2>1, <2>2, <2>3 DEF AskStays, CatalogueInv, Ensuring, Refreshing, Question
<1>4. CASE LoadEnds
  <2>1. UNCHANGED <<receipts, offered, expired, stored, leases, mutation, ask>> /\ loader' = None
    BY <1>4 DEF LoadEnds
  <2>2. ReceiptsGrow /\ Issued' = Issued
    BY <2>1, ReceiptsStay
  <2>3. receipt' \in Issued /\ memory' \in Issued
    BY <1>0, <1>4 DEF LoadEnds, CatalogueInv, Loaded
  <2> QED
    BY <2>1, <2>2, <2>3 DEF AskStays, CatalogueInv, Ensuring, Refreshing, Question
<1>5. CASE RefreshProbes
  <2>1. UNCHANGED <<receipts, offered, expired, stored, memory, leases, loader, receipt, ask>>
    BY <1>5 DEF RefreshProbes
  <2>2. ReceiptsGrow /\ Issued' = Issued
    BY <2>1, ReceiptsStay
  <2>3. mutation' \in Refreshing
    BY <1>5 DEF RefreshProbes, Discovered, Refreshing, CatalogueInv
  <2> QED
    BY <2>1, <2>2, <2>3 DEF AskStays, CatalogueInv, Ensuring, Refreshing, Question
<1>6. CASE RefreshStores
  <2>1. mutation \in Refreshing
    BY <1>6 DEF RefreshStores, CatalogueInv, Ensuring
  <2> DEFINE new == NewReceipt(Len(receipts) + 1, mutation.models)
  <2>2. new \in Receipt
    BY <1>0, <1>6, <2>1, CatalogueAssumption DEF RefreshStores, NewReceipt, Receipt, Numbers, Refreshing
  <2> HIDE DEF new
  <2>3. /\ receipts' = Append(receipts, new)
        /\ stored' = Len(receipts) + 1 /\ memory' = Len(receipts) + 1 /\ receipt' = Len(receipts) + 1
        /\ mutation' = None /\ Len(receipts) < MaxReceipts
        /\ UNCHANGED <<offered, expired, leases, loader, ask>>
    BY <1>6 DEF RefreshStores, new
  <2>4. /\ ReceiptsGrow /\ Issued \subseteq Issued' /\ Len(receipts) + 1 \in Issued'
        /\ receipts' \in Seq(Receipt) /\ Len(receipts') <= MaxReceipts
    BY <2>2, <2>3, Issues
  <2>5. PICK more : more = Issued' /\ Issued \subseteq more
    BY <2>4
  <2> QED
    BY <2>1, <2>3, <2>4, <2>5 DEF AskStays, CatalogueInv, Question, Refreshing
<1>7. CASE RefreshFails
  <2>1. UNCHANGED <<receipts, offered, expired, stored, leases, loader, receipt, ask>>
        /\ mutation' = None
    BY <1>7 DEF RefreshFails
  <2>2. ReceiptsGrow /\ Issued' = Issued
    BY <2>1, ReceiptsStay
  <2>3. memory' \in Issued
    BY <1>7 DEF RefreshFails, CatalogueInv, Loaded
  <2> QED
    BY <2>1, <2>2, <2>3 DEF AskStays, CatalogueInv, Question
<1>8. CASE Reset
  <2>1. UNCHANGED <<receipts, offered, expired, leases, mutation, loader, receipt, ask>>
        /\ stored' = 0 /\ memory' = 0
    BY <1>8 DEF Reset
  <2>2. ReceiptsGrow /\ Issued' = Issued
    BY <2>1, ReceiptsStay
  <2> QED
    BY <1>0, <2>1, <2>2 DEF AskStays, CatalogueInv, Ensuring, Refreshing, Question
<1>9. CASE EnsureBegins
  <2> DEFINE m == ask.settings
             version == Requested(ask.version)
  <2>1. UNCHANGED <<receipts, offered, expired, stored, leases, loader, receipt>>
    BY <1>9 DEF EnsureBegins
  <2>2. ReceiptsGrow /\ Issued' = Issued
    BY <2>1, ReceiptsStay
  <2>3. memory' \in Issued
    BY <1>9 DEF EnsureBegins, CatalogueInv, Loaded
  <2>4. /\ ask \in Question /\ ask # None
        /\ m \in Models /\ ask.version \in 0..MaxReceipts
    BY <1>9 DEF EnsureBegins, IsOpen, CatalogueInv, Question
  <2>5. Current \in Issued /\ Loaded(Current) \in Issued
    BY DEF Current, Loaded, CatalogueInv
  <2>6. version # 0 => version \in Numbers
    <3>1. CASE ask.version # 0
      BY <2>4, <3>1, CatalogueAssumption DEF Requested, Numbers
    <3>2. CASE ask.version = 0
      <4>1. Loaded(Current) # 0 => receipts[Loaded(Current)].version \in Numbers
        BY <2>5, ReceiptType DEF Receipt
      <4> QED
        BY <3>2, <4>1 DEF Requested
    <3> QED  BY <3>1, <3>2
  <2>7. /\ mutation' = None \/ mutation' \in Ensuring
        /\ \/ UNCHANGED ask
           \/ \E i \in Issued : Answer(i)
    <3>1. CASE Answers(Current, m, ask.version)
      <4>1. Current # 0
        BY <3>1 DEF Answers, IsUsable, Covers
      <4>2. version # 0
        BY <2>5, <4>1, ReceiptType DEF Requested, Loaded, Receipt, Numbers
      <4>3. /\ mutation' = [op |-> "ensure", settings |-> m, version |-> version,
                            at |-> "persisting", found |-> Current]
            /\ UNCHANGED ask
        BY <1>9, <3>1, <4>2 DEF EnsureBegins
      <4> QED
        BY <2>4, <2>5, <2>6, <4>2, <4>3 DEF Ensuring
    <3>2. CASE ~Answers(Current, m, ask.version) /\ version # 0
      <4>1. LeaseFor(m, version) \in Issued
        BY <2>4, <2>6, <3>2 DEF CatalogueInv, LeaseFor
      <4>2. \/ (\E i \in Issued : Answer(i)) /\ UNCHANGED mutation
            \/ /\ mutation' = [op |-> "ensure", settings |-> m, version |-> version,
                               at |-> "probing", found |-> 0]
               /\ UNCHANGED ask
        BY <1>0, <1>9, <3>2, <4>1 DEF EnsureBegins
      <4>3. mutation = None
        BY <1>9 DEF EnsureBegins
      <4> QED
        BY <1>0, <2>4, <2>6, <3>2, <4>2, <4>3 DEF Ensuring
    <3>3. CASE ~Answers(Current, m, ask.version) /\ version = 0
      <4>1. Answer(0) /\ UNCHANGED mutation /\ mutation = None
        BY <1>9, <3>3 DEF EnsureBegins
      <4> QED
        BY <1>0, <4>1
    <3> QED  BY <3>1, <3>2, <3>3
  <2>8. ask' \in Question
    BY <2>4, <2>7, AnswerType
  <2>9. mutation' # None => ask' = ask /\ ask.answer = None
    BY <1>9 DEF EnsureBegins, IsOpen
  <2> QED
    BY <2>1, <2>2, <2>3, <2>7, <2>8, <2>9 DEF AskStays, CatalogueInv, Ensuring, Refreshing, Question
<1>10. CASE EnsureProbes
  <2>1. mutation \in Ensuring /\ Len(receipts) < MaxReceipts
    BY <1>10 DEF EnsureProbes, CatalogueInv, Refreshing
  <2>2. PICK found \in Discovered : receipts' = Append(receipts, NewReceipt(mutation.version, found))
    BY <1>10 DEF EnsureProbes
  <2>3. NewReceipt(mutation.version, found) \in Receipt
    BY <2>1 DEF NewReceipt, Receipt, Ensuring, Discovered, CatalogueInv
  <2>4. /\ ReceiptsGrow /\ Issued \subseteq Issued' /\ Len(receipts) + 1 \in Issued'
        /\ receipts' \in Seq(Receipt) /\ Len(receipts') <= MaxReceipts
    BY <2>1, <2>2, <2>3, Issues
  <2>5. /\ mutation' = [mutation EXCEPT !.at = "persisting", !.found = Len(receipts) + 1]
        /\ UNCHANGED <<offered, expired, stored, memory, leases, loader, receipt, ask>>
    BY <1>10 DEF EnsureProbes
  <2>6. PICK more : more = Issued' /\ Issued \subseteq more /\ Len(receipts) + 1 \in more
    BY <2>4
  <2>7. mutation' \in [op : {"ensure"}, settings : Models, version : Numbers,
                       at : {"probing", "persisting"}, found : more]
    BY <2>1, <2>5, <2>6 DEF Ensuring
  <2> QED
    BY <1>10, <2>4, <2>5, <2>6, <2>7 DEF AskStays, EnsureProbes, CatalogueInv, Ensuring, Question
<1>11. CASE EnsurePersists
  <2>1. mutation \in Ensuring
    BY <1>11 DEF EnsurePersists, CatalogueInv, Refreshing
  <2>2. /\ UNCHANGED <<receipts, offered, expired, stored, memory, loader, receipt>>
        /\ mutation' = None /\ Answer(mutation.found)
        /\ leases' = [leases EXCEPT ![mutation.settings][receipts[mutation.found].version] = mutation.found]
    BY <1>11 DEF EnsurePersists
  <2>3. ReceiptsGrow /\ Issued' = Issued
    BY <2>2, ReceiptsStay
  <2>4. leases' \in [Models -> [Numbers -> Issued]]
    <3> DEFINE m == mutation.settings
               v == receipts[mutation.found].version
               row == [leases[m] EXCEPT ![v] = mutation.found]
    <3>1. m \in Models /\ mutation.found \in Issued
      BY <2>1 DEF Ensuring
    <3>2. row \in [Numbers -> Issued]
      BY <3>1 DEF CatalogueInv
    <3>3. leases' = [leases EXCEPT ![m] = row]
      BY <2>2
    <3> HIDE DEF row, m
    <3> QED
      BY <3>1, <3>2, <3>3 DEF CatalogueInv
  <2>5. ask' \in Question
    <3>1. ask \in Question /\ mutation.found \in Issued
      BY <1>11, <2>1 DEF EnsurePersists, CatalogueInv, Ensuring
    <3> QED
      BY <2>2, <3>1, AnswerType
  <2> QED
    BY <2>2, <2>3, <2>4, <2>5 DEF AskStays, CatalogueInv, Question
<1>12. CASE EnsureFails
  <2>2. /\ UNCHANGED <<receipts, offered, expired, stored, memory, leases, loader, receipt>>
        /\ mutation' = None /\ Answer(0)
    BY <1>12 DEF EnsureFails
  <2>3. ReceiptsGrow /\ Issued' = Issued
    BY <2>2, ReceiptsStay
  <2>5. ask' \in Question
    <3>1. ask \in Question
      BY <1>12 DEF EnsureFails, CatalogueInv
    <3> QED
      BY <1>0, <2>2, <3>1, AnswerType
  <2> QED
    BY <2>2, <2>3, <2>5 DEF AskStays, CatalogueInv, Question
<1> QED
  BY <1>1, <1>2, <1>3, <1>4, <1>5, <1>6, <1>7, <1>8, <1>9, <1>10, <1>11, <1>12 DEF CatalogueNext

-----------------------------------------------------------------------------
(***************************************************************************)
(* The settings.                                                           *)
(***************************************************************************)
\* Revisions are added to the history, none is changed.
TrailGrows ==
  /\ document.revision <= document'.revision
  /\ \A r \in 1..document.revision : inForce'[r] = inForce[r]

\* No request yet, and the document an earlier release wrote, if any.
LEMMA SettingsInvInit ==
  SettingsInit => DocumentInv /\ RequestInv
<1> SUFFICES ASSUME SettingsInit
             PROVE  DocumentInv /\ RequestInv
  OBVIOUS
<1>1. DocumentInv
  BY SettingsAssumption DEF SettingsInit, DocumentInv, Revisions
<1>2. RequestInv
  BY SettingsAssumption DEF SettingsInit, RequestInv, RequestOK
<1> QED
  BY <1>1, <1>2

\* A new revision takes the place after the last one.
LEMMA Revises ==
  ASSUME DocumentInv, NEW m \in Models, Revise(m)
  PROVE  DocumentInv' /\ TrailGrows /\ document.revision + 1 \in Revisions
<1>1. document.revision \in Nat /\ document.revision + 1 \in Revisions
  BY SettingsAssumption DEF DocumentInv, Revise, Revisions
<1>2. /\ document' = [schema |-> "current", revision |-> document.revision + 1, settings |-> m]
      /\ inForce' = [inForce EXCEPT ![document.revision + 1] = m]
  BY DEF Revise
<1>3. inForce' \in [Revisions -> Models \cup {None}] /\ inForce'[document.revision + 1] = m
  BY <1>1, <1>2 DEF DocumentInv
<1>4. document' \in [schema : {"none", "legacy", "current"}, revision : 0..MaxRevision,
                     settings : Models \cup {None}]
  BY <1>1, <1>2, SettingsAssumption DEF Revisions
<1>5. DocumentInv'
  BY <1>1, <1>2, <1>3, <1>4 DEF DocumentInv
<1>6. TrailGrows
  BY <1>1, <1>2, SettingsAssumption DEF TrailGrows, DocumentInv, Revisions
<1> QED
  BY <1>1, <1>5, <1>6

\* What does not touch the document and its trail keeps both.
LEMMA DocumentStays ==
  ASSUME DocumentInv, UNCHANGED <<document, inForce>>
  PROVE  DocumentInv' /\ TrailGrows
  BY SettingsAssumption DEF DocumentInv, TrailGrows, Revisions

\* A step about one request leaves the others alone.
LEMMA OneRequest ==
  ASSUME RequestInv, NEW k \in Keys,
         NEW q \in RequestRecord, NEW n \in 0..MaxRevision, NEW a \in SUBSET Revisions,
         request' = [request EXCEPT ![k] = q],
         ledger' = [ledger EXCEPT ![k] = n],
         applied' = [applied EXCEPT ![k] = a],
         a \subseteq {q.ifMatch + 1},
         n # 0 /\ q.at = "answered" => q.answer = n
  PROVE  RequestInv'
<1>1. /\ request' \in [Keys -> RequestRecord \cup {None}]
      /\ ledger' \in [Keys -> 0..MaxRevision]
      /\ applied' \in [Keys -> SUBSET Revisions]
  BY DEF RequestInv
<1>2. request'[k] = q /\ ledger'[k] = n /\ applied'[k] = a
  BY DEF RequestInv
<1>3. RequestOK(k)'
  BY <1>2 DEF RequestOK
<1>4. ASSUME NEW j \in Keys, j # k
      PROVE  RequestOK(j)'
  <2>1. request'[j] = request[j] /\ ledger'[j] = ledger[j] /\ applied'[j] = applied[j]
    BY <1>4 DEF RequestInv
  <2>2. RequestOK(j)
    BY DEF RequestInv
  <2> QED
    BY <2>1, <2>2 DEF RequestOK
<1> QED
  BY <1>1, <1>3, <1>4 DEF RequestInv

\* A request that is there is one of its kind.
LEMMA RequestType ==
  ASSUME RequestInv, NEW k \in Keys, request[k] # None
  PROVE  /\ request[k] \in RequestRecord
         /\ ledger[k] \in 0..MaxRevision /\ applied[k] \in SUBSET Revisions
         /\ applied[k] \subseteq {request[k].ifMatch + 1}
         /\ ledger[k] # 0 /\ request[k].at = "answered" => request[k].answer = ledger[k]
         /\ ledger = [ledger EXCEPT ![k] = ledger[k]]
         /\ applied = [applied EXCEPT ![k] = applied[k]]
         /\ request = [request EXCEPT ![k] = request[k]]
  BY DEF RequestInv, RequestOK

\* An answered request keeps what it asked for.
LEMMA AnsweredRequest ==
  ASSUME NEW k \in Keys, request \in [Keys -> RequestRecord \cup {None}],
         request[k] \in RequestRecord, NEW n \in 0..MaxRevision, Answered(k, n)
  PROVE  \E q \in RequestRecord :
           /\ request' = [request EXCEPT ![k] = q]
           /\ q.ifMatch = request[k].ifMatch /\ q.answer = n
<1> DEFINE q == [request[k] EXCEPT !.at = "answered", !.receipt = 0, !.answer = n]
<1>1. q \in RequestRecord /\ q.ifMatch = request[k].ifMatch /\ q.answer = n
  BY DEF RequestRecord
<1>2. request' = [request EXCEPT ![k] = q]
  BY DEF Answered, RequestRecord
<1> HIDE DEF q
<1> QED
  BY <1>1, <1>2

\* A request that arrives is one that has no answer yet.
LEMMA ReceivedType ==
  ASSUME receipt \in Nat, NEW m \in Models, NEW r \in Revisions
  PROVE  /\ Received(m, r) \in RequestRecord
         /\ Received(m, r).ifMatch = r /\ Received(m, r).at = "received"
<1> DEFINE q == [at |-> "received", settings |-> m, ifMatch |-> r, receipt |-> receipt, answer |-> None]
<1>1. q \in RequestRecord /\ q.ifMatch = r /\ q.at = "received"
  BY DEF RequestRecord
<1>2. Received(m, r) = q
  BY DEF Received
<1> QED
  BY <1>1, <1>2

\* A step about the settings, the requests included.
LEMMA SettingsStep ==
  ASSUME DocumentInv, RequestInv, SettingsNext, receipt \in Nat
  PROVE  DocumentInv' /\ RequestInv' /\ TrailGrows
<1>1. CASE Initialize
  <2>1. UNCHANGED <<ledger, request, applied>>
    BY <1>1 DEF Initialize
  <2>2. RequestInv'
    BY <2>1 DEF RequestInv, RequestOK
  <2>3. PICK m \in Models : Revise(m)
    BY <1>1, SettingsAssumption DEF Initialize, DocumentInv
  <2> QED
    BY <2>2, <2>3, Revises
<1>2. ASSUME NEW k \in Keys, NEW q \in RequestRecord, request' = [request EXCEPT ![k] = q],
             UNCHANGED <<document, inForce, ledger, applied>>,
             applied[k] \subseteq {q.ifMatch + 1},
             ledger[k] # 0 /\ q.at = "answered" => q.answer = ledger[k]
      PROVE  DocumentInv' /\ RequestInv' /\ TrailGrows
  <2>1. ledger[k] \in 0..MaxRevision /\ applied[k] \in SUBSET Revisions
    BY DEF RequestInv
  <2>2. ledger' = [ledger EXCEPT ![k] = ledger[k]] /\ applied' = [applied EXCEPT ![k] = applied[k]]
    BY <1>2 DEF RequestInv
  <2>3. RequestInv'
    BY <1>2, <2>1, <2>2, OneRequest
  <2> QED
    BY <1>2, <2>3, DocumentStays
<1>3. ASSUME NEW k \in Keys, NEW m \in Models, NEW r \in Revisions, Send(k, m, r)
      PROVE  DocumentInv' /\ RequestInv' /\ TrailGrows
  <2>1. /\ request[k] = None /\ UNCHANGED <<document, inForce, ledger, applied>>
        /\ request' = [request EXCEPT ![k] = Received(m, r)]
    BY <1>3 DEF Send
  <2>2. PICK q \in RequestRecord : q = Received(m, r) /\ q.ifMatch = r /\ q.at = "received"
    BY ReceivedType
  <2>3. CASE ledger[k] = 0 /\ applied[k] = {}
    BY <1>2, <2>1, <2>2, <2>3
  <2>4. CASE request[k] \in RequestRecord
    BY <2>1, <2>4, NoRequestAssumption DEF RequestRecord, Revisions
  <2> QED
    BY <2>3, <2>4 DEF RequestInv, RequestOK
<1>4. ASSUME NEW k \in Keys, Replay(k)
      PROVE  DocumentInv' /\ RequestInv' /\ TrailGrows
  <2>1. /\ request[k] # None /\ Answered(k, ledger[k])
        /\ UNCHANGED <<document, inForce, ledger, applied>>
    BY <1>4 DEF Replay, IsReceived
  <2>2. PICK q \in RequestRecord :
          /\ request' = [request EXCEPT ![k] = q]
          /\ q.ifMatch = request[k].ifMatch /\ q.answer = ledger[k]
    BY <2>1, RequestType, AnsweredRequest DEF RequestInv
  <2> QED
    BY <1>2, <2>1, <2>2, RequestType
<1>5. ASSUME NEW k \in Keys, Write(k)
      PROVE  DocumentInv' /\ RequestInv' /\ TrailGrows
  <2> DEFINE n == document.revision + 1
             a == applied[k] \cup {n}
  <2>1. /\ request[k] # None /\ Answered(k, n) /\ request[k].ifMatch = document.revision
        /\ Revise(request[k].settings)
        /\ ledger' = [ledger EXCEPT ![k] = n]
        /\ applied' = [applied EXCEPT ![k] = a]
    BY <1>5 DEF Write, IsReceived, Matches, RequestInv
  <2>2. request[k] \in RequestRecord /\ request[k].settings \in Models
    BY <2>1, RequestType DEF RequestRecord
  <2>3. DocumentInv' /\ TrailGrows /\ n \in Revisions
    BY <2>1, <2>2, Revises
  <2>4. n \in 0..MaxRevision
    BY <2>3, SettingsAssumption DEF Revisions
  <2>5. PICK q \in RequestRecord :
          /\ request' = [request EXCEPT ![k] = q]
          /\ q.ifMatch = request[k].ifMatch /\ q.answer = n
    BY <2>1, <2>2, <2>4, AnsweredRequest DEF RequestInv
  <2>6. a \subseteq {q.ifMatch + 1} /\ a \in SUBSET Revisions
    BY <2>1, <2>3, <2>5, RequestType
  <2>7. RequestInv'
    <3> HIDE DEF n, a
    <3> QED
      BY <2>1, <2>4, <2>5, <2>6, OneRequest
  <2> QED
    BY <2>3, <2>7
<1>6. ASSUME NEW k \in Keys, Reject(k)
      PROVE  DocumentInv' /\ RequestInv' /\ TrailGrows
  <2>1. /\ request[k] # None /\ Answered(k, 0) /\ ledger[k] = 0
        /\ UNCHANGED <<document, inForce, ledger, applied>>
    BY <1>6 DEF Reject, IsReceived, IsReplay
  <2>2. PICK q \in RequestRecord :
          /\ request' = [request EXCEPT ![k] = q]
          /\ q.ifMatch = request[k].ifMatch /\ q.answer = 0
    BY <2>1, RequestType, AnsweredRequest DEF RequestInv
  <2> QED
    BY <1>2, <2>1, <2>2, RequestType
<1>7. ASSUME NEW k \in Keys, Retry(k)
      PROVE  DocumentInv' /\ RequestInv' /\ TrailGrows
  <2>1. /\ request[k] # None /\ UNCHANGED <<document, inForce, ledger, applied>>
        /\ request' = [request EXCEPT ![k] = Received(request[k].settings, request[k].ifMatch)]
    BY <1>7 DEF Retry
  <2>2. PICK q \in RequestRecord : /\ q = Received(request[k].settings, request[k].ifMatch)
                                   /\ q.ifMatch = request[k].ifMatch /\ q.at = "received"
    <3>1. request[k].settings \in Models /\ request[k].ifMatch \in Revisions
      BY <2>1, RequestType DEF RequestRecord
    <3> QED
      BY <3>1, ReceivedType
  <2> QED
    BY <1>2, <2>1, <2>2, RequestType
<1>8. ASSUME NEW k \in Keys, Forget(k)
      PROVE  DocumentInv' /\ RequestInv' /\ TrailGrows
  <2>1. /\ ledger[k] # 0 /\ ledger' = [ledger EXCEPT ![k] = 0]
        /\ UNCHANGED <<document, inForce, request, applied>>
    BY <1>8 DEF Forget
  <2>2. RequestInv'
    <3>1. request[k] \in RequestRecord /\ applied[k] \subseteq {request[k].ifMatch + 1}
      BY <2>1 DEF RequestInv, RequestOK
    <3>2. /\ request' = [request EXCEPT ![k] = request[k]]
          /\ applied' = [applied EXCEPT ![k] = applied[k]]
          /\ applied[k] \in SUBSET Revisions
      BY <2>1 DEF RequestInv
    <3>3. PICK q \in RequestRecord, n \in 0..MaxRevision, a \in SUBSET Revisions :
            q = request[k] /\ n = 0 /\ a = applied[k]
      BY <3>1, <3>2, SettingsAssumption
    <3> QED
      BY <2>1, <3>1, <3>2, <3>3, OneRequest
  <2> QED
    BY <2>1, <2>2, DocumentStays
<1> QED
  BY <1>1, <1>3, <1>4, <1>5, <1>6, <1>7, <1>8 DEF SettingsNext

-----------------------------------------------------------------------------
(***************************************************************************)
(* The snapshot.                                                           *)
(***************************************************************************)
\* What was read, and what was pinned, stays true while receipts are issued and
\* the settings are revised.
LEMMA PastStays ==
  ASSUME DocumentInv, DocumentInv', TrailGrows, NEW r, NEW m, IsPast(r, m)
  PROVE  r \in 1..document'.revision /\ m \in Models /\ inForce'[r] = m
<1>1. document.revision \in Nat /\ document'.revision \in Nat
  BY SettingsAssumption DEF DocumentInv
<1> QED
  BY <1>1 DEF TrailGrows, IsPast

\* A receipt lists for good what it lists when it is issued.
LEMMA IssuedGrow ==
  ASSUME CatalogueInv, CatalogueInv', ReceiptsGrow
  PROVE  /\ Issued \subseteq Issued'
         /\ \A i \in Issued : \A m : Covers(i, m) => i # 0 /\ m \in receipts'[i].models
<1>1. Len(receipts) \in Nat /\ Len(receipts') \in Nat
  BY DEF CatalogueInv
<1> QED
  BY <1>1 DEF ReceiptsGrow, Issued, Covers

\* A preparation survives what the catalogue and the settings do meanwhile.
LEMMA PreparedStays ==
  ASSUME CatalogueInv, CatalogueInv', ReceiptsGrow, DocumentInv, DocumentInv', TrailGrows,
         PrepareInv, UNCHANGED <<prepare, snapshot>>, AskStays
  PROVE  PrepareInv'
<1>1. PICK more : more = Issued' /\ Issued \subseteq more
  BY IssuedGrow
<1>2. ASSUME prepare # None, prepare.at = "read"
      PROVE  IsPast(prepare.revision, prepare.settings)'
  <2>1. IsPast(prepare.revision, prepare.settings)
    BY <1>2 DEF PrepareInv
  <2> QED
    BY <2>1, PastStays DEF IsPast
<1>3. prepare # None /\ prepare.at = "asking" => (ask \in Question)'
  BY DEF PrepareInv, AskStays
<1> QED
  BY <1>1, <1>2, <1>3 DEF PrepareInv

\* So does a snapshot.
LEMMA SnapshotStays ==
  ASSUME CatalogueInv, CatalogueInv', ReceiptsGrow, DocumentInv, DocumentInv', TrailGrows,
         SnapshotInv, UNCHANGED snapshot
  PROVE  SnapshotInv'
<1>1. PICK more : more = Issued' /\ Issued \subseteq more
  BY IssuedGrow
<1>2. ASSUME snapshot # None
      PROVE  IsPast(snapshot.revision, snapshot.settings)' /\ Covers(snapshot.receipt, snapshot.settings)'
  <2>1. /\ IsPast(snapshot.revision, snapshot.settings)
        /\ Covers(snapshot.receipt, snapshot.settings) /\ snapshot.receipt \in Issued
    BY <1>2 DEF SnapshotInv
  <2>2. IsPast(snapshot.revision, snapshot.settings)'
    BY <2>1, PastStays DEF IsPast
  <2>3. Covers(snapshot.receipt, snapshot.settings)'
    BY <2>1, IssuedGrow DEF Covers
  <2> QED
    BY <2>2, <2>3
<1> QED
  BY <1>1, <1>2 DEF SnapshotInv

\* The catalogue is asked a question, gives an answer that becomes the receipt, or
\* its answer is dropped.
LEMMA AskStep ==
  ASSUME CatalogueInv, UNCHANGED <<offered, receipts, expired, stored, memory, leases, mutation, loader>>,
         \/ mutation # None /\ mutation.op = "ensure" => ask' \in Question /\ ask'.answer = None
         \/ ask.answer # None,
         ask' = None \/ ask' \in Question,
         receipt' \in Issued
  PROVE  CatalogueInv'
<1>1. Issued' = Issued
  BY DEF Issued
<1>2. mutation' # None /\ mutation'.op = "ensure" => ask' \in Question /\ ask'.answer = None
  BY DEF CatalogueInv
<1> QED
  BY <1>1, <1>2 DEF CatalogueInv, Ensuring, Refreshing, Question

\* A step of the preparation itself, or of the check before the work starts.
LEMMA PreparationStep ==
  ASSUME SettingsInv, ReadSaved \/ TakeReceipt \/ ReadAgain \/ Resolve \/ Check \/ Checked
  PROVE  CatalogueInv' /\ ReceiptsGrow /\ PrepareInv' /\ SnapshotInv'
<1>0. CatalogueInv /\ DocumentInv /\ PrepareInv /\ SnapshotInv /\ 0 \in Issued
  BY DEF SettingsInv, CatalogueInv, Issued
<1>a. UNCHANGED receipts /\ UNCHANGED <<document, inForce>>
  BY DEF ReadSaved, TakeReceipt, ReadAgain, Resolve, Check, Checked, catalogue, settings
<1>b. ReceiptsGrow /\ Issued' = Issued /\ DocumentInv' /\ TrailGrows
  BY <1>0, <1>a, ReceiptsStay, DocumentStays
<1>1. CASE ReadSaved
  <2>1. ask' \in Question /\ ask'.answer = None
    BY <1>0, <1>1, CatalogueAssumption DEF ReadSaved, DocumentInv, Question
  <2>2. CatalogueInv'
    BY <1>0, <1>1, <2>1, AskStep DEF ReadSaved, CatalogueInv
  <2>3. PrepareInv'
    BY <1>0, <1>1, <1>b, <2>1, SettingsAssumption DEF ReadSaved, PrepareInv, Question
  <2>4. SnapshotInv'
    BY <1>0, <1>1, <1>b, <2>2, SnapshotStays DEF ReadSaved
  <2> QED
    BY <1>b, <2>2, <2>3, <2>4
<1>2. CASE TakeReceipt
  <2>1. ask.answer \in Issued /\ ask.answer # None /\ ask' = None /\ receipt' = ask.answer
    BY <1>0, <1>2 DEF TakeReceipt, PrepareInv, Question
  <2>2. CatalogueInv'
    BY <1>0, <1>2, <2>1, AskStep DEF TakeReceipt
  <2>3. PrepareInv'
    BY <1>0, <1>2, <1>b, <2>1 DEF TakeReceipt, PrepareInv
  <2>4. SnapshotInv'
    BY <1>0, <1>2, <1>b, <2>2, SnapshotStays DEF TakeReceipt
  <2> QED
    BY <1>b, <2>2, <2>3, <2>4
<1>3. CASE ReadAgain
  <2>1. UNCHANGED catalogue /\ UNCHANGED snapshot
    BY <1>3 DEF ReadAgain
  <2>2. CatalogueInv'
    BY <1>0, <2>1, CatalogueStays
  <2>3. PrepareInv'
    <3>1. document.schema = "current" =>
            IsPast(document.revision, document.settings) /\ document.revision \in 0..MaxRevision
      BY <1>0, SettingsAssumption DEF DocumentInv, IsPast
    <3>2. prepare \in [at : {"asking", "proved", "read"}, current : Issued,
                       revision : 0..MaxRevision, settings : Models \cup {None}]
      BY <1>0, <1>3 DEF ReadAgain, PrepareInv
    <3>3. CASE prepare' = None
      BY <3>3 DEF PrepareInv
    <3>4. CASE /\ document.schema = "current"
               /\ prepare' = [prepare EXCEPT !.at = "read", !.revision = document.revision,
                                             !.settings = document.settings]
      <4>1. /\ prepare'.revision = document.revision /\ prepare'.settings = document.settings
            /\ prepare'.at = "read" /\ snapshot' = None
            /\ prepare' \in [at : {"asking", "proved", "read"}, current : Issued,
                             revision : 0..MaxRevision, settings : Models \cup {None}]
        BY <1>0, <1>3, <2>1, <3>1, <3>2, <3>4 DEF ReadAgain, PrepareInv, IsPast
      <4>2. IsPast(prepare.revision, prepare.settings)'
        BY <1>a, <3>1, <3>4, <4>1 DEF IsPast
      <4> QED
        BY <1>b, <4>1, <4>2 DEF PrepareInv
    <3> QED
      BY <1>3, <3>3, <3>4 DEF ReadAgain
  <2>4. SnapshotInv'
    BY <1>0, <1>b, <2>1, <2>2, SnapshotStays
  <2> QED
    BY <1>b, <2>2, <2>3, <2>4
<1>4. CASE Resolve
  <2>1. UNCHANGED catalogue /\ prepare' = None
    BY <1>4 DEF Resolve
  <2>2. CatalogueInv'
    BY <1>0, <2>1, CatalogueStays
  <2>3. SnapshotInv'
    <3>1. CASE snapshot' = None
      BY <3>1 DEF SnapshotInv
    <3>2. CASE /\ IsResolved
               /\ snapshot' = [revision |-> prepare.revision, settings |-> prepare.settings,
                               receipt |-> prepare.current, version |-> receipts[prepare.current].version]
      <4>1. /\ prepare.current \in Issued /\ prepare.revision \in 0..MaxRevision
            /\ IsPast(prepare.revision, prepare.settings)
            /\ Covers(prepare.current, prepare.settings)
        BY <1>0, <1>4, <3>2 DEF Resolve, IsResolved, IsUsable, PrepareInv
      <4>2. prepare.settings \in Models /\ receipts[prepare.current].version \in Numbers
        BY <1>0, <4>1, ReceiptType DEF IsPast, Covers, Receipt
      <4>3. /\ snapshot' \in [revision : 0..MaxRevision, settings : Models, receipt : Issued, version : Numbers]
            /\ snapshot'.revision = prepare.revision /\ snapshot'.settings = prepare.settings
            /\ snapshot'.receipt = prepare.current
        BY <3>2, <4>1, <4>2
      <4>4. IsPast(snapshot.revision, snapshot.settings)' /\ Covers(snapshot.receipt, snapshot.settings)'
        BY <1>a, <4>1, <4>3 DEF IsPast, Covers
      <4> QED
        BY <1>b, <4>3, <4>4 DEF SnapshotInv
    <3> QED
      BY <1>4, <3>1, <3>2 DEF Resolve
  <2> QED
    BY <1>b, <2>1, <2>2, <2>3 DEF PrepareInv
<1>5. CASE Check
  <2>1. ask' \in Question /\ ask'.answer = None
    BY <1>0, <1>5, CatalogueAssumption DEF Check, SnapshotInv, Question, Numbers
  <2>2. CatalogueInv'
    BY <1>0, <1>5, <2>1, AskStep DEF Check, CatalogueInv
  <2>3. PrepareInv' /\ SnapshotInv'
    BY <1>0, <1>5, <1>b, <2>2, SnapshotStays DEF Check, PrepareInv
  <2> QED
    BY <1>b, <2>2, <2>3
<1>6. CASE Checked
  <2>1. ask' = None /\ ask.answer # None
    BY <1>6 DEF Checked
  <2>2. CatalogueInv'
    BY <1>0, <1>6, <2>1, AskStep DEF Checked, CatalogueInv
  <2>3. PrepareInv' /\ SnapshotInv'
    BY <1>0, <1>6 DEF Checked, PrepareInv, SnapshotInv
  <2> QED
    BY <1>b, <2>2, <2>3
<1> QED
  BY <1>1, <1>2, <1>3, <1>4, <1>5, <1>6

-----------------------------------------------------------------------------
\* The invariant holds at first and is kept by every step of either part.
LEMMA SnapshotInit == Init => SettingsInv
  BY CatalogueInvInit, SettingsInvInit DEF Init, SettingsInv, PrepareInv, SnapshotInv

\* Every step, of whichever part, keeps the whole invariant.
LEMMA SettingsInvStep ==
  SettingsInv /\ [Next]_vars => SettingsInv'
<1> SUFFICES ASSUME SettingsInv, [Next]_vars
             PROVE  SettingsInv'
  OBVIOUS
<1>0. CatalogueInv /\ DocumentInv /\ RequestInv /\ PrepareInv /\ SnapshotInv
  BY DEF SettingsInv
<1>1. CASE CatalogueNext /\ UNCHANGED <<settings, prepare, snapshot>>
  <2>1. CatalogueInv' /\ ReceiptsGrow /\ AskStays
    BY <1>0, <1>1, CatalogueStep
  <2>2. DocumentInv' /\ TrailGrows
    BY <1>0, <1>1, DocumentStays DEF settings
  <2>3. RequestInv'
    BY <1>0, <1>1 DEF settings, RequestInv, RequestOK
  <2> QED
    BY <1>0, <1>1, <2>1, <2>2, <2>3, PreparedStays, SnapshotStays DEF SettingsInv
<1>2. CASE SettingsNext /\ UNCHANGED <<catalogue, prepare, snapshot>>
  <2>1. CatalogueInv' /\ ReceiptsGrow /\ AskStays
    BY <1>0, <1>2, CatalogueStays, ReceiptsStay DEF catalogue, AskStays, Question
  <2>2. receipt \in Nat
    BY <1>0 DEF CatalogueInv, Issued
  <2>3. DocumentInv' /\ RequestInv' /\ TrailGrows
    BY <1>0, <1>2, <2>2, SettingsStep
  <2> QED
    BY <1>0, <1>2, <2>1, <2>3, PreparedStays, SnapshotStays DEF SettingsInv
<1>3. CASE ReadSaved \/ TakeReceipt \/ ReadAgain \/ Resolve \/ Check \/ Checked
  <2>1. CatalogueInv' /\ PrepareInv' /\ SnapshotInv'
    BY <1>3, PreparationStep
  <2>2. UNCHANGED settings
    BY <1>3 DEF ReadSaved, TakeReceipt, ReadAgain, Resolve, Check, Checked
  <2>3. DocumentInv' /\ RequestInv'
    BY <1>0, <2>2, DocumentStays DEF settings, RequestInv, RequestOK
  <2> QED
    BY <2>1, <2>3 DEF SettingsInv
<1>4. CASE UNCHANGED vars
  <2>1. UNCHANGED <<catalogue, settings, prepare, snapshot>>
    BY <1>4 DEF vars
  <2>2. CatalogueInv' /\ ReceiptsGrow /\ AskStays
    BY <1>0, <2>1, CatalogueStays, ReceiptsStay DEF catalogue, AskStays, Question
  <2>3. DocumentInv' /\ TrailGrows /\ RequestInv'
    BY <1>0, <2>1, DocumentStays DEF settings, RequestInv, RequestOK
  <2> QED
    BY <1>0, <2>1, <2>2, <2>3, PreparedStays, SnapshotStays DEF SettingsInv
<1> QED
  BY <1>1, <1>2, <1>3, <1>4 DEF Next

\* The invariant of the composition.
LEMMA SettingsInvariant == Spec => []SettingsInv
  BY SnapshotInit, SettingsInvStep, PTL DEF Spec

\* However often a request is sent, and whenever the ledger forgets its key, it
\* brings about at most one revision: If-Match lets it write after one only.
THEOREM RequestsApplyOnce == Spec => []AppliedOnce
<1>1. SettingsInv => AppliedOnce
  <2> SUFFICES ASSUME SettingsInv, NEW k \in Keys
               PROVE  Cardinality(applied[k]) <= 1
    BY DEF AppliedOnce
  <2>1. applied[k] = {} \/ applied[k] = {request[k].ifMatch + 1}
    BY DEF SettingsInv, RequestInv, RequestOK
  <2>2. Cardinality({}) = 0 /\ Cardinality({request[k].ifMatch + 1}) = 1
    BY FS_EmptySet, FS_Singleton
  <2> QED
    BY <2>1, <2>2
<1> QED
  BY <1>1, SettingsInvariant, PTL

\* A retry of a request that was carried out is answered with the revision it
\* brought about, for as long as the ledger has its key.
THEOREM RetriesAreReplayed == Spec => []RetryGetsItsOutcome
<1>1. SettingsInv => RetryGetsItsOutcome
  BY DEF SettingsInv, RequestInv, RequestOK, RetryGetsItsOutcome
<1> QED
  BY <1>1, SettingsInvariant, PTL

\* Whatever is written, refreshed or reset while a snapshot is prepared, the
\* session is pinned to settings that were in force together with the revision
\* named, and to a receipt that lists them.
THEOREM SnapshotsAreBacked == Spec => []SnapshotIsBacked
<1>1. SettingsInv => SnapshotIsBacked
  BY DEF SettingsInv, SnapshotInv, IsPast, SnapshotIsBacked
<1> QED
  BY <1>1, SettingsInvariant, PTL
=============================================================================
