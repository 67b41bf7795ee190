------------------------------ MODULE Catalogue ------------------------------
(***************************************************************************)
(* What the subscriptions are known to offer (godaddy/runtime-bootstrap.ts,*)
(* runtime/capability-catalog.ts): a receipt in the database, a copy of it *)
(* in memory, and leases that renew it for the models the owner selected.  *)
(* Refreshes, resets and renewals are serialized; a load is not, and reads *)
(* the database and sets the copy in two steps.                            *)
(*                                                                         *)
(* A receipt is known by its number: receipts are issued in order and live *)
(* equally long, so those up to `expired' have expired.  A selection is    *)
(* one model.  Lifetimes end at any moment.  Left out: that a selection    *)
(* whose renewal has just failed is not tried again for a while (the       *)
(* answer it then gets is the one a failed probe gives), and that a        *)
(* receipt also carries the other provider's models, with the lifetime     *)
(* they had.                                                               *)
(***************************************************************************)
EXTENDS Naturals, Sequences

CONSTANTS
  None,            \* no value
  Models,          \* models the subscriptions may offer
  MaxReceipts,     \* bound: receipts issued
  MaxChanges       \* bound: changes of what the subscriptions offer

\* The first receipt is there from the start.
ASSUME CatalogueAssumption == MaxReceipts \in Nat \ {0} /\ MaxChanges \in Nat

VARIABLES
  offered,         \* models the provider offers now
  changes,         \* how often that changed
  receipts,        \* the receipts issued, in order
  expired,         \* how many of them have expired
  stored,          \* the row of the catalogue; 0 is none
  memory,          \* `catalog'
  leases,          \* per selection and version, the row of its lease
  mutation,        \* the serialized operation in progress
  loader,          \* a load that has read the row
  receipt,         \* the receipt the settings runtime goes by
  ask              \* the question put to ensureCatalogForSettings, and its answer

catalogue == <<offered, changes, receipts, expired, stored, memory, leases, mutation, loader,
               receipt, ask>>

Numbers == 1 .. MaxReceipts

\* createRuntimeCapabilityCatalog: what the probes proved, under one version.
NewReceipt(version, models) == [version |-> version, models |-> models]

\* The process starts with what an earlier one stored.
CatalogueInit ==
  /\ offered = Models /\ changes = 0
  /\ receipts = <<NewReceipt(1, Models)>>
  /\ expired = 0
  /\ stored = Len(receipts)
  /\ memory = 0 /\ receipt = 0
  /\ leases = [m \in Models |-> [v \in Numbers |-> 0]]
  /\ mutation = None /\ loader = None
  /\ ask = None

-----------------------------------------------------------------------------
IsFresh(i) == i > expired

\* validateOwnerSettings: the receipt lists the selection.
Covers(i, m) == i # 0 /\ m \in receipts[i].models

IsUsable(i, m) == IsFresh(i) /\ Covers(i, m)

\* loadCatalog: what is found, and the copy it leaves.
Current == IF IsFresh(memory) THEN memory ELSE stored
Loaded(found) == IF found # 0 THEN found ELSE memory

-----------------------------------------------------------------------------
Offer ==
  /\ changes < MaxChanges
  /\ offered' \in (SUBSET Models) \ {{}, offered}
  /\ changes' = changes + 1
  /\ UNCHANGED <<receipts, expired, stored, memory, leases, mutation, loader, receipt, ask>>

Expire ==
  /\ expired < Len(receipts)
  /\ expired' = expired + 1
  /\ UNCHANGED <<offered, changes, receipts, stored, memory, leases, mutation, loader, receipt, ask>>

\* A request loads the catalogue: from memory at once, or from the database.
LoadBegins ==
  /\ loader = None
  /\ \/ IsFresh(memory) /\ receipt' = memory /\ UNCHANGED loader
     \/ ~IsFresh(memory) /\ loader' = [found |-> stored] /\ UNCHANGED receipt
  /\ UNCHANGED <<offered, changes, receipts, expired, stored, memory, leases, mutation, ask>>

LoadEnds ==
  /\ loader # None
  /\ memory' = Loaded(loader.found)
  /\ receipt' = IF IsFresh(loader.found) THEN loader.found ELSE 0
  /\ loader' = None
  /\ UNCHANGED <<offered, changes, receipts, expired, stored, leases, mutation, ask>>

-----------------------------------------------------------------------------
\* discoverModels tries every candidate with every effort, and keeps those that
\* answer: a probe that fails by itself only leaves its model out, none left is a failure.
Discovered == (SUBSET offered) \ {{}}

\* refreshCatalog, on the owner's request: the provider is asked ...
RefreshProbes ==
  /\ mutation = None
  /\ \E found \in Discovered : mutation' = [op |-> "refresh", models |-> found]
  /\ UNCHANGED <<offered, changes, receipts, expired, stored, memory, leases, loader, receipt, ask>>

\* ... and a new receipt replaces the old one, in the database first.
RefreshStores ==
  /\ mutation # None /\ mutation.op = "refresh" /\ Len(receipts) < MaxReceipts
  /\ LET new == Len(receipts) + 1 IN
     /\ receipts' = Append(receipts, NewReceipt(new, mutation.models))
     /\ stored' = new /\ memory' = new /\ receipt' = new
  /\ mutation' = None
  /\ UNCHANGED <<offered, changes, expired, leases, loader, ask>>

RefreshFails ==
  /\ mutation # None /\ mutation.op = "refresh"
  /\ memory' = IF IsFresh(memory) THEN memory ELSE Loaded(stored)
  /\ mutation' = None
  /\ UNCHANGED <<offered, changes, receipts, expired, stored, leases, loader, receipt, ask>>

\* resetCodexAuthorization, up to the login itself.
Reset ==
  /\ mutation = None
  /\ stored' = 0 /\ memory' = 0
  /\ UNCHANGED <<offered, changes, receipts, expired, leases, mutation, loader, receipt, ask>>

-----------------------------------------------------------------------------
IsOpen == ask # None /\ ask.answer = None

Answer(i) == ask' = [ask EXCEPT !.answer = i]

\* revalidateSelection: the catalogue itself proves the selection.
Answers(i, m, version) == IsUsable(i, m) /\ version \in {0, receipts[i].version}

\* The version a renewal is for: the one asked for, or the catalogue's.
Requested(version) ==
  IF version # 0 THEN version ELSE IF Loaded(Current) = 0 THEN 0 ELSE receipts[Loaded(Current)].version

LeaseFor(m, version) == leases[m][version]

\* The evidence a renewal starts from: an expired lease, or the catalogue of that version.
Evidence(m, version) ==
  IF LeaseFor(m, version) # 0 THEN LeaseFor(m, version)
  ELSE IF Loaded(Current) # 0 /\ receipts[Loaded(Current)].version = version THEN Loaded(Current) ELSE 0

\* ensureCatalogForSettings, with its turn come: loads, and decides what to do.
EnsureBegins ==
  LET m == ask.settings
      version == Requested(ask.version)
      renewal(at, found) == [op |-> "ensure", settings |-> m, version |-> version, at |-> at, found |-> found]
  IN
  /\ IsOpen /\ mutation = None
  /\ memory' = IF IsFresh(memory) THEN memory ELSE Loaded(stored)
  /\ \/ /\ Answers(Current, m, ask.version)
        /\ mutation' = renewal("persisting", Current) /\ UNCHANGED ask
     \/ /\ ~Answers(Current, m, ask.version) /\ version # 0
        /\ LET lease == LeaseFor(m, version) IN
           \/ IsUsable(lease, m) /\ Answer(lease) /\ UNCHANGED mutation
           \/ /\ ~IsUsable(lease, m) /\ Covers(Evidence(m, version), m)
              /\ mutation' = renewal("probing", 0) /\ UNCHANGED ask
           \/ /\ ~IsUsable(lease, m) /\ ~Covers(Evidence(m, version), m)
              /\ Answer(0) /\ UNCHANGED mutation
     \/ /\ ~Answers(Current, m, ask.version) /\ version = 0
        /\ Answer(0) /\ UNCHANGED mutation
  /\ UNCHANGED <<offered, changes, receipts, expired, stored, leases, loader, receipt>>

\* The provider confirms the selection, and no more than it offers now: Codex lists
\* its models, of Claude's only the selected one is tried.
EnsureProbes ==
  /\ mutation # None /\ mutation.op = "ensure" /\ mutation.at = "probing"
  /\ Len(receipts) < MaxReceipts
  /\ \E found \in Discovered :
       mutation.settings \in found /\ receipts' = Append(receipts, NewReceipt(mutation.version, found))
  /\ mutation' = [mutation EXCEPT !.at = "persisting", !.found = Len(receipts) + 1]
  /\ UNCHANGED <<offered, changes, expired, stored, memory, leases, loader, receipt, ask>>

\* A receipt is answered only when its lease is stored.
EnsurePersists ==
  /\ mutation # None /\ mutation.op = "ensure" /\ mutation.at = "persisting"
  /\ leases' = [leases EXCEPT ![mutation.settings][receipts[mutation.found].version] = mutation.found]
  /\ Answer(mutation.found)
  /\ mutation' = None
  /\ UNCHANGED <<offered, changes, receipts, expired, stored, memory, loader, receipt>>

\* The probe, or the storage, failed.
EnsureFails ==
  /\ mutation # None /\ mutation.op = "ensure"
  /\ Answer(0)
  /\ mutation' = None
  /\ UNCHANGED <<offered, changes, receipts, expired, stored, memory, leases, loader, receipt>>

CatalogueNext ==
  \/ Offer \/ Expire
  \/ LoadBegins \/ LoadEnds
  \/ RefreshProbes \/ RefreshStores \/ RefreshFails \/ Reset
  \/ EnsureBegins
  \/ EnsureProbes \/ EnsurePersists \/ EnsureFails

-----------------------------------------------------------------------------
=============================================================================
