---------------------------- MODULE OwnerSettings ----------------------------
(***************************************************************************)
(* The owner's settings (settings/owner-settings-do.ts): one document with *)
(* a revision, written under If-Match, and a ledger of idempotency keys    *)
(* that is kept short.  The receipt a request is judged by is read before  *)
(* the database transaction; an answer may be lost on its way, and the     *)
(* request sent again.                                                     *)
(*                                                                         *)
(* A request is one save or reset with its key; its settings are a model,  *)
(* for a reset the default.  Malformed bodies, headers and reused keys are *)
(* refused without a trace and left out, and so are the audit records,     *)
(* which hold a hash of the request and decide nothing.                    *)
(***************************************************************************)
EXTENDS Catalogue, FiniteSets

CONSTANTS
  Keys,            \* requests, by their idempotency key
  Default,         \* the model the defaults of every receipt name
  MaxRevision      \* bound: revisions of the document

\* The defaults name a model there is, and an earlier release has written revision 1.
ASSUME SettingsAssumption == Default \in Models /\ MaxRevision \in Nat \ {0}

VARIABLES
  document,        \* the settings row: its schema, revision and settings
  inForce,         \* history: per revision, the settings it put in force
  ledger,          \* the idempotency ledger: per key, the revision it brought about, or 0
  request,         \* per key: the request in flight, or its answer
  applied          \* history: revisions each key brought about

settings == <<document, inForce, ledger, request, applied>>

Revisions == 1 .. MaxRevision

\* No document yet, or one that an earlier release wrote.
SettingsInit ==
  /\ document \in {[schema |-> "none", revision |-> 0, settings |-> None],
                   [schema |-> "legacy", revision |-> 1, settings |-> Default]}
  /\ inForce = [r \in Revisions |-> IF r = document.revision THEN document.settings ELSE None]
  /\ ledger = [k \in Keys |-> 0]
  /\ request = [k \in Keys |-> None]
  /\ applied = [k \in Keys |-> {}]

-----------------------------------------------------------------------------
\* Writes the next revision, with settings m.
Revise(m) ==
  /\ document.revision < MaxRevision
  /\ document' = [schema |-> "current", revision |-> document.revision + 1, settings |-> m]
  /\ inForce' = [inForce EXCEPT ![document.revision + 1] = m]

\* initialize: the defaults if they are valid, or the old document as a new revision.
Initialize ==
  /\ IsFresh(receipt)
  /\ \/ document.schema = "none" /\ Covers(receipt, Default) /\ Revise(Default)
     \/ document.schema = "legacy" /\ Revise(document.settings)
  /\ UNCHANGED <<ledger, request, applied>>

\* #write up to its transaction: the receipt is read; without one the request fails.
Received(m, r) == [at |-> "received", settings |-> m, ifMatch |-> r, receipt |-> receipt, answer |-> None]

\* The owner sends new settings for a revision that was on the screen.
Send(k, m, r) ==
  /\ request[k] = None /\ document.schema = "current" /\ r <= document.revision /\ IsFresh(receipt)
  /\ request' = [request EXCEPT ![k] = Received(m, r)]
  /\ UNCHANGED <<document, inForce, ledger, applied>>

\* A key that was not sent has no request.
ASSUME NoRequestAssumption ==
  None \notin [at : {"received", "answered"}, settings : Models, ifMatch : Revisions,
               receipt : Nat, answer : 0..MaxRevision \cup {None}]

IsReceived(k) == request[k] # None /\ request[k].at = "received"

\* The answer is the revision written, or 0 for a refusal.
Answered(k, revision) ==
  request' = [request EXCEPT ![k].at = "answered", ![k].receipt = 0, ![k].answer = revision]

\* Mutant: a request that was carried out is told so only if nothing followed it.
IsReplay_IfCurrent(k) == ledger[k] # 0 /\ request[k].ifMatch = document.revision

IsReplay(k) == ledger[k] # 0

Replay(k) ==
  /\ IsReceived(k) /\ IsReplay(k)
  /\ Answered(k, ledger[k])
  /\ UNCHANGED <<document, inForce, ledger, applied>>

\* Mutant: the ledger alone keeps a request from being carried out twice.
Matches_Any(k) == TRUE

Matches(k) == request[k].ifMatch = document.revision

Write(k) ==
  /\ IsReceived(k) /\ ~IsReplay(k)
  /\ Covers(request[k].receipt, request[k].settings) /\ Matches(k)
  /\ Revise(request[k].settings)
  /\ ledger' = [ledger EXCEPT ![k] = document.revision + 1]
  /\ applied' = [applied EXCEPT ![k] = @ \union {document.revision + 1}]
  /\ Answered(k, document.revision + 1)

\* The settings are not valid by the receipt, or the document has moved on.
Reject(k) ==
  /\ IsReceived(k) /\ ~IsReplay(k)
  /\ ~Covers(request[k].receipt, request[k].settings) \/ ~Matches(k)
  /\ Answered(k, 0)
  /\ UNCHANGED <<document, inForce, ledger, applied>>

\* The answer was lost, or the transaction failed: the same request is sent again.
Retry(k) ==
  /\ request[k] # None /\ IsFresh(receipt)
  /\ request' = [request EXCEPT ![k] = Received(request[k].settings, request[k].ifMatch)]
  /\ UNCHANGED <<document, inForce, ledger, applied>>

\* The 24 hours of an entry are over, or 64 newer ones have come.
Forget(k) ==
  /\ ledger[k] # 0
  /\ ledger' = [ledger EXCEPT ![k] = 0]
  /\ UNCHANGED <<document, inForce, request, applied>>

SettingsNext ==
  \/ Initialize
  \/ \E k \in Keys : \/ \E m \in Models, r \in Revisions : Send(k, m, r)
                     \/ Replay(k) \/ Write(k) \/ Reject(k) \/ Retry(k) \/ Forget(k)

-----------------------------------------------------------------------------
(***************************************************************************)
(* A request takes effect at most once, however often it is sent and even  *)
(* when the ledger, which keeps 64 entries for 24 hours, has forgotten its *)
(* key: If-Match then stands in its way (#write).                          *)
(***************************************************************************)
AppliedOnce == \A k \in Keys : Cardinality(applied[k]) <= 1

(***************************************************************************)
(* As long as the ledger remembers a request that was carried out, its     *)
(* retry is answered with its own revision and never with the conflict     *)
(* that later revisions would mean (the ledger is consulted before         *)
(* If-Match, and before the receipt of the day).                           *)
(***************************************************************************)
RetryGetsItsOutcome ==
  \A k \in Keys :
    ledger[k] # 0 /\ request[k].at = "answered" => request[k].answer = ledger[k]

=============================================================================
