----------------------------- MODULE OwnerAccess -----------------------------
(***************************************************************************)
(* The owner's sign-in with Google (godaddy/owner-google-auth.ts): one row *)
(* of grants in the database, shared by every process that serves the      *)
(* site, among them a replacement process with another configuration.      *)
(* Sign-in is two requests around a redirect; the second one claims the    *)
(* transaction, talks to Google outside any lock, and then decides in a    *)
(* second transaction what is still allowed.                               *)
(*                                                                         *)
(* A cookie holds what its signed payload says.  Lifetimes are not counted *)
(* but may end at any moment, which allows more than the clock does.       *)
(* Refused requests that leave no trace, rate limits and rolled-back       *)
(* transactions that change nothing are steps that stutter.                *)
(***************************************************************************)
EXTENDS Naturals, FiniteSets

CONSTANTS
  None,              \* no value
  Processes, Browsers,
  Configurations,    \* what the generation is a hash of: client, keys, origin, owner
  Config,            \* [Processes -> Configurations]
  Identity,          \* [Configurations -> owner's address]
  Subjects,          \* Google accounts that may show the owner's address
  Callbacks,         \* requests to the callback route in progress
  MaxFlows,          \* bound: sign-ins begun
  MaxEpochs,         \* bound: revocations and changes of configuration
  MaxPending,        \* transactions kept
  MaxSessions        \* sessions kept

ASSUME AccessAssumption ==
  /\ Config \in [Processes -> Configurations]
  /\ None \notin Configurations \union Subjects
  /\ MaxFlows \in Nat

Flows == 1 .. MaxFlows

VARIABLES
  row,               \* the stored State; its generation is None before the first write
  activated,         \* per process: it has written the row
  jar,               \* per browser: its transaction and session cookies
  callback,          \* per callback: what it holds while it talks to Google
  flow,              \* history: who began each sign-in, when, and what came of it
  epoch              \* history: revocations and reconfigurations so far

vars == <<row, activated, jar, callback, flow, epoch>>

NoFlow == [browser |-> None, generation |-> None, epoch |-> 0, exchanges |-> 0, subject |-> None]

Init ==
  /\ row = [generation |-> None, revocation |-> 0, owner |-> None, sessions |-> {}, transactions |-> {}]
  /\ activated = [p \in Processes |-> FALSE]
  /\ jar = [b \in Browsers |-> [flow |-> 0, session |-> None]]
  /\ callback = [c \in Callbacks |-> None]
  /\ flow = [f \in Flows |-> NoFlow]
  /\ epoch = 0

-----------------------------------------------------------------------------
\* The row belongs to another configuration than this process's.
Foreign(p) == row.generation \notin {None, Config[p]}

\* A process that has been in charge gives way; a new one may take over when it starts a sign-in.
IsStale(p, activates) == Foreign(p) /\ (~activates \/ activated[p])

\* Mutant: a new configuration forgets the owner.
Fresh_Forgets(p) ==
  [generation |-> Config[p], revocation |-> 0, owner |-> None, sessions |-> {}, transactions |-> {}]

\* What a process finds: its row, or an empty one that remembers the owner of the same identity.
Fresh(p) ==
  [generation   |-> Config[p],
   revocation   |-> 0,
   owner        |-> IF Foreign(p) /\ Identity[row.generation] = Identity[Config[p]] THEN row.owner ELSE None,
   sessions     |-> {},
   transactions |-> {}]

StateFor(p) == IF row.generation = Config[p] THEN row ELSE Fresh(p)

\* The session a cookie names.
SessionsIn(p, cookie, state) ==
  {s \in state.sessions : /\ cookie # None /\ state.owner # None
                          /\ cookie.generation = Config[p] /\ cookie.revocation = state.revocation
                          /\ cookie.flow = s.flow}

\* The cookie opens the workspace and authorises actions.
Admits(p, cookie) == ~IsStale(p, FALSE) /\ SessionsIn(p, cookie, StateFor(p)) # {}

-----------------------------------------------------------------------------
\* entry and start: the transaction is stored before the browser is sent to Google.
Start(p, b, f) ==
  /\ flow[f] = NoFlow /\ \A g \in Flows : g < f => flow[g] # NoFlow
  /\ ~IsStale(p, TRUE)
  /\ Cardinality(StateFor(p).transactions) < MaxPending
  /\ Foreign(p) => epoch < MaxEpochs
  /\ LET state == StateFor(p) IN
     row' = [state EXCEPT !.transactions =
               @ \union {[flow |-> f, browser |-> b, revocation |-> state.revocation,
                          status |-> "pending", claim |-> None]}]
  /\ activated' = [activated EXCEPT ![p] = TRUE]
  /\ epoch' = IF Foreign(p) THEN epoch + 1 ELSE epoch
  /\ flow' = [flow EXCEPT ![f] = [NoFlow EXCEPT !.browser = b, !.generation = Config[p], !.epoch = epoch']]
  /\ jar' = [jar EXCEPT ![b].flow = f]
  /\ UNCHANGED callback

\* Mutant: a claimed transaction may be claimed again.
Claimable_Again(p, b) ==
  {t \in row.transactions : /\ jar[b].flow = t.flow /\ flow[t.flow].generation = Config[p]
                            /\ t.browser = b}

\* The transaction a callback request of browser b may claim.
Claimable(p, b) ==
  {t \in row.transactions : /\ jar[b].flow = t.flow /\ flow[t.flow].generation = Config[p]
                            /\ t.browser = b /\ t.status = "pending"}

\* finish, first half: the claim is committed, and Google is asked.
Claim(c, p, b) ==
  /\ callback[c] = None /\ ~IsStale(p, FALSE)
  /\ \E t \in Claimable(p, b) :
       /\ row' = [row EXCEPT !.transactions =
                    (@ \ {t}) \union {[t EXCEPT !.status = "claimed", !.claim = c]}]
       /\ callback' = [callback EXCEPT ![c] =
                         [process |-> p, browser |-> b, flow |-> t.flow, cookie |-> jar[b].session]]
       /\ flow' = [flow EXCEPT ![t.flow].exchanges = @ + 1]
  /\ activated' = [activated EXCEPT ![p] = TRUE]
  /\ UNCHANGED <<jar, epoch>>

\* Google reported an error, or the verifier cannot be read: the transaction is spent.
Spend(p, b) ==
  /\ ~IsStale(p, FALSE)
  /\ \E t \in Claimable(p, b) : row' = [row EXCEPT !.transactions = @ \ {t}]
  /\ activated' = [activated EXCEPT ![p] = TRUE]
  /\ jar' = [jar EXCEPT ![b].flow = 0]
  /\ UNCHANGED <<callback, flow, epoch>>

\* Any other refusal of a callback clears the transaction cookie; one that comes out of
\* the claim has written the row back as it was, and so puts the process in charge.
TurnAway(p, b) ==
  /\ jar[b].flow # 0
  /\ jar' = [jar EXCEPT ![b].flow = 0]
  /\ \/ UNCHANGED activated
     \/ ~IsStale(p, FALSE) /\ activated' = [activated EXCEPT ![p] = TRUE]
  /\ UNCHANGED <<row, callback, flow, epoch>>

\* Mutant: the claim is trusted without looking for it again.
Found_Copy(c, state) ==
  {[flow |-> callback[c].flow, browser |-> callback[c].browser, revocation |-> state.revocation,
    status |-> "claimed", claim |-> c]}

\* The transaction the second half decides on: still there, still claimed by this callback.
Found(c, state) ==
  {t \in state.transactions : /\ t.flow = callback[c].flow /\ t.claim = c /\ t.status = "claimed"
                              /\ t.revocation = state.revocation}

\* Mutant: any account with the address will do.
IsOwner_Any(subject, state) == subject # None

\* The account Google named is the owner, or the first to come.
IsOwner(subject, state) == subject # None /\ state.owner \in {None, subject}

\* The sessions kept beside a new one.
Retained(c, state) ==
  {s \in state.sessions : /\ s \notin SessionsIn(callback[c].process, callback[c].cookie, state)
                          /\ s.browser # callback[c].browser}

\* finish, second half: a session for the browser, or a refusal; None is a failed exchange.
Grant(c, subject) ==
  LET at    == callback[c]
      state == [StateFor(at.process) EXCEPT !.transactions = @ \ Found(c, StateFor(at.process))]
  IN
  /\ callback[c] # None /\ ~IsStale(at.process, FALSE)
  /\ Found(c, StateFor(at.process)) # {} /\ IsOwner(subject, state)
  /\ Cardinality(Retained(c, state)) < MaxSessions
  /\ row' = [state EXCEPT !.owner = subject,
                          !.sessions = Retained(c, state) \union
                            {[flow |-> at.flow, browser |-> at.browser]}]
  /\ flow' = [flow EXCEPT ![at.flow].subject = subject]
  /\ jar' = [jar EXCEPT ![at.browser] =
               [flow |-> 0, session |-> [flow |-> at.flow, generation |-> Config[at.process],
                                         revocation |-> state.revocation]]]
  /\ callback' = [callback EXCEPT ![c] = None]
  /\ activated' = [activated EXCEPT ![at.process] = TRUE]
  /\ UNCHANGED epoch

Refuse(c, subject) ==
  LET at    == callback[c]
      state == StateFor(at.process)
  IN
  /\ callback[c] # None
  /\ \/ IsStale(at.process, FALSE) /\ UNCHANGED row
     \/ /\ ~IsStale(at.process, FALSE)
        /\ Found(c, state) = {} \/ ~IsOwner(subject, state) \/ Cardinality(Retained(c, state)) >= MaxSessions
        /\ row' = [state EXCEPT !.transactions = @ \ Found(c, state)]
  /\ callback' = [callback EXCEPT ![c] = None]
  /\ jar' = [jar EXCEPT ![at.browser].flow = 0]
  /\ UNCHANGED <<activated, flow, epoch>>

\* The second half was rolled back: the claimed transaction stays until it lapses.
Abandon(c) ==
  /\ callback[c] # None
  /\ callback' = [callback EXCEPT ![c] = None]
  /\ UNCHANGED <<row, activated, jar, flow, epoch>>

SignOut(p, b) ==
  /\ jar[b].session # None
  /\ row' = IF IsStale(p, FALSE) THEN row
            ELSE [StateFor(p) EXCEPT !.sessions = @ \ SessionsIn(p, jar[b].session, StateFor(p))]
  /\ activated' = [activated EXCEPT ![p] = @ \/ ~IsStale(p, FALSE)]
  /\ jar' = [jar EXCEPT ![b].session = None]
  /\ UNCHANGED <<callback, flow, epoch>>

\* Everything granted so far, and every sign-in under way, is void.
RevokeAll(p, b) ==
  /\ Admits(p, jar[b].session) /\ epoch < MaxEpochs
  /\ row' = [row EXCEPT !.revocation = @ + 1, !.sessions = {}, !.transactions = {}]
  /\ epoch' = epoch + 1
  /\ jar' = [jar EXCEPT ![b].session = None]
  /\ activated' = [activated EXCEPT ![p] = TRUE]
  /\ UNCHANGED <<callback, flow>>

\* The filters at the head of every transaction: a lifetime has ended.
Lapse ==
  /\ \/ \E t \in row.transactions : row' = [row EXCEPT !.transactions = @ \ {t}]
     \/ \E s \in row.sessions : row' = [row EXCEPT !.sessions = @ \ {s}]
  /\ UNCHANGED <<activated, jar, callback, flow, epoch>>

Restart(p) ==
  /\ activated[p] \/ \E c \in Callbacks : callback[c] # None /\ callback[c].process = p
  /\ activated' = [activated EXCEPT ![p] = FALSE]
  /\ callback' = [c \in Callbacks |->
                    IF callback[c] # None /\ callback[c].process = p THEN None ELSE callback[c]]
  /\ UNCHANGED <<row, jar, flow, epoch>>

-----------------------------------------------------------------------------
Next ==
  \/ \E p \in Processes, b \in Browsers :
       \/ \E f \in Flows : Start(p, b, f)
       \/ \E c \in Callbacks : Claim(c, p, b)
       \/ Spend(p, b) \/ TurnAway(p, b) \/ SignOut(p, b) \/ RevokeAll(p, b)
  \/ \E c \in Callbacks : Abandon(c) \/ \E s \in Subjects \union {None} : Grant(c, s) \/ Refuse(c, s)
  \/ \E p \in Processes : Restart(p)
  \/ Lapse

Spec == Init /\ [][Next]_vars

-----------------------------------------------------------------------------
(***************************************************************************)
(* Revoking access is total: nothing a browser holds is accepted when it   *)
(* comes from a sign-in begun before the last revocation or change of      *)
(* configuration, not even when Google answered that sign-in later         *)
(* (revokeAll and the second transaction of finish).                       *)
(***************************************************************************)
RevocationIsTotal ==
  \A p \in Processes, b \in Browsers :
    Admits(p, jar[b].session) => flow[jar[b].session.flow].epoch = epoch

(***************************************************************************)
(* The verifier of a sign-in is sent to Google at most once, however many  *)
(* callbacks arrive and at whichever process: the claim is committed       *)
(* before the exchange.                                                    *)
(***************************************************************************)
VerifierUsedOnce == \A f \in Flows : flow[f].exchanges <= 1

(***************************************************************************)
(* All the sessions ever granted under one owner's address belong to one   *)
(* Google account, across changes of the other configuration: the account  *)
(* that came first stays the owner (fresh(stored.owner) in transact).      *)
(***************************************************************************)
OneOwner ==
  \A f, g \in Flows :
    /\ flow[f].subject # None /\ flow[g].subject # None
    /\ Identity[flow[f].generation] = Identity[flow[g].generation]
    => flow[f].subject = flow[g].subject

=============================================================================
