--------------------------- MODULE SessionSnapshot ---------------------------
(***************************************************************************)
(* What a new consultation is pinned to: prepareConsultationSnapshot of    *)
(* godaddy/settings-runtime.ts reads the saved settings, has the catalogue *)
(* prove them, reads the settings again and resolves both into a snapshot  *)
(* (settings/snapshot.ts).  The owner may write, refresh or reset between  *)
(* any two of these steps.  Before work starts the runtime asks for the    *)
(* snapshot's version once more (godaddy/consilium-runtime.ts).            *)
(*                                                                         *)
(* The composition of Catalogue and OwnerSettings.                         *)
(***************************************************************************)
EXTENDS OwnerSettings

VARIABLES
  prepare,         \* the snapshot under preparation
  snapshot         \* the snapshot of the session that is to run

vars == <<catalogue, settings, prepare, snapshot>>

Init ==
  /\ CatalogueInit /\ SettingsInit
  /\ prepare = None
  /\ snapshot = None

-----------------------------------------------------------------------------
\* The saved settings are read, and the catalogue asked about them.
ReadSaved ==
  /\ prepare = None /\ snapshot = None /\ document.schema # "none"
  /\ ask' = [settings |-> document.settings, version |-> 0, answer |-> None]
  /\ prepare' = [at |-> "asking", current |-> 0, revision |-> 0, settings |-> None]
  /\ UNCHANGED <<offered, changes, receipts, expired, stored, memory, leases, mutation, loader,
                 receipt, settings, snapshot>>

\* The answer also becomes the receipt the settings runtime goes by.
TakeReceipt ==
  /\ prepare # None /\ prepare.at = "asking" /\ ask.answer # None
  /\ receipt' = ask.answer
  /\ prepare' = IF ask.answer = 0 THEN None
                ELSE [prepare EXCEPT !.at = "proved", !.current = ask.answer]
  /\ ask' = None
  /\ UNCHANGED <<offered, changes, receipts, expired, stored, memory, leases, mutation, loader,
                 settings, snapshot>>

\* OwnerSettingsDO.read: the document as it is now, by whatever receipt is current now.
ReadAgain ==
  /\ prepare # None /\ prepare.at = "proved"
  /\ prepare' = IF document.schema = "current" /\ IsUsable(receipt, document.settings)
                THEN [prepare EXCEPT !.at = "read", !.revision = document.revision,
                                     !.settings = document.settings]
                ELSE None
  /\ UNCHANGED <<catalogue, settings, snapshot>>

\* Mutant: the settings were found effective, and are not compared with this receipt again.
IsResolved_Effective == TRUE

\* resolveEffectiveSessionSnapshot.
IsResolved == IsUsable(prepare.current, prepare.settings)

Resolve ==
  /\ prepare # None /\ prepare.at = "read"
  /\ snapshot' = IF IsResolved
                 THEN [revision |-> prepare.revision, settings |-> prepare.settings,
                       receipt |-> prepare.current, version |-> receipts[prepare.current].version]
                 ELSE None
  /\ prepare' = None
  /\ UNCHANGED <<catalogue, settings>>

\* The runtime asks again before it runs the session; a new one may follow.
Check ==
  /\ snapshot # None /\ ask = None
  /\ ask' = [settings |-> snapshot.settings, version |-> snapshot.version, answer |-> None]
  /\ UNCHANGED <<offered, changes, receipts, expired, stored, memory, leases, mutation, loader,
                 receipt, settings, prepare, snapshot>>

Checked ==
  /\ snapshot # None /\ ask # None /\ ask.answer # None
  /\ ask' = None
  /\ snapshot' = None
  /\ UNCHANGED <<offered, changes, receipts, expired, stored, memory, leases, mutation, loader,
                 receipt, settings, prepare>>

Next ==
  \/ CatalogueNext /\ UNCHANGED <<settings, prepare, snapshot>>
  \/ SettingsNext /\ UNCHANGED <<catalogue, prepare, snapshot>>
  \/ ReadSaved \/ TakeReceipt \/ ReadAgain \/ Resolve \/ Check \/ Checked

Spec == Init /\ [][Next]_vars

-----------------------------------------------------------------------------
(***************************************************************************)
(* A session is pinned to one revision of the owner's settings, with the   *)
(* settings that revision put in force, and to a catalogue version whose   *)
(* receipt lists them, although the settings may have been written and the *)
(* catalogue replaced while the snapshot was prepared.                     *)
(***************************************************************************)
SnapshotIsBacked ==
  snapshot # None =>
    /\ inForce[snapshot.revision] = snapshot.settings
    /\ Covers(snapshot.receipt, snapshot.settings)

=============================================================================
