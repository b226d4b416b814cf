--------------------------- MODULE FiduciarySync ----------------------------
(* AmatoPay's own registrations on the rail, copied to the database: the    *)
(* fiduciary account that stands for the creditor alias, and the shared QR   *)
(* code with its extensions.  Each sync asks the rail first and writes what  *)
(* it was told afterwards, in one transaction that locks the single row.     *)
(* The rail's registrations are numbered; the newer replaces the older.      *)
EXTENDS Integers

CONSTANTS
    Syncs,              \* processes running a sync command
    Extensions,         \* ids of QR extensions
    MaxRegistration     \* bound: registrations of the QR code

ASSUME SyncAssumption == MaxRegistration \in Nat

VARIABLES
    registered,     \* at the rail: the number and the extensions of the QR
    qrRow,          \* FiduciaryQRCode: the registration copied, 0: no row
    qrExtensions,   \* FiduciaryQRExtension rows: id and registration
    accountRow,     \* FiduciaryAccount: the alias it is verified for, 0: none
    alias,          \* the creditor alias of the active gateway configuration
    told            \* what the rail has told each sync

syncVars == <<registered, qrRow, qrExtensions, accountRow, alias, told>>

Nothing == [about |-> "nothing", number |-> 0, extensions |-> {}]

SyncInit ==
    /\ registered = [number |-> 1, extensions |-> {}]
    /\ qrRow = 0 /\ qrExtensions = {}
    /\ accountRow = 0 /\ alias = 1
    /\ told = [s \in Syncs |-> Nothing]

(* The rail rotates the extensions on its own.                             *)
Rotate(extensions) ==
    /\ registered.number < MaxRegistration
    /\ registered' = [number |-> registered.number + 1, extensions |-> extensions]
    /\ UNCHANGED <<qrRow, qrExtensions, accountRow, alias, told>>

(* The staff put another creditor alias in the configuration.              *)
ChangeAlias ==
    /\ alias < MaxRegistration
    /\ alias' = alias + 1
    /\ UNCHANGED <<registered, qrRow, qrExtensions, accountRow, told>>

Hears(s, answer) ==
    /\ told[s] = Nothing
    /\ told' = [told EXCEPT ![s] = answer]
    /\ UNCHANGED <<registered, qrRow, qrExtensions, accountRow, alias>>

ScanQR(s) ==
    Hears(s, [about |-> "qr", number |-> registered.number,
              extensions |-> registered.extensions])

VerifyAlias(s) ==
    Hears(s, [about |-> "alias", number |-> alias, extensions |-> {}])

(* The sync dies, or the rail's answer is not one it can use.               *)
GiveUpSync(s) ==
    /\ told[s] # Nothing
    /\ told' = [told EXCEPT ![s] = Nothing]
    /\ UNCHANGED <<registered, qrRow, qrExtensions, accountRow, alias>>

(* Mutant: extensions that are no longer returned are kept.                *)
MergedExtensions(answer) ==
    {e \in qrExtensions : e.id \notin answer.extensions} \cup
    {[id |-> x, of |-> answer.number] : x \in answer.extensions}

(* Updated or created under their id, and the others deleted.              *)
SyncedExtensions(answer) ==
    {[id |-> x, of |-> answer.number] : x \in answer.extensions}

SaveQR(s) ==
    /\ told[s].about = "qr"
    /\ qrRow' = told[s].number
    /\ qrExtensions' = SyncedExtensions(told[s])
    /\ told' = [told EXCEPT ![s] = Nothing]
    /\ UNCHANGED <<registered, accountRow, alias>>

SaveAccount(s) ==
    /\ told[s].about = "alias"
    /\ accountRow' = told[s].number
    /\ told' = [told EXCEPT ![s] = Nothing]
    /\ UNCHANGED <<registered, qrRow, qrExtensions, alias>>

Sync(s) ==
    \/ ScanQR(s) \/ SaveQR(s)
    \/ VerifyAlias(s) \/ SaveAccount(s)
    \/ GiveUpSync(s)

SyncNext ==
    \/ \E s \in Syncs : Sync(s)
    \/ \E extensions \in SUBSET Extensions : Rotate(extensions)
    \/ ChangeAlias

SyncSpec == SyncInit /\ [][SyncNext]_syncVars

-----------------------------------------------------------------------------
(* The QR code and its extensions in the database are always those of one   *)
(* scan, whichever of several syncs wrote last: no extension is left of an  *)
(* earlier one.  (apps/fiduciary/services.py:252)                          *)
SnapshotIsOneScan == \A e \in qrExtensions : e.of = qrRow
=============================================================================
