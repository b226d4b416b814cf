---------------------------- MODULE MerchantFile ----------------------------
(* What is on file about a merchant: its profile, which the owner completes  *)
(* in the portal and the staff edit, and the KYB review, the documents and   *)
(* the settlement account, which the staff decide on; and how far all this   *)
(* has brought the merchant.  An edit of the staff saves the whole row of a  *)
(* page that may be out of date.                                            *)
EXTENDS Integers

CONSTANTS
    ProfileFields,  \* the fields of the profile
    Completable,    \* those that the owner's form may offer
    Identity,       \* those that identify the business
    Contact,        \* those by which it is reached
    Answers,        \* what a field may be filled with
    Blank,
    OwnerRequests,  \* the owner's requests under way
    Officers        \* staff sessions

ASSUME FileAssumption ==
    /\ Completable \cup Identity \cup Contact \subseteq ProfileFields
    /\ Blank \notin Answers

VARIABLES
    profile,    \* the merchant's row: [file, active]
    kyb,        \* [source, approved]: source of funds known, decision taken
    document,   \* the KYB documents: "none", "submitted", or one is "verified"
    account,    \* settlement account: [verified, primary, open, home]; home:
                \* it is in the merchant's currency
    completing, \* what each of the owner's requests has read, None before
    editing,    \* the row on each officer's page: [of, row]
    completed   \* the fields that the activity log names

fileVars == <<profile, kyb, document, account, completing, editing, completed>>

Entries  == Answers \cup {Blank}
Closed   == [of |-> "nothing"]
Unread   == [at |-> "idle"]

(* As an application leaves it: the form has required the identity and the  *)
(* contact, and the account is primary.                                    *)
FileInit ==
    /\ profile \in [file : [ProfileFields -> Entries], active : {FALSE}]
    /\ \A f \in Identity \cup Contact : profile.file[f] # Blank
    /\ kyb = [source |-> TRUE, approved |-> FALSE]
    /\ document = "submitted"
    /\ account = [verified |-> FALSE, primary |-> TRUE, open |-> TRUE, home |-> TRUE]
    /\ completing = [o \in OwnerRequests |-> Unread]
    /\ editing = [s \in Officers |-> Closed]
    /\ completed = {}

-----------------------------------------------------------------------------
(* activation_status: the checks that pass.                                *)
OnFile(fields) == \A f \in fields : profile.file[f] # Blank

CheckNames ==
    {"business_identity", "contact_details", "source_of_funds",
     "kyb_documents_submitted", "kyb_documents_verified", "kyb_approved",
     "settlement_account_verified", "account_active"}

Passes(c) ==
    CASE c = "business_identity"           -> OnFile(Identity)
      [] c = "contact_details"             -> OnFile(Contact)
      [] c = "source_of_funds"             -> kyb.source
      [] c = "kyb_documents_submitted"     -> document # "none"
      [] c = "kyb_documents_verified"      -> document = "verified"
      [] c = "kyb_approved"                -> kyb.approved
      [] c = "settlement_account_verified" ->
             account.verified /\ account.primary /\ account.open /\ account.home
      [] c = "account_active"              -> profile.active

Checks == {c \in CheckNames : Passes(c)}

CanOperate == Checks = CheckNames

-----------------------------------------------------------------------------
(* The owner.  The view reads the merchant, then locks its row and reads it *)
(* again; the form offers the fields that are blank on the locked row.      *)

OwnerReads(o) ==
    /\ completing[o] = Unread
    /\ completing' = [completing EXCEPT ![o] = [at |-> "read", row |-> profile]]
    /\ UNCHANGED <<profile, kyb, document, account, editing, completed>>

(* Mutant: the row is not read again under the lock.                       *)
AsRead(o) == completing[o].row

LockedRow(o) == profile

Offered(o) == {f \in Completable : LockedRow(o).file[f] = Blank}

(* The whole row is saved; the log names the fields that were offered, those *)
(* left blank too.                                                         *)
OwnerCompletes(o, entries) ==
    /\ completing[o] # Unread
    /\ profile' = IF Offered(o) = {} THEN profile
                  ELSE [LockedRow(o) EXCEPT !.file =
                          [f \in ProfileFields |->
                             IF f \in Offered(o) THEN entries[f] ELSE @[f]]]
    /\ completed' = completed \cup Offered(o)
    /\ completing' = [completing EXCEPT ![o] = Unread]
    /\ UNCHANGED <<kyb, document, account, editing>>

(* The form is not valid, or the process dies.                             *)
OwnerFails(o) ==
    /\ completing[o] # Unread
    /\ completing' = [completing EXCEPT ![o] = Unread]
    /\ UNCHANGED <<profile, kyb, document, account, editing, completed>>

-----------------------------------------------------------------------------
(* The staff.                                                              *)

Opens(s, page) ==
    /\ editing[s] = Closed
    /\ editing' = [editing EXCEPT ![s] = page]
    /\ UNCHANGED <<profile, kyb, document, account, completing, completed>>

Closes(s) == editing' = [editing EXCEPT ![s] = Closed]

(* The merchant's page saves every field it shows.                          *)
SavesMerchant(s) ==
    /\ editing[s].of = "merchant"
    /\ \/ \E b \in BOOLEAN :
              profile' = [editing[s].row EXCEPT !.active = b]
       \/ \E f \in ProfileFields, v \in Entries :
              profile' = [editing[s].row EXCEPT !.file[f] = v]
    /\ Closes(s)
    /\ UNCHANGED <<kyb, document, account, completing, completed>>

SavesAccount(s) ==
    /\ editing[s].of = "account"
    /\ \E flag \in {"verified", "primary", "open", "home"}, b \in BOOLEAN :
           account' = [editing[s].row EXCEPT ![flag] = b]
    /\ Closes(s)
    /\ UNCHANGED <<profile, kyb, document, completing, completed>>

(* What the rail says of an alias: it knows it, it may be debited, and its   *)
(* currency is the merchant's.                                             *)
AliasAnswers == [known : BOOLEAN, canDebit : BOOLEAN, home : BOOLEAN]

FoundActive(answer) == answer.known /\ answer.canDebit

(* What the answer makes of a row: an active alias is verified, in the       *)
(* currency of its account.                                                *)
CheckedRow(row, answer) ==
    IF FoundActive(answer) THEN [row EXCEPT !.verified = TRUE, !.home = answer.home]
                           ELSE [row EXCEPT !.verified = FALSE]

(* The rail is asked about the alias of the row that was read, and that row *)
(* is saved with its answer.                                               *)
VerifiesAlias(s, answer) ==
    /\ editing[s].of = "account"
    /\ account' = CheckedRow(editing[s].row, answer)
    /\ Closes(s)
    /\ UNCHANGED <<profile, kyb, document, completing, completed>>

GivesUp(s) ==
    /\ editing[s] # Closed
    /\ Closes(s)
    /\ UNCHANGED <<profile, kyb, document, account, completing, completed>>

DecidesKyb(source, approved) ==
    /\ kyb' = [source |-> source, approved |-> approved]
    /\ UNCHANGED <<profile, document, account, completing, editing, completed>>

(* Documents are added, deleted, and marked as verified or not.             *)
DecidesDocument(state) ==
    /\ document' = state
    /\ UNCHANGED <<profile, kyb, account, completing, editing, completed>>

FileOwner ==
    \E o \in OwnerRequests :
        \/ OwnerReads(o) \/ OwnerFails(o)
        \/ \E entries \in [Completable -> Entries] : OwnerCompletes(o, entries)

Office ==
    \/ \E s \in Officers :
          \/ Opens(s, [of |-> "merchant", row |-> profile])
          \/ Opens(s, [of |-> "account", row |-> account])
          \/ SavesMerchant(s) \/ SavesAccount(s)
          \/ \E answer \in AliasAnswers : VerifiesAlias(s, answer)
          \/ GivesUp(s)
    \/ \E source, approved \in BOOLEAN : DecidesKyb(source, approved)
    \/ \E state \in {"none", "submitted", "verified"} : DecidesDocument(state)

FileNext == FileOwner \/ Office

FileSpec == FileInit /\ [][FileNext]_fileVars

-----------------------------------------------------------------------------
(* The owner only completes: whatever the staff save meanwhile, a request of *)
(* the owner replaces nothing that is on file, does not change what the      *)
(* merchant may do, undoes no check that passes, and what it fills in is     *)
(* named in the activity log.                                              *)
(* (apps/portal/views.py:684, apps/portal/forms.py:181)                     *)
OwnersOnlyComplete ==
    [][completing' # completing =>
          /\ profile'.active = profile.active
          /\ \A f \in ProfileFields :
                 profile'.file[f] # profile.file[f] =>
                     profile.file[f] = Blank /\ f \in completed'
          /\ Checks \subseteq Checks']_fileVars
=============================================================================
