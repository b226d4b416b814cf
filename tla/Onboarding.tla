----------------------------- MODULE Onboarding -----------------------------
(* A business applies for an account on a public page; the staff review the *)
(* application.  The page checks the e-mail address before the transaction  *)
(* that writes the rows, and two staff may review one application at once.  *)
EXTENDS Integers, Sequences

CONSTANTS
    Emails,         \* addresses, as clean_email leaves them: in lower case
    Browsers,       \* those in which the page is open
    Deciders,       \* staff sessions
    Statuses,       \* MerchantApplication.Status, or those of an instance
    MaxReviews      \* bound: rows of the review history

ASSUME OnboardingAssumption ==
    "submitted" \in Statuses /\ MaxReviews \in Nat

VARIABLES
    browser,        \* each browser: [at, email]
    accounts,       \* in order: [email, status], with every row of the account
    deciding,       \* each of the staff: [at, id, previous, new]
    history         \* MerchantApplicationReview rows: [id, from, to]

onboardingVars == <<browser, accounts, deciding, history>>

NoPage   == [at |-> "blank"]
NoReview == [at |-> "idle"]

OnboardingInit ==
    /\ browser = [b \in Browsers |-> NoPage]
    /\ accounts = <<>>
    /\ deciding = [s \in Deciders |-> NoReview]
    /\ history = <<>>

Ids == DOMAIN accounts

-----------------------------------------------------------------------------
(* The application.                                                        *)

HasAccount(e) == \E i \in Ids : accounts[i].email = e

(* The form is valid: what it requires is there and is well formed, the     *)
(* hidden field is empty, and the address is nobody's yet.                 *)
FormIsValid(b, e) ==
    /\ browser[b].at # "checked"
    /\ ~HasAccount(e)
    /\ browser' = [browser EXCEPT ![b] = [at |-> "checked", email |-> e]]
    /\ UNCHANGED <<accounts, deciding, history>>

(* Mutant: the user's name is not the address, so that nothing is unique.   *)
AnyName(e) == TRUE

(* A user's name is unique, and an applicant's is the address.             *)
NameIsFree(e) == ~HasAccount(e)

(* The user, the application, the merchant with its KYB row, its settlement *)
(* account and its documents, in one transaction; the browser's session     *)
(* keeps the reference.                                                    *)
Apply(b) ==
    /\ browser[b].at = "checked"
    /\ NameIsFree(browser[b].email)
    /\ accounts' = Append(accounts, [email |-> browser[b].email, status |-> "submitted"])
    /\ browser' = [browser EXCEPT ![b] = [at |-> "received", id |-> Len(accounts) + 1]]
    /\ UNCHANGED <<deciding, history>>

(* The name is taken meanwhile, or the process dies: nothing is written.    *)
ApplicationFails(b) ==
    /\ browser[b].at = "checked"
    /\ browser' = [browser EXCEPT ![b] = NoPage]
    /\ UNCHANGED <<accounts, deciding, history>>

(* The reference is shown once.                                            *)
ShowReference(b) ==
    /\ browser[b].at = "received"
    /\ browser' = [browser EXCEPT ![b] = NoPage]
    /\ UNCHANGED <<accounts, deciding, history>>

Applicants ==
    \E b \in Browsers :
        \/ \E e \in Emails : FormIsValid(b, e)
        \/ Apply(b) \/ ApplicationFails(b) \/ ShowReference(b)

-----------------------------------------------------------------------------
(* The review, in the transaction of the admin's change page.  The status   *)
(* asked for is the one in the form, which may be the one it was shown.     *)

ReadsPrevious(s, i, new) ==
    /\ deciding[s] = NoReview
    /\ deciding' = [deciding EXCEPT ![s] =
                       [at |-> "saving", id |-> i, new |-> new,
                        previous |-> accounts[i].status]]
    /\ UNCHANGED <<browser, accounts, history>>

(* Mutant: only the first decision on an application is recorded.          *)
FirstReview(r) ==
    IF r.previous = "submitted" /\ r.new # "submitted"
    THEN <<[id |-> r.id, from |-> r.previous, to |-> r.new]>> ELSE <<>>

(* A change of status leaves a row.                                        *)
ReviewRow(r) ==
    IF r.previous # r.new
    THEN <<[id |-> r.id, from |-> r.previous, to |-> r.new]>> ELSE <<>>

(* The whole row is saved, and the review with it.                         *)
SavesReview(s) ==
    /\ deciding[s].at = "saving"
    /\ LET r == deciding[s] IN
       /\ Len(history \o ReviewRow(r)) <= MaxReviews
       /\ history' = history \o ReviewRow(r)
       /\ accounts' = [accounts EXCEPT ![r.id].status = r.new]
    /\ deciding' = [deciding EXCEPT ![s] = NoReview]
    /\ UNCHANGED browser

ReviewFails(s) ==
    /\ deciding[s].at = "saving"
    /\ deciding' = [deciding EXCEPT ![s] = NoReview]
    /\ UNCHANGED <<browser, accounts, history>>

Review ==
    \E s \in Deciders :
        \/ \E i \in Ids, new \in Statuses : ReadsPrevious(s, i, new)
        \/ SavesReview(s) \/ ReviewFails(s)

OnboardingNext == Applicants \/ Review

OnboardingSpec == OnboardingInit /\ [][OnboardingNext]_onboardingVars

-----------------------------------------------------------------------------
(* However the pages are sent, an address has one account, and a reference  *)
(* that a browser is to be shown is of an account that exists and of no     *)
(* other browser's.  (apps/portal/views.py:857, apps/portal/forms.py:143)   *)
OneAccountEach ==
    /\ \A i, j \in Ids : accounts[i].email = accounts[j].email => i = j
    /\ \A b \in Browsers : browser[b].at = "received" =>
           /\ browser[b].id \in Ids
           /\ \A c \in Browsers \ {b} :
                  browser[c].at = "received" => browser[c].id # browser[b].id

(* An application that is not as it was submitted was decided on by a review *)
(* on record, and every review on record goes out from a status that is      *)
(* accounted for in the same way, though two staff save at once and the      *)
(* later one overwrites the row.  (apps/merchants/admin.py:66)              *)
OnRecord(i, st, n) ==
    st = "submitted" \/ \E k \in 1 .. n : history[k].id = i /\ history[k].to = st

DecisionsAreOnRecord ==
    /\ \A i \in Ids : OnRecord(i, accounts[i].status, Len(history))
    /\ \A k \in DOMAIN history :
           OnRecord(history[k].id, history[k].from, k - 1)
=============================================================================
