------------------------------- MODULE Webhooks ------------------------------
(* The delivery of a merchant's webhooks: the endpoints a merchant manages, *)
(* the rows an event makes for them, workers that run `process_webhooks` on *)
(* lists they read before, staff who retry by hand, and an endpoint whose   *)
(* answers may be lost.                                                     *)
EXTENDS Integers, FiniteSets

CONSTANTS
    Events, Tests,   \* events of the merchant, and test pings
    Endpoints,       \* endpoints it may configure
    Malformed,       \* those at a host name whose port does not parse
    Wants,           \* <<event, endpoint>>: the subscriptions
    Workers, Staff,
    MaxAttempts,     \* MAX_ATTEMPTS
    Limit,           \* --limit: rows a worker reads at once
    MaxActive,       \* active endpoints a merchant may add to
    MaxCrashes,      \* bound: workers that die with a POST under way
    MaxReplays,      \* bound: retries by hand
    MaxSelected      \* bound: rows of one retry

ASSUME HooksAssumption ==
    /\ Malformed \subseteq Endpoints
    /\ MaxAttempts \in Nat \ {0}
    /\ Limit \in Nat \ {0}
    /\ MaxActive \in Nat
    /\ MaxCrashes \in Nat /\ MaxReplays \in Nat

Deliveries == (Events \cup Tests) \X Endpoints

VARIABLES
    endpoint,    \* "absent", "active" or "paused"
    status,      \* WebhookDelivery.status, "none" before the row exists
    attempts,    \* WebhookDelivery.attempts
    waiting,     \* rows whose next_retry_at lies ahead
    born,        \* created_at, as the row's place in the order of creation
    history,     \* attempt_number of the WebhookAttempt rows
    received,    \* how often the merchant took the event; AmatoPay cannot see it
    doubts,      \* how often that was not recorded, or was overwritten
    batch,       \* what each worker has read and not yet handled
    overdue,     \* of these, the rows it read as due
    desk,        \* what each member of the staff has selected
    retrying,    \* of these, the row just set back to pending
    crashes, replays

rowVars  == <<status, attempts, waiting, born, history>>
hookVars == <<endpoint, rowVars, received, doubts, batch, overdue, desk,
              retrying, crashes, replays>>

(* Mutant: rows to be retried are not read again.                          *)
OpenPendingOnly == {d \in Deliveries : status[d] = "pending"}

Open == {d \in Deliveries : status[d] \in {"pending", "retrying"}}

Init ==
    /\ endpoint = [e \in Endpoints |-> "absent"]
    /\ status = [d \in Deliveries |-> "none"]
    /\ attempts = [d \in Deliveries |-> 0]
    /\ waiting = {}
    /\ born = [d \in Deliveries |-> 0]
    /\ history = [d \in Deliveries |-> {}]
    /\ received = [d \in Deliveries |-> 0]
    /\ doubts = [d \in Deliveries |-> 0]
    /\ batch = [w \in Workers |-> {}]
    /\ overdue = [w \in Workers |-> {}]
    /\ desk = [s \in Staff |-> {}]
    /\ retrying = [s \in Staff |-> {}]
    /\ crashes = 0 /\ replays = 0

-----------------------------------------------------------------------------
(* The merchant's endpoints.  The limit is looked at when one is created,  *)
(* not when a paused one is activated again.                               *)

Active == {e \in Endpoints : endpoint[e] = "active"}

(* Bound: endpoints change while they matter to an event still to come.     *)
Made(v) == \E d \in Deliveries : d[1] = v /\ status[d] # "none"

Ahead == {v \in Events \cup Tests : ~ Made(v)}

Create(e) ==
    /\ Ahead # {}
    /\ endpoint[e] = "absent"
    /\ Cardinality(Active) < MaxActive
    /\ endpoint' = [endpoint EXCEPT ![e] = "active"]
    /\ UNCHANGED <<rowVars, received, doubts, batch, overdue, desk, retrying,
                   crashes, replays>>

Toggle(e) ==
    /\ \E v \in Ahead : <<v, e>> \in Wants
    /\ endpoint[e] # "absent"
    /\ endpoint' = [endpoint EXCEPT ![e] = IF @ = "active" THEN "paused" ELSE "active"]
    /\ UNCHANGED <<rowVars, received, doubts, batch, overdue, desk, retrying,
                   crashes, replays>>

-----------------------------------------------------------------------------
(* An event makes a row for every active endpoint that subscribes to it,   *)
(* a test in any case one for the endpoint it was asked for.               *)

Subscribers(v) == {e \in Active : <<v, e>> \in Wants}

Queue(v, to) ==
    /\ ~ Made(v)
    /\ status' = [d \in Deliveries |->
                    IF d[1] = v /\ d[2] \in to THEN "pending" ELSE status[d]]
    /\ \E place \in [to -> 1 .. Cardinality(Deliveries)] :
         /\ \A e, f \in to : place[e] = place[f] => e = f
         /\ \A e \in to : \A d \in Deliveries : born[d] < place[e]
         /\ \A e \in to : place[e] <= Cardinality(to) +
                              Cardinality({d \in Deliveries : born[d] # 0})
         /\ born' = [d \in Deliveries |->
                       IF d[1] = v /\ d[2] \in to THEN place[d[2]] ELSE born[d]]
    /\ UNCHANGED <<endpoint, attempts, waiting, history, received, doubts, batch,
                   overdue, desk, retrying, crashes, replays>>

Emit(v) == v \in Events /\ Subscribers(v) # {} /\ Queue(v, Subscribers(v))

Ping(v, e) ==
    /\ v \in Tests
    /\ endpoint[e] # "absent"
    /\ Queue(v, Subscribers(v) \cup {e})

-----------------------------------------------------------------------------
(* deliver(): one transaction that locks the row, posts and stores.        *)

(* Mutant: the finished row is posted again.                               *)
DeliverableAgain(d) == attempts[d] < MaxAttempts

Deliverable(d) == status[d] # "delivered" /\ attempts[d] < MaxAttempts

Count(d) ==
    /\ attempts' = [attempts EXCEPT ![d] = @ + 1]
    /\ history' = [history EXCEPT ![d] = @ \cup {attempts[d] + 1}]

(* The URL of a malformed endpoint is not read without an exception.        *)
Readable(d) == d[2] \notin Malformed

Accepted(d) ==
    /\ Deliverable(d) /\ Readable(d)
    /\ Count(d)
    /\ received' = [received EXCEPT ![d] = @ + 1]
    /\ status' = [status EXCEPT ![d] = "delivered"]
    /\ waiting' = waiting \ {d}
    /\ UNCHANGED <<born, doubts>>

(* Another answer or none; the merchant may have taken the event all the   *)
(* same and only its answer be lost.                                       *)
Refused(d, lost) ==
    /\ Deliverable(d) /\ Readable(d)
    /\ Count(d)
    /\ received' = [received EXCEPT ![d] = IF lost THEN @ + 1 ELSE @]
    /\ doubts' = [doubts EXCEPT ![d] = IF lost THEN @ + 1 ELSE @]
    /\ status' = [status EXCEPT ![d] =
                    IF attempts[d] + 1 < MaxAttempts THEN "retrying" ELSE "failed"]
    /\ waiting' = IF attempts[d] + 1 < MaxAttempts
                  THEN waiting \cup {d} ELSE waiting \ {d}
    /\ UNCHANGED born

(* The URL is refused before the POST, a host that does not resolve too.   *)
BadUrl(d) ==
    /\ Deliverable(d) /\ Readable(d)
    /\ Count(d)
    /\ status' = [status EXCEPT ![d] = "failed"]
    /\ waiting' = waiting \ {d}
    /\ UNCHANGED <<born, received, doubts>>

(* Every attempt was made before: a retry by hand put the row here.        *)
GiveUp(d) ==
    /\ status[d] # "delivered"
    /\ attempts[d] >= MaxAttempts
    /\ status' = [status EXCEPT ![d] = "failed"]
    /\ waiting' = waiting \ {d}
    /\ UNCHANGED <<attempts, born, history, received, doubts>>

AlreadyDelivered(d) ==
    /\ status[d] = "delivered"
    /\ UNCHANGED <<rowVars, received, doubts>>

(* Or no result: the exception that reading the URL raises is not caught,    *)
(* nothing is stored and the caller ends with it.                          *)
Raises(d) == Deliverable(d) /\ ~ Readable(d)

Deliver(d) ==
    \/ Accepted(d)
    \/ \E lost \in BOOLEAN : Refused(d, lost)
    \/ BadUrl(d)
    \/ GiveUp(d)
    \/ AlreadyDelivered(d)

-----------------------------------------------------------------------------
(* The workers.                                                            *)

Oldest(d) == Cardinality({x \in Open : born[x] < born[d]}) < Limit

ReadBatch(w) ==
    /\ batch[w] = {}
    /\ Open # {}
    /\ batch' = [batch EXCEPT ![w] = {d \in Open : Oldest(d)}]
    /\ overdue' = [overdue EXCEPT ![w] = {d \in Open : Oldest(d)} \ waiting]
    /\ UNCHANGED <<endpoint, rowVars, received, doubts, desk, retrying, crashes, replays>>

Handled(w, d) ==
    /\ batch' = [batch EXCEPT ![w] = @ \ {d}]
    /\ overdue' = [overdue EXCEPT ![w] = @ \ {d}]

(* A batch is handled in the order of creation.                            *)
IsNext(w, d) == d \in batch[w] /\ \A x \in batch[w] : born[d] <= born[x]

(* The time read with the row decides, not the row's own.  A row read as   *)
(* not yet due may have become so before its turn.                         *)
WorkerDelivers(w, d) ==
    /\ IsNext(w, d)
    /\ Deliver(d)
    /\ Handled(w, d)
    /\ UNCHANGED <<endpoint, desk, retrying, crashes, replays>>

WorkerSkips(w, d) ==
    /\ IsNext(w, d) /\ d \notin overdue[w]
    /\ Handled(w, d)
    /\ UNCHANGED <<endpoint, rowVars, received, doubts, desk, retrying, crashes, replays>>

(* The exception ends the batch: the rows behind are not handled.           *)
WorkerRaises(w, d) ==
    /\ IsNext(w, d)
    /\ Raises(d)
    /\ batch' = [batch EXCEPT ![w] = {}]
    /\ overdue' = [overdue EXCEPT ![w] = {}]
    /\ UNCHANGED <<endpoint, rowVars, received, doubts, desk, retrying, crashes, replays>>

(* The process dies, or the database refuses what is to be stored, after    *)
(* the merchant took the event and before the commit.                      *)
WorkerDies(w, d) ==
    /\ crashes < MaxCrashes
    /\ IsNext(w, d) /\ Readable(d)
    /\ Deliverable(d)
    /\ received' = [received EXCEPT ![d] = @ + 1]
    /\ doubts' = [doubts EXCEPT ![d] = @ + 1]
    /\ crashes' = crashes + 1
    /\ batch' = [batch EXCEPT ![w] = {}]
    /\ overdue' = [overdue EXCEPT ![w] = {}]
    /\ UNCHANGED <<endpoint, rowVars, desk, retrying, replays>>

RetryTimeComes(d) ==
    /\ d \in waiting
    /\ waiting' = waiting \ {d}
    /\ UNCHANGED <<endpoint, status, attempts, born, history, received, doubts,
                   batch, overdue, desk, retrying, crashes, replays>>

-----------------------------------------------------------------------------
(* Staff: rows are selected, then each is set back to pending without a    *)
(* look at what it has become, and delivered at once.                      *)

Select(s, rows) ==
    /\ desk[s] = {} /\ retrying[s] = {}
    /\ rows # {}
    /\ \A d \in rows : status[d] \notin {"none", "delivered"}
    /\ Cardinality(rows) <= MaxSelected
    /\ replays < MaxReplays
    /\ replays' = replays + 1
    /\ desk' = [desk EXCEPT ![s] = rows]
    /\ UNCHANGED <<endpoint, rowVars, received, doubts, batch, overdue, retrying, crashes>>

(* Mutants: the retry starts counting anew; it leaves the delay.           *)
SetPendingAnew(s, d) ==
    /\ d \in desk[s] /\ retrying[s] = {}
    /\ status' = [status EXCEPT ![d] = "pending"]
    /\ attempts' = [attempts EXCEPT ![d] = 0]
    /\ waiting' = waiting \ {d}
    /\ doubts' = [doubts EXCEPT ![d] = IF status[d] = "delivered" THEN @ + 1 ELSE @]
    /\ desk' = [desk EXCEPT ![s] = @ \ {d}]
    /\ retrying' = [retrying EXCEPT ![s] = {d}]
    /\ UNCHANGED <<endpoint, born, history, received, batch, overdue, crashes, replays>>

SetPendingWaiting(s, d) ==
    /\ d \in desk[s] /\ retrying[s] = {}
    /\ status' = [status EXCEPT ![d] = "pending"]
    /\ doubts' = [doubts EXCEPT ![d] = IF status[d] = "delivered" THEN @ + 1 ELSE @]
    /\ desk' = [desk EXCEPT ![s] = @ \ {d}]
    /\ retrying' = [retrying EXCEPT ![s] = {d}]
    /\ UNCHANGED <<endpoint, attempts, waiting, born, history, received, batch,
                   overdue, crashes, replays>>

SetPending(s, d) ==
    /\ d \in desk[s] /\ retrying[s] = {}
    /\ status' = [status EXCEPT ![d] = "pending"]
    /\ waiting' = waiting \ {d}
    /\ doubts' = [doubts EXCEPT ![d] = IF status[d] = "delivered" THEN @ + 1 ELSE @]
    /\ desk' = [desk EXCEPT ![s] = @ \ {d}]
    /\ retrying' = [retrying EXCEPT ![s] = {d}]
    /\ UNCHANGED <<endpoint, attempts, born, history, received, batch, overdue,
                   crashes, replays>>

StaffDelivers(s, d) ==
    /\ d \in retrying[s]
    /\ Deliver(d)
    /\ retrying' = [retrying EXCEPT ![s] = {}]
    /\ UNCHANGED <<endpoint, batch, overdue, desk, crashes, replays>>

(* The exception ends the request; the row stays pending.                   *)
StaffRaises(s, d) ==
    /\ d \in retrying[s]
    /\ Raises(d)
    /\ desk' = [desk EXCEPT ![s] = {}]
    /\ retrying' = [retrying EXCEPT ![s] = {}]
    /\ UNCHANGED <<endpoint, rowVars, received, doubts, batch, overdue, crashes, replays>>

-----------------------------------------------------------------------------
Worker(w) ==
    \/ ReadBatch(w)
    \/ \E d \in Deliveries :
         WorkerDelivers(w, d) \/ WorkerSkips(w, d) \/ WorkerRaises(w, d)

Next ==
    \/ \E e \in Endpoints : Create(e) \/ Toggle(e)
    \/ \E v \in Events : Emit(v)
    \/ \E v \in Tests, e \in Endpoints : Ping(v, e)
    \/ \E w \in Workers : Worker(w)
    \/ \E w \in Workers, d \in Deliveries : WorkerDies(w, d)
    \/ \E d \in Deliveries : RetryTimeComes(d)
    \/ \E s \in Staff :
         \/ \E rows \in SUBSET Deliveries : Select(s, rows)
         \/ \E d \in Deliveries :
              SetPending(s, d) \/ StaffDelivers(s, d) \/ StaffRaises(s, d)

Spec == Init /\ [][Next]_hookVars

(* A worker goes on (each POST has a timeout), and delays pass.            *)
Fairness ==
    /\ \A w \in Workers : WF_hookVars(Worker(w))
    /\ \A d \in Deliveries : WF_hookVars(RetryTimeComes(d))

FairSpec == Spec /\ Fairness

-----------------------------------------------------------------------------
(* The rows and the memory of workers and staff keep their types, and no   *)
(* row counts more attempts than MAX_ATTEMPTS.                             *)
HooksTypeOK ==
    /\ endpoint \in [Endpoints -> {"absent", "active", "paused"}]
    /\ status \in [Deliveries -> {"none", "pending", "retrying", "delivered", "failed"}]
    /\ attempts \in [Deliveries -> 0 .. MaxAttempts]
    /\ waiting \subseteq Deliveries
    /\ born \in [Deliveries -> Nat]
    /\ history \in [Deliveries -> SUBSET (1 .. MaxAttempts)]
    /\ received \in [Deliveries -> Nat]
    /\ doubts \in [Deliveries -> Nat]
    /\ batch \in [Workers -> SUBSET Deliveries]
    /\ overdue \in [Workers -> SUBSET Deliveries]
    /\ desk \in [Staff -> SUBSET Deliveries]
    /\ retrying \in [Staff -> SUBSET Deliveries]
    /\ crashes \in 0 .. MaxCrashes /\ replays \in 0 .. MaxReplays

(* The audit is whole: the attempts of a row are numbered from one without *)
(* a gap or a repeat, at most MAX_ATTEMPTS of them, however workers, staff *)
(* and crashes alternate, and a row that ended has at least one.           *)
AttemptsAreRecorded ==
    \A d \in Deliveries :
        /\ history[d] = 1 .. attempts[d]
        /\ status[d] \in {"delivered", "failed", "retrying"} => attempts[d] > 0

(* A merchant that gets an event again has a lost answer, a crash or a     *)
(* retry over a finished delivery to thank for it: two workers with the    *)
(* same stale list never cause it.  And what is recorded as delivered was. *)
DuplicatesHaveACause ==
    \A d \in Deliveries :
        /\ received[d] <= doubts[d] + (IF status[d] = "delivered" THEN 1 ELSE 0)
        /\ status[d] = "delivered" => received[d] > 0

(* Whatever a worker or the staff made of it last, a row that is to be       *)
(* retried has an attempt left, and only such a row waits: one the staff set  *)
(* back is due at once.  (apps/webhooks/services.py:179)                     *)
RetriesHaveAttemptsLeft ==
    \A d \in Deliveries :
        /\ status[d] = "retrying" => attempts[d] < MaxAttempts
        /\ d \in waiting => status[d] = "retrying"

(* A row whose URL cannot be read, d or older than d: it is never counted     *)
(* and stays open, and each batch ends with it.                            *)
Blocked(d) ==
    \E x \in Deliveries :
        status[x] \in {"pending", "retrying"} /\ Raises(x) /\ born[x] <= born[d]

(* Every row ends, one way or the other, also those behind --limit, unless   *)
(* a row that raises stands before it.  (apps/webhooks/services.py:195)      *)
EveryDeliveryEnds ==
    \A d \in Deliveries :
        status[d] \in {"pending", "retrying"}
            ~> status[d] \in {"delivered", "failed"} \/ Blocked(d)
=============================================================================
