----------------------------- MODULE QRDiscovery ----------------------------
(* Payments made by scanning AmatoPay's shared QR.  The rail does not say  *)
(* which order a transfer pays: `poll_qr_payments` searches the ledger of  *)
(* transfers for one of the order's amount in the order's time window and  *)
(* hands it to the collection reconciler.  Due times and backoff are left  *)
(* open: a batch takes any of the open watches.                            *)
EXTENDS Integers, FiniteSets

CONSTANTS
    Orders,      \* payments of the QR method
    Transfers,   \* transactions on AmatoPay's account
    Pollers,     \* processes running poll_qr_payments
    Amount,      \* the amount of each order
    Value,       \* the amount of each transfer
    Meant,       \* the order its payer means, None when it is a stranger's
    Rows,        \* PAGE_SIZE: the rows a search reads at least
    Lookback,    \* LOOKBACK_BUFFER
    Life,        \* the life of a session
    MaxTime,     \* bound: the clock stops here
    None

ASSUME QRAssumption ==
    /\ Amount \in [Orders -> Nat]
    /\ Value \in [Transfers -> Nat]
    /\ Meant \in [Transfers -> Orders \cup {None}]
    /\ Rows \in Nat /\ Lookback \in Nat /\ Life \in Nat
    /\ MaxTime \in Nat /\ Lookback <= MaxTime
    /\ None \notin Transfers \cup Orders \cup Int

VARIABLES
    now,        \* the clock
    paid,       \* when each transfer was made, None before
    byQr,       \* the transfers the rail marks isQrPayment
    opened,     \* when each order's watch was opened
    watch,      \* QRPaymentWatch.status
    sighted,    \* QRPaymentWatch.matched_trx_ref
    coll,       \* the transfer of the order's GatewayRequest
    status,     \* Payment.status
    poller,     \* what each poller has in hand
    cut         \* history: orders a poller died on between match and record

qrVars  == <<now, paid, byQr, opened, watch, sighted, coll, status, poller, cut>>
ledger  == <<paid, byQr>>
rowVars == <<opened, watch, sighted, coll, status>>

Idle == [at |-> 0, todo |-> {}, on |-> None, trx |-> None, stage |-> "next"]

Init ==
    /\ now = Lookback
    /\ paid = [t \in Transfers |-> None]
    /\ byQr = {}
    /\ opened = [o \in Orders |-> None]
    /\ watch = [o \in Orders |-> "none"]
    /\ sighted = [o \in Orders |-> None]
    /\ coll = [o \in Orders |-> None]
    /\ status = [o \in Orders |-> "created"]
    /\ poller = [p \in Pollers |-> Idle]
    /\ cut = {}

-----------------------------------------------------------------------------
(* The checkout and the payers.                                            *)

(* A QR checkout; a scan that fails rolls all of it back.                  *)
OpenWatch(o) ==
    /\ watch[o] = "none"
    /\ now + Life <= MaxTime    \* bound: the clock outlives the session
    /\ opened' = [opened EXCEPT ![o] = now]
    /\ watch' = [watch EXCEPT ![o] = "watching"]
    /\ status' = [status EXCEPT ![o] = "qr_pending"]
    /\ UNCHANGED <<now, ledger, sighted, coll, poller, cut>>

(* Somebody pays AmatoPay: the payer of an order, who has scanned the code *)
(* to pay its amount, or anyone else.                                      *)
Pay(t, scanned) ==
    /\ paid[t] = None
    /\ Meant[t] # None =>
         /\ scanned
         /\ opened[Meant[t]] # None
         /\ Value[t] = Amount[Meant[t]]
    /\ paid' = [paid EXCEPT ![t] = now]
    /\ byQr' = IF scanned THEN byQr \cup {t} ELSE byQr
    /\ UNCHANGED <<now, rowVars, poller, cut>>

Tick ==
    /\ now < MaxTime
    /\ now' = now + 1
    /\ UNCHANGED <<ledger, rowVars, poller, cut>>

-----------------------------------------------------------------------------
(* The poller.  A batch is read once, without locks, and `now` with it.    *)

Watching == {o \in Orders : watch[o] = "watching"}

(* Mutant: the batch leaves out the sessions that are over.                *)
StartLiveBatch(p, batch) ==
    /\ \A o \in batch : now < opened[o] + Life
    /\ poller[p] = Idle
    /\ batch # {}
    /\ poller' = [poller EXCEPT ![p].at = now, ![p].todo = batch]
    /\ UNCHANGED <<now, ledger, rowVars, cut>>

StartBatch(p, batch) ==
    /\ poller[p] = Idle
    /\ batch # {}
    /\ poller' = [poller EXCEPT ![p].at = now, ![p].todo = batch]
    /\ UNCHANGED <<now, ledger, rowVars, cut>>

(* Done with order o: its place in the batch is given up.                  *)
Done(p, o) ==
    LET left == poller[p].todo \ {o}
    IN  poller' = [poller EXCEPT ![p] =
                     IF left = {} THEN Idle
                     ELSE [Idle EXCEPT !.at = poller[p].at, !.todo = left]]

Polling(p, o) == o \in poller[p].todo /\ poller[p].stage = "next"

Overdue(p, o) == opened[o] + Life <= poller[p].at

Expire(p, o) ==
    /\ Polling(p, o)
    /\ Overdue(p, o)
    /\ watch' = [watch EXCEPT ![o] = "expired"]
    /\ Done(p, o)
    /\ UNCHANGED <<now, ledger, opened, sighted, coll, status, cut>>

(* Mutant: the search goes up to the moment it is made.                    *)
SearchUntilNow(p) == now

(* The listing the rail is asked for: the order's amount, in the window    *)
(* from the watch's opening to the batch's own time.                       *)
SearchUntil(p) == poller[p].at

Listed(p, o) ==
    {t \in Transfers :
        /\ paid[t] # None
        /\ Value[t] = Amount[o]
        /\ opened[o] - Lookback <= paid[t]
        /\ paid[t] <= SearchUntil(p)}

(* What is read of it, under both spellings of the receiver: all rows, or  *)
(* the first pages (one when the rail does not count them, five at most).  *)
Shown(p, o) ==
    {rows \in SUBSET Listed(p, o) :
        rows = Listed(p, o) \/ Cardinality(rows) >= Rows}

Discover(p, o, t) ==
    /\ Polling(p, o)
    /\ ~ Overdue(p, o)
    /\ \E rows \in Shown(p, o) : rows \cap byQr = {t}
    /\ poller' = [poller EXCEPT ![p].on = o, ![p].trx = t, ![p].stage = "found"]
    /\ UNCHANGED <<now, ledger, rowVars, cut>>

(* Mutant: the whole stale row is saved.                                   *)
NothingYetSavesAll(p, o) ==
    /\ Polling(p, o)
    /\ ~ Overdue(p, o)
    /\ \E rows \in Shown(p, o) : \A t \in Transfers : rows \cap byQr # {t}
    /\ watch' = [watch EXCEPT ![o] = "watching"]
    /\ Done(p, o)
    /\ UNCHANGED <<now, ledger, opened, sighted, coll, status, cut>>

(* Nothing, or more than one: next time.  The status is not written.       *)
NothingYet(p, o) ==
    /\ Polling(p, o)
    /\ ~ Overdue(p, o)
    /\ \E rows \in Shown(p, o) : \A t \in Transfers : rows \cap byQr # {t}
    /\ Done(p, o)
    /\ UNCHANGED <<now, ledger, rowVars, cut>>

(* The match is saved by itself ...                                        *)
MarkMatched(p) ==
    /\ poller[p].stage = "found"
    /\ watch' = [watch EXCEPT ![poller[p].on] = "matched"]
    /\ sighted' = [sighted EXCEPT ![poller[p].on] = poller[p].trx]
    /\ poller' = [poller EXCEPT ![p].stage = "matched"]
    /\ UNCHANGED <<now, ledger, opened, coll, status, cut>>

(* Mutants: without the unique constraint on the reference; a watch that is  *)
(* closed already has nothing to record.                                   *)
RecordableTwice(o, t) == coll[o] = None

RecordableWhileOpen(o, t) ==
    /\ coll[o] = None /\ \A q \in Orders : coll[q] # t
    /\ watch[o] = "watching"

(* ... and the collection in a transaction of its own, unless the order    *)
(* has one.  A reference another request holds breaks the unique           *)
(* constraint, and the poller goes on with the next watch.                 *)
Recordable(o, t) == coll[o] = None /\ \A q \in Orders : coll[q] # t

Record(p) ==
    LET o == poller[p].on
    IN  /\ poller[p].stage = "matched"
        /\ Recordable(o, poller[p].trx)
        /\ coll' = [coll EXCEPT ![o] = poller[p].trx]
        /\ status' = [status EXCEPT ![o] = "collection_pending"]
        /\ Done(p, o)
        /\ UNCHANGED <<now, ledger, opened, watch, sighted, cut>>

SkipRecord(p) ==
    /\ poller[p].stage = "matched"
    /\ ~ Recordable(poller[p].on, poller[p].trx)
    /\ Done(p, poller[p].on)
    /\ UNCHANGED <<now, ledger, rowVars, cut>>

(* The rail fails the search: the failure is counted, the status kept.     *)
SearchFails(p, o) ==
    /\ Polling(p, o)
    /\ ~ Overdue(p, o)
    /\ Done(p, o)
    /\ UNCHANGED <<now, ledger, rowVars, cut>>

(* The process dies, wherever it is.                                       *)
Crash(p) ==
    /\ poller[p] # Idle
    /\ poller' = [poller EXCEPT ![p] = Idle]
    /\ cut' = IF poller[p].stage = "matched" THEN cut \cup {poller[p].on} ELSE cut
    /\ UNCHANGED <<now, ledger, rowVars>>

PollOne(p) ==
    \/ \E o \in Orders :
         \/ Expire(p, o)
         \/ \E t \in Transfers : Discover(p, o, t)
         \/ NothingYet(p, o)
         \/ SearchFails(p, o)
    \/ MarkMatched(p)
    \/ Record(p)
    \/ SkipRecord(p)

Poller(p) ==
    \/ \E batch \in SUBSET Watching : StartBatch(p, batch)
    \/ PollOne(p)
    \/ Crash(p)

Next ==
    \/ \E o \in Orders : OpenWatch(o)
    \/ \E t \in Transfers, scanned \in BOOLEAN : Pay(t, scanned)
    \/ Tick
    \/ \E p \in Pollers : Poller(p)

Spec == Init /\ [][Next]_qrVars

(* Every open watch is taken up again and again (its backoff is at most    *)
(* five minutes), a batch gets to it unless the process dies each time,    *)
(* and a poll ends, its requests having timeouts.  Nothing is assumed of   *)
(* the rail.                                                               *)
Fairness ==
    /\ WF_qrVars(Tick)
    /\ \A o \in Orders :
         /\ SF_qrVars(\E p \in Pollers, batch \in SUBSET Watching :
                          o \in batch /\ StartBatch(p, batch))
         /\ SF_qrVars(\E p \in Pollers : Expire(p, o))
    /\ \A p \in Pollers : WF_qrVars(PollOne(p))

FairSpec == Spec /\ Fairness

-----------------------------------------------------------------------------
(* The rows of orders, watches and collections and the memory of the      *)
(* pollers keep their types, and the clock its bound.                      *)
QRTypeOK ==
    /\ now \in Lookback .. MaxTime
    /\ paid \in [Transfers -> Nat \cup {None}]
    /\ byQr \subseteq Transfers
    /\ opened \in [Orders -> Nat \cup {None}]
    /\ watch \in [Orders -> {"none", "watching", "matched", "expired"}]
    /\ sighted \in [Orders -> Transfers \cup {None}]
    /\ coll \in [Orders -> Transfers \cup {None}]
    /\ status \in [Orders -> {"created", "qr_pending", "collection_pending"}]
    /\ poller \in [Pollers -> [at : Nat, todo : SUBSET Orders,
                               on : Orders \cup {None}, trx : Transfers \cup {None},
                               stage : {"next", "found", "matched"}]]
    /\ cut \subseteq Orders \cup {None}

(* A transfer taken for an order is a QR payment of exactly its amount,    *)
(* made in its window: not long before the order existed, and before its   *)
(* session ended, however late the poller comes to write it.               *)
MatchIsOurs ==
    \A o \in Orders : coll[o] # None =>
        /\ coll[o] \in byQr
        /\ Value[coll[o]] = Amount[o]
        /\ opened[o] - Lookback <= paid[coll[o]]
        /\ paid[coll[o]] < opened[o] + Life

(* A match without its collection, and not for the death of a poller.       *)
HalfMade(o) == watch[o] = "matched" /\ coll[o] = None /\ o \notin cut

(* The transfer it names pays another order or is in a poller's hands.      *)
HasACause(o) ==
    /\ sighted[o] # None
    /\ \/ \E q \in Orders : coll[q] = sighted[o]
       \/ \E p \in Pollers : /\ poller[p].stage = "matched"
                            /\ poller[p].on = o /\ poller[p].trx = sighted[o]

(* A payment is handed over exactly with its collection row, and its watch  *)
(* says so or has been overwritten by a poller that came later.  A match    *)
(* without its collection is in a poller's hands, or was when the poller     *)
(* died, or the transfer it names pays another order: by itself no match     *)
(* stays half made.  (poll_qr_payments.py:130)                             *)
HandedOverTogether ==
    \A o \in Orders :
        /\ status[o] = "collection_pending" <=> coll[o] # None
        /\ coll[o] # None => sighted[o] # None /\ watch[o] \in {"matched", "expired"}
        /\ HalfMade(o) => HasACause(o)

(* No poller, however old its batch, opens a watch again.                  *)
WatchClosesOnce ==
    [][\A o \in Orders : watch[o] \in {"matched", "expired"} => watch'[o] # "watching"]_qrVars

(* Discovery takes every transfer and every order at most once and for     *)
(* good, whatever several pollers do at once: it implements TransferClaims.*)
Claims == INSTANCE TransferClaims
            WITH claims <- {c \in Orders \X Transfers : coll[c[1]] = c[2]}

ClaimsAreExclusive == Claims!Spec

(* Every watch is closed in the end, even with a rail that never answers.  *)
WatchIsClosed ==
    \A o \in Orders : watch[o] = "watching" ~> watch[o] # "watching"

(* What _discover says of itself, "accept a match only if it's unambiguous":  *)
(* a payer's transfer pays no order but the payer's.                        *)
NothingIsGuessed ==
    \A o \in Orders : coll[o] # None => Meant[coll[o]] \in {None, o}
=============================================================================
