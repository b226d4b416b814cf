------------------------------- MODULE QRProofs -----------------------------
(* What QRDiscovery promises, for every value of its constants: any number *)
(* of orders, transfers and pollers, any batches, crashes and delays.      *)
EXTENDS QRDiscovery, TLAPS

Stages    == {"next", "found", "matched"}
InHand    == [at : Nat, todo : SUBSET Orders, on : Orders \cup {None},
              trx : Transfers \cup {None}, stage : Stages]

(* A transfer that may be taken for an order.                              *)
Ours(o, t) ==
    /\ o \in Orders /\ t \in Transfers
    /\ t \in byQr
    /\ Value[t] = Amount[o]
    /\ opened[o] \in Nat /\ paid[t] \in Nat
    /\ opened[o] - Lookback <= paid[t]
    /\ paid[t] < opened[o] + Life

Closed(o) == watch[o] \in {"matched", "expired"}

(* Only opened watches are polled.                                         *)
OpenedFirst ==
    /\ \A o \in Orders : watch[o] = "none" <=> opened[o] = None
    /\ \A p \in Pollers : \A o \in poller[p].todo : watch[o] # "none"
    /\ \A t \in byQr : paid[t] # None

(* What a poller carries from one step to the next stays true although the *)
(* rows it was read from may change.                                       *)
CarriesOurs ==
    \A p \in Pollers : poller[p].stage # "next" => Ours(poller[p].on, poller[p].trx)

CarriesClosed ==
    \A p \in Pollers : poller[p].stage = "matched" =>
        sighted[poller[p].on] # None /\ Closed(poller[p].on)

TakenIsOurs == \A o \in Orders : coll[o] # None => Ours(o, coll[o])

(* The parts of HandedOverTogether.                                        *)
HandedOver ==
    \A o \in Orders :
        /\ status[o] = "collection_pending" <=> coll[o] # None
        /\ coll[o] # None => sighted[o] # None /\ Closed(o)

MatchesHaveACause == \A o \in Orders : HalfMade(o) => HasACause(o)

Exclusive ==
    \A o, q \in Orders : coll[o] # None /\ coll[o] = coll[q] => o = q

QRInv ==
    /\ QRTypeOK
    /\ OpenedFirst
    /\ CarriesOurs
    /\ CarriesClosed
    /\ TakenIsOurs
    /\ HandedOver
    /\ MatchesHaveACause
    /\ Exclusive

-----------------------------------------------------------------------------
(* None is neither an order, nor a transfer, nor a time.                   *)
LEMMA NoneApart ==
    None \notin Orders /\ None \notin Transfers /\ None \notin Nat
BY QRAssumption, SMT

(* Done leaves the other pollers alone and its own with less to do.        *)
LEMMA DoneLeaves ==
    ASSUME NEW p \in Pollers, NEW o, poller \in [Pollers -> InHand], Done(p, o)
    PROVE  /\ poller' \in [Pollers -> InHand]
           /\ \A q \in Pollers : q # p => poller'[q] = poller[q]
           /\ poller'[p].stage = "next"
           /\ poller'[p].todo \subseteq poller[p].todo
<1> DEFINE left == poller[p].todo \ {o}
           next == [Idle EXCEPT !.at = poller[p].at, !.todo = left]
<1>1. poller[p] \in InHand
  OBVIOUS
<1>2. left \in SUBSET Orders
  BY <1>1 DEF InHand
<1>3. Idle \in InHand /\ Idle.stage = "next" /\ Idle.todo = {}
  BY NoneApart DEF Idle, InHand, Stages
<1>4. next \in InHand /\ next.stage = "next" /\ next.todo = left
  BY <1>1, <1>2, NoneApart DEF Idle, InHand, Stages
<1>5. poller' = [poller EXCEPT ![p] = IF left = {} THEN Idle ELSE next]
  BY DEF Done
<1> HIDE DEF left, next
<1>6. poller'[p] \in {Idle, next}
  BY <1>5
<1>7. left \subseteq poller[p].todo
  BY DEF left
<1>8. \A q \in Pollers : q # p => poller'[q] = poller[q]
  BY <1>5
<1>9. poller' \in [Pollers -> InHand]
  BY <1>3, <1>4, <1>5
<1> QED
  BY <1>3, <1>4, <1>6, <1>7, <1>8, <1>9

(* The types, step by step.                                                *)
LEMMA QRTypeInit == Init => QRTypeOK
<1> SUFFICES ASSUME Init PROVE QRTypeOK
  OBVIOUS
<1>1. Idle \in InHand
  BY DEF Idle, InHand, Stages
<1>2. now \in Lookback .. MaxTime
  BY QRAssumption DEF Init
<1> QED
  BY <1>1, <1>2 DEF Init, QRTypeOK, InHand, Stages

LEMMA QRTypeStep == QRTypeOK /\ [Next]_qrVars => QRTypeOK'
<1> SUFFICES ASSUME QRTypeOK, [Next]_qrVars PROVE QRTypeOK'
  OBVIOUS
<1> USE DEF QRTypeOK, ledger, rowVars
<1>0. poller \in [Pollers -> InHand]
  BY DEF InHand, Stages
<1>1. ASSUME NEW o \in Orders, OpenWatch(o) PROVE QRTypeOK'
  <2>1. now \in Nat
    BY QRAssumption
  <2> QED
    BY <1>1, <2>1 DEF OpenWatch
<1>2. ASSUME NEW t \in Transfers, NEW scanned \in BOOLEAN, Pay(t, scanned)
      PROVE QRTypeOK'
  <2>1. now \in Nat
    BY QRAssumption
  <2>2. paid' \in [Transfers -> Nat \cup {None}]
    BY <1>2, <2>1 DEF Pay
  <2>3. byQr' \subseteq Transfers
    BY <1>2 DEF Pay
  <2> QED
    BY <1>2, <2>2, <2>3 DEF Pay
<1>3. CASE Tick
  BY <1>3, QRAssumption DEF Tick
<1>4. ASSUME NEW p \in Pollers, NEW batch \in SUBSET Watching, StartBatch(p, batch)
      PROVE QRTypeOK'
  <2>1. now \in Nat /\ batch \in SUBSET Orders
    BY QRAssumption DEF Watching
  <2>2. [poller[p] EXCEPT !.at = now, !.todo = batch] \in InHand
    BY <1>0, <2>1 DEF InHand
  <2>3. poller' = [poller EXCEPT ![p] = [poller[p] EXCEPT !.at = now, !.todo = batch]]
    BY <1>0, <1>4 DEF StartBatch
  <2>4. poller' \in [Pollers -> InHand]
    BY <1>0, <2>2, <2>3
  <2> QED
    BY <1>4, <2>4 DEF StartBatch, InHand, Stages
<1>5. ASSUME NEW p \in Pollers, NEW o \in Orders, Expire(p, o) PROVE QRTypeOK'
  <2>1. poller' \in [Pollers -> InHand]
    BY <1>0, <1>5, DoneLeaves DEF Expire
  <2> QED
    BY <1>5, <2>1 DEF Expire, InHand, Stages
<1>6. ASSUME NEW p \in Pollers, NEW o \in Orders, NEW t \in Transfers, Discover(p, o, t)
      PROVE QRTypeOK'
  <2>1. [poller[p] EXCEPT !.on = o, !.trx = t, !.stage = "found"] \in InHand
    BY <1>0 DEF InHand, Stages
  <2>2. poller' = [poller EXCEPT ![p] =
                     [poller[p] EXCEPT !.on = o, !.trx = t, !.stage = "found"]]
    BY <1>0, <1>6 DEF Discover
  <2>3. poller' \in [Pollers -> InHand]
    BY <1>0, <2>1, <2>2
  <2> QED
    BY <1>6, <2>3 DEF Discover, InHand, Stages
<1>7. ASSUME NEW p \in Pollers, NEW o \in Orders, NothingYet(p, o) \/ SearchFails(p, o)
      PROVE QRTypeOK'
  <2>1. poller' \in [Pollers -> InHand]
    BY <1>0, <1>7, DoneLeaves DEF NothingYet, SearchFails
  <2> QED
    BY <1>7, <2>1 DEF NothingYet, SearchFails, InHand, Stages
<1>8. ASSUME NEW p \in Pollers, MarkMatched(p) PROVE QRTypeOK'
  <2>1. poller[p] \in InHand
    BY <1>0
  <2>2. sighted' \in [Orders -> Transfers \cup {None}]
    BY <1>8, <2>1 DEF MarkMatched, InHand
  <2>3. watch' \in [Orders -> {"none", "watching", "matched", "expired"}]
    BY <1>8 DEF MarkMatched
  <2>4. poller' \in [Pollers -> InHand]
    BY <1>0, <1>8 DEF MarkMatched, InHand, Stages
  <2> QED
    BY <1>8, <2>2, <2>3, <2>4 DEF MarkMatched, InHand, Stages
<1>9. ASSUME NEW p \in Pollers, Record(p) PROVE QRTypeOK'
  <2>1. poller[p] \in InHand
    BY <1>0
  <2>2. coll' \in [Orders -> Transfers \cup {None}]
    BY <1>9, <2>1 DEF Record, InHand
  <2>3. status' \in [Orders -> {"created", "qr_pending", "collection_pending"}]
    BY <1>9 DEF Record
  <2>4. poller' \in [Pollers -> InHand]
    BY <1>0, <1>9, DoneLeaves DEF Record
  <2> QED
    BY <1>9, <2>2, <2>3, <2>4 DEF Record, InHand, Stages
<1>10. ASSUME NEW p \in Pollers, SkipRecord(p) PROVE QRTypeOK'
  <2>1. poller' \in [Pollers -> InHand]
    BY <1>0, <1>10, DoneLeaves DEF SkipRecord
  <2> QED
    BY <1>10, <2>1 DEF SkipRecord, InHand, Stages
<1>11. ASSUME NEW p \in Pollers, Crash(p) PROVE QRTypeOK'
  <2>1. Idle \in InHand
    BY DEF Idle, InHand, Stages
  <2>2. poller' \in [Pollers -> InHand]
    BY <1>0, <1>11, <2>1 DEF Crash
  <2>3. poller[p].on \in Orders \cup {None}
    BY <1>0 DEF InHand
  <2>4. cut' \subseteq Orders \cup {None}
    BY <1>11, <2>3 DEF Crash
  <2> QED
    BY <1>11, <2>2, <2>4 DEF Crash, InHand, Stages
<1>12. CASE UNCHANGED qrVars
  BY <1>12 DEF qrVars
<1> QED
  BY <1>1, <1>2, <1>3, <1>4, <1>5, <1>6, <1>7, <1>8, <1>9, <1>10, <1>11, <1>12
     DEF Next, Poller, PollOne
-----------------------------------------------------------------------------
(* What a step may change.                                                 *)

(* Quiet steps of a poller: it has less to do, the rows are as they were; a  *)
(* match it gives up could not be recorded, or it has died on it.           *)
Quiet(p) ==
    /\ UNCHANGED <<now, ledger, rowVars>>
    /\ cut \subseteq cut'
    /\ poller[p].stage = "matched" =>
         poller[p].on \in cut' \/ ~ Recordable(poller[p].on, poller[p].trx)
    /\ poller'[p].stage = "next"
    /\ poller'[p].todo \subseteq poller[p].todo
    /\ \A q \in Pollers : q # p => poller'[q] = poller[q]

LEMMA QuietSteps ==
    ASSUME QRTypeOK, NEW p \in Pollers,
           \/ \E o \in Orders : NothingYet(p, o) \/ SearchFails(p, o)
           \/ SkipRecord(p)
           \/ Crash(p)
    PROVE  Quiet(p)
<1>0. poller \in [Pollers -> InHand]
  BY DEF QRTypeOK, InHand, Stages
<1>1. ASSUME NEW o \in Orders, NothingYet(p, o) \/ SearchFails(p, o) PROVE Quiet(p)
  BY <1>0, <1>1, DoneLeaves DEF NothingYet, SearchFails, Polling, Quiet
<1>2. CASE SkipRecord(p)
  BY <1>0, <1>2, DoneLeaves DEF SkipRecord, Quiet
<1>3. CASE Crash(p)
  <2>1. poller'[p] = Idle /\ \A q \in Pollers : q # p => poller'[q] = poller[q]
    BY <1>0, <1>3 DEF Crash
  <2>2. Idle.stage = "next" /\ Idle.todo = {}
    BY DEF Idle
  <2> QED
    BY <1>3, <2>1, <2>2 DEF Crash, Quiet
<1> QED
  BY <1>1, <1>2, <1>3

(* The steps of the system, the quiet ones together.                       *)
Step ==
    \/ \E o \in Orders : OpenWatch(o)
    \/ \E t \in Transfers, scanned \in BOOLEAN : Pay(t, scanned)
    \/ Tick
    \/ \E p \in Pollers :
         \/ \E batch \in SUBSET Watching : StartBatch(p, batch)
         \/ \E o \in Orders : Expire(p, o)
         \/ \E o \in Orders, t \in Transfers : Discover(p, o, t)
         \/ MarkMatched(p)
         \/ Record(p)
         \/ Quiet(p)

LEMMA StepsOfNext == QRTypeOK /\ Next => Step
<1> SUFFICES ASSUME QRTypeOK, Next PROVE Step
  OBVIOUS
<1>1. ASSUME NEW p \in Pollers, Poller(p) PROVE Step
  <2>1. CASE \E o \in Orders : NothingYet(p, o) \/ SearchFails(p, o)
    BY <2>1, QuietSteps DEF Step
  <2>2. CASE SkipRecord(p) \/ Crash(p)
    BY <2>2, QuietSteps DEF Step
  <2>3. CASE \E batch \in SUBSET Watching : StartBatch(p, batch)
    BY <2>3, ZenonT(30) DEF Step
  <2>4. CASE \E o \in Orders : Expire(p, o)
    BY <2>4, ZenonT(30) DEF Step
  <2>5. CASE \E o \in Orders, t \in Transfers : Discover(p, o, t)
    BY <2>5, ZenonT(30) DEF Step
  <2>6. CASE MarkMatched(p) \/ Record(p)
    BY <2>6, ZenonT(30) DEF Step
  <2> QED
    BY <1>1, <2>1, <2>2, <2>3, <2>4, <2>5, <2>6, ZenonT(60) DEF Poller, PollOne
<1>2. CASE \E o \in Orders : OpenWatch(o)
  BY <1>2 DEF Step
<1>3. CASE \E t \in Transfers, scanned \in BOOLEAN : Pay(t, scanned)
  BY <1>3, ZenonT(30) DEF Step
<1>4. CASE Tick
  BY <1>4 DEF Step
<1> QED
  BY <1>1, <1>2, <1>3, <1>4 DEF Next

(* A transfer that may be taken for an order may be taken ever after.      *)
LEMMA OursStays ==
    ASSUME QRTypeOK, OpenedFirst, Step, NEW o, NEW t, Ours(o, t)
    PROVE  Ours(o, t)'
<1> USE DEF Ours, ledger, rowVars
<1>1. ASSUME NEW x \in Orders, OpenWatch(x) PROVE Ours(o, t)'
  <2>1. opened[x] = None /\ opened[o] # None
    BY <1>1, NoneApart DEF OpenWatch, OpenedFirst
  <2>2. opened'[o] = opened[o]
    BY <1>1, <2>1 DEF OpenWatch, QRTypeOK
  <2> QED
    BY <1>1, <2>2 DEF OpenWatch
<1>2. ASSUME NEW y \in Transfers, NEW scanned \in BOOLEAN, Pay(y, scanned)
      PROVE Ours(o, t)'
  <2>1. paid[y] = None /\ paid[t] # None
    BY <1>2, NoneApart DEF Pay
  <2>2. paid'[t] = paid[t]
    BY <1>2, <2>1 DEF Pay, QRTypeOK
  <2>3. t \in byQr'
    BY <1>2 DEF Pay
  <2> QED
    BY <1>2, <2>2, <2>3 DEF Pay
<1>3. CASE Tick
  BY <1>3 DEF Tick
<1>4. CASE UNCHANGED <<ledger, opened>>
  BY <1>4
<1> QED
  BY <1>1, <1>2, <1>3, <1>4
     DEF Step, StartBatch, Expire, Discover, MarkMatched, Record, Quiet

(* A closed watch stays closed, and a reference seen stays one.            *)
LEMMA ClosedStays ==
    ASSUME QRTypeOK, CarriesOurs, Step, NEW o \in Orders, Closed(o)
    PROVE  Closed(o)' /\ (sighted[o] # None => sighted'[o] # None)
<1> USE DEF Closed, ledger, rowVars, QRTypeOK
<1>1. ASSUME NEW x \in Orders, OpenWatch(x)
      PROVE Closed(o)' /\ (sighted[o] # None => sighted'[o] # None)
  BY <1>1 DEF OpenWatch
<1>2. ASSUME NEW p \in Pollers, NEW x \in Orders, Expire(p, x)
      PROVE Closed(o)' /\ (sighted[o] # None => sighted'[o] # None)
  BY <1>2 DEF Expire
<1>3. ASSUME NEW p \in Pollers, MarkMatched(p)
      PROVE Closed(o)' /\ (sighted[o] # None => sighted'[o] # None)
  BY <1>3, NoneApart DEF MarkMatched, CarriesOurs, Ours
<1>4. CASE UNCHANGED <<watch, sighted>>
  BY <1>4
<1> QED
  BY <1>1, <1>2, <1>3, <1>4
     DEF Step, Pay, Tick, StartBatch, Discover, Record, Quiet

(* What a poller holds after a step it held before, has just found, or has *)
(* just saved as matched.                                                  *)
LEMMA Held ==
    ASSUME QRTypeOK, Step, NEW q \in Pollers, poller'[q].stage # "next"
    PROVE  \/ poller'[q] = poller[q]
           \/ \E o \in Orders, t \in Transfers :
                /\ Discover(q, o, t)
                /\ poller'[q].on = o /\ poller'[q].trx = t
                /\ poller'[q].stage = "found"
           \/ /\ MarkMatched(q)
              /\ poller[q].stage = "found"
              /\ poller'[q].on = poller[q].on /\ poller'[q].trx = poller[q].trx
<1> DEFINE Goal ==
           \/ poller'[q] = poller[q]
           \/ \E o \in Orders, t \in Transfers :
                /\ Discover(q, o, t)
                /\ poller'[q].on = o /\ poller'[q].trx = t
                /\ poller'[q].stage = "found"
           \/ /\ MarkMatched(q)
              /\ poller[q].stage = "found"
              /\ poller'[q].on = poller[q].on /\ poller'[q].trx = poller[q].trx
<1> USE DEF InHand, Stages
<1>0. poller \in [Pollers -> InHand]
  BY DEF QRTypeOK
<1>1. ASSUME NEW p \in Pollers, NEW batch \in SUBSET Watching, StartBatch(p, batch)
      PROVE Goal
  <2>1. Idle.stage = "next"
    BY DEF Idle
  <2>2. CASE q = p
    BY <1>0, <1>1, <2>1, <2>2 DEF StartBatch
  <2>3. CASE q # p
    BY <1>0, <1>1, <2>3 DEF StartBatch
  <2> QED
    BY <2>2, <2>3
<1>2. ASSUME NEW p \in Pollers, NEW o, Done(p, o) PROVE Goal
  BY <1>0, <1>2, DoneLeaves
<1>3. ASSUME NEW p \in Pollers, NEW o \in Orders, NEW t \in Transfers, Discover(p, o, t)
      PROVE Goal
  <2>1. CASE q = p
    <3>1. poller'[q] = [poller[q] EXCEPT !.on = o, !.trx = t, !.stage = "found"]
      BY <1>0, <1>3, <2>1 DEF Discover
    <3> QED
      BY <1>0, <1>3, <2>1, <3>1
  <2>2. CASE q # p
    BY <1>0, <1>3, <2>2 DEF Discover
  <2> QED
    BY <2>1, <2>2
<1>4. ASSUME NEW p \in Pollers, MarkMatched(p) PROVE Goal
  <2>1. CASE q = p
    BY <1>0, <1>4, <2>1 DEF MarkMatched
  <2>2. CASE q # p
    BY <1>0, <1>4, <2>2 DEF MarkMatched
  <2> QED
    BY <2>1, <2>2
<1>5. ASSUME NEW p \in Pollers, Quiet(p) PROVE Goal
  BY <1>5 DEF Quiet
<1>6. ASSUME UNCHANGED poller PROVE Goal
  BY <1>6
<1> HIDE DEF Goal
<1>7. ASSUME NEW p \in Pollers, NEW o \in Orders, Expire(p, o) PROVE Goal
  BY <1>2, <1>7 DEF Expire
<1>8. ASSUME NEW p \in Pollers, Record(p) PROVE Goal
  BY <1>2, <1>8 DEF Record
<1>9. ASSUME NEW o \in Orders, OpenWatch(o) PROVE Goal
  BY <1>6, <1>9 DEF OpenWatch
<1>10. ASSUME NEW t \in Transfers, NEW scanned \in BOOLEAN, Pay(t, scanned)
       PROVE Goal
  BY <1>6, <1>10 DEF Pay
<1>11. ASSUME Tick PROVE Goal
  BY <1>6, <1>11 DEF Tick
<1>12. Goal
  BY <1>1, <1>3, <1>4, <1>5, <1>7, <1>8, <1>9, <1>10, <1>11, ZenonT(60) DEF Step
<1> QED
  BY <1>12 DEF Goal

(* A transfer found in the listing may be taken.                           *)
LEMMA FoundIsOurs ==
    ASSUME QRTypeOK, OpenedFirst, NEW p \in Pollers, NEW o \in Orders,
           NEW t \in Transfers, Discover(p, o, t)
    PROVE  Ours(o, t)
<1>1. PICK rows \in Shown(p, o) : rows \cap byQr = {t}
  BY DEF Discover
<1>2. t \in Listed(p, o) /\ t \in byQr
  BY <1>1 DEF Shown
<1>3. watch[o] # "none" /\ opened[o] # None
  BY DEF Discover, Polling, OpenedFirst
<1>4. opened[o] \in Nat /\ paid[t] \in Nat /\ poller[p].at \in Nat
  BY <1>2, <1>3 DEF QRTypeOK, Listed
<1>5. poller[p].at < opened[o] + Life
  BY <1>4, QRAssumption DEF Discover, Overdue
<1>6. paid[t] < opened[o] + Life
  BY <1>2, <1>4, <1>5, QRAssumption DEF Listed, SearchUntil
<1> QED
  BY <1>2, <1>4, <1>6 DEF Ours, Listed
-----------------------------------------------------------------------------
(* The invariant, conjunct by conjunct.                                    *)

LEMMA OpenedFirstStays ==
    QRTypeOK /\ OpenedFirst /\ CarriesOurs /\ Step => OpenedFirst'
<1> SUFFICES ASSUME QRTypeOK, OpenedFirst, CarriesOurs, Step PROVE OpenedFirst'
  OBVIOUS
<1> USE DEF ledger, rowVars, InHand, Stages
<1>0. poller \in [Pollers -> InHand]
  BY DEF QRTypeOK
<1>1. ASSUME NEW x \in Orders, OpenWatch(x) PROVE OpenedFirst'
  <2>1. now # None
    BY NoneApart, QRAssumption DEF QRTypeOK
  <2>2. \A o \in Orders : watch'[o] = "none" <=> opened'[o] = None
    BY <1>1, <2>1 DEF OpenWatch, OpenedFirst, QRTypeOK
  <2>3. \A o \in Orders : watch[o] # "none" => watch'[o] # "none"
    BY <1>1 DEF OpenWatch, QRTypeOK
  <2>4. \A p \in Pollers : \A o \in poller'[p].todo : watch'[o] # "none"
    BY <1>0, <1>1, <2>3 DEF OpenWatch, OpenedFirst
  <2> QED
    BY <1>1, <2>2, <2>4 DEF OpenWatch, OpenedFirst
<1>2. ASSUME NEW y \in Transfers, NEW scanned \in BOOLEAN, Pay(y, scanned)
      PROVE OpenedFirst'
  <2>1. now # None
    BY NoneApart, QRAssumption DEF QRTypeOK
  <2>2. \A t \in byQr' : paid'[t] # None
    BY <1>2, <2>1 DEF Pay, OpenedFirst, QRTypeOK
  <2> QED
    BY <1>2, <2>2 DEF Pay, OpenedFirst
<1>3. CASE Tick
  BY <1>3 DEF Tick, OpenedFirst
<1>4. ASSUME NEW p \in Pollers, NEW batch \in SUBSET Watching, StartBatch(p, batch)
      PROVE OpenedFirst'
  <2>1. poller'[p].todo = batch /\ \A q \in Pollers : q # p => poller'[q] = poller[q]
    BY <1>0, <1>4 DEF StartBatch
  <2>2. \A o \in batch : watch[o] # "none"
    BY DEF Watching
  <2> QED
    BY <1>4, <2>1, <2>2 DEF StartBatch, OpenedFirst
<1>5. ASSUME NEW p \in Pollers, NEW x \in Orders, Done(p, x), UNCHANGED <<ledger, opened>>,
             \A o \in Orders : watch'[o] = watch[o]
                               \/ (o = x /\ watch[o] # "none" /\ watch'[o] = "expired")
      PROVE OpenedFirst'
  <2>1. \A q \in Pollers : poller'[q].todo \subseteq poller[q].todo
    BY <1>0, <1>5, DoneLeaves
  <2>2. \A q \in Pollers : poller[q].todo \subseteq Orders
    BY <1>0
  <2>3. \A q \in Pollers : \A o \in poller'[q].todo : watch'[o] # "none"
    BY <1>5, <2>1, <2>2 DEF OpenedFirst
  <2>4. \A o \in Orders : watch'[o] = "none" <=> watch[o] = "none"
    BY <1>5
  <2> QED
    BY <1>5, <2>3, <2>4 DEF OpenedFirst
<1>6. ASSUME NEW p \in Pollers, NEW x \in Orders, Expire(p, x) PROVE OpenedFirst'
  <2>1. watch[x] # "none"
    BY <1>6 DEF Expire, Polling, OpenedFirst
  <2>2. \A o \in Orders : watch'[o] = watch[o]
                          \/ (o = x /\ watch[o] # "none" /\ watch'[o] = "expired")
    BY <1>6, <2>1 DEF Expire, QRTypeOK
  <2> QED
    BY <1>5, <1>6, <2>2 DEF Expire
<1>7. ASSUME NEW p \in Pollers, NEW o \in Orders, NEW t \in Transfers, Discover(p, o, t)
      PROVE OpenedFirst'
  <2>1. \A q \in Pollers : poller'[q].todo = poller[q].todo
    BY <1>0, <1>7 DEF Discover
  <2> QED
    BY <1>7, <2>1 DEF Discover, OpenedFirst
<1>8. ASSUME NEW p \in Pollers, MarkMatched(p) PROVE OpenedFirst'
  <2>1. \A q \in Pollers : poller'[q].todo = poller[q].todo
    BY <1>0, <1>8 DEF MarkMatched
  <2>2. poller[p].on \in Orders /\ opened[poller[p].on] # None
    BY <1>8, NoneApart DEF MarkMatched, CarriesOurs, Ours
  <2>3. \A o \in Orders : watch'[o] = "none" <=> watch[o] = "none"
    BY <1>8, <2>2 DEF MarkMatched, OpenedFirst, QRTypeOK
  <2>4. \A q \in Pollers : poller[q].todo \subseteq Orders
    BY <1>0
  <2> QED
    BY <1>8, <2>1, <2>3, <2>4 DEF MarkMatched, OpenedFirst
<1>9. ASSUME NEW p \in Pollers, Record(p) PROVE OpenedFirst'
  BY <1>5, <1>9 DEF Record, CarriesOurs, Ours
<1>10. ASSUME NEW p \in Pollers, Quiet(p) PROVE OpenedFirst'
  <2>1. \A q \in Pollers : poller'[q].todo \subseteq poller[q].todo
    BY <1>10 DEF Quiet
  <2> QED
    BY <1>10, <2>1 DEF Quiet, OpenedFirst
<1> QED
  BY <1>1, <1>2, <1>3, <1>4, <1>6, <1>7, <1>8, <1>9, <1>10, ZenonT(60) DEF Step

(* What is carried was found, and what was found stays true.               *)
LEMMA CarriedStays ==
    ASSUME QRTypeOK, OpenedFirst, CarriesOurs, CarriesClosed, Step
    PROVE  CarriesOurs' /\ CarriesClosed'
<1>0. poller \in [Pollers -> InHand]
  BY DEF QRTypeOK, InHand, Stages
<1>1. ASSUME NEW q \in Pollers, poller'[q].stage # "next"
      PROVE  \E o \in Orders, t \in Transfers :
               /\ poller'[q].on = o /\ poller'[q].trx = t
               /\ Ours(o, t)
               /\ poller'[q].stage = "matched" => sighted'[o] # None /\ Closed(o)'
  <2>1. CASE poller'[q] = poller[q]
    <3>1. PICK o \in Orders, t \in Transfers :
             poller[q].on = o /\ poller[q].trx = t /\ Ours(o, t)
      BY <1>1, <2>1 DEF CarriesOurs, Ours
    <3>2. ASSUME poller'[q].stage = "matched" PROVE sighted'[o] # None /\ Closed(o)'
      <4>1. Closed(o) /\ sighted[o] # None
        BY <2>1, <3>1, <3>2 DEF CarriesClosed
      <4> QED
        BY <4>1, ClosedStays
    <3> QED
      BY <2>1, <3>1, <3>2
  <2>2. CASE \E o \in Orders, t \in Transfers :
                /\ Discover(q, o, t)
                /\ poller'[q].on = o /\ poller'[q].trx = t
                /\ poller'[q].stage = "found"
    BY <2>2, FoundIsOurs
  <2>3. CASE /\ MarkMatched(q)
             /\ poller[q].stage = "found"
             /\ poller'[q].on = poller[q].on /\ poller'[q].trx = poller[q].trx
    <3>1. PICK o \in Orders, t \in Transfers :
             poller[q].on = o /\ poller[q].trx = t /\ Ours(o, t)
      BY <2>3 DEF CarriesOurs, Ours
    <3>2. sighted'[o] # None /\ watch'[o] = "matched"
      BY <2>3, <3>1, NoneApart DEF MarkMatched, QRTypeOK
    <3> QED
      BY <2>3, <3>1, <3>2 DEF Closed
  <2> QED
    BY <1>1, <2>1, <2>2, <2>3, Held
<1>2. ASSUME NEW q \in Pollers, poller'[q].stage # "next"
      PROVE  /\ Ours(poller[q].on, poller[q].trx)'
             /\ poller'[q].stage = "matched" =>
                  sighted'[poller'[q].on] # None /\ Closed(poller[q].on)'
  <2>1. PICK o \in Orders, t \in Transfers :
               /\ poller'[q].on = o /\ poller'[q].trx = t
               /\ Ours(o, t)
               /\ poller'[q].stage = "matched" => sighted'[o] # None /\ Closed(o)'
    BY <1>1, <1>2
  <2>2. Ours(o, t)'
    BY <2>1, OursStays
  <2> QED
    BY <2>1, <2>2 DEF Ours, Closed
<1> QED
  BY <1>2 DEF CarriesOurs, CarriesClosed

(* The collections: what is taken is ours, handed over and taken once.     *)
LEMMA TakenStays ==
    ASSUME QRInv, Step
    PROVE  TakenIsOurs' /\ HandedOver' /\ Exclusive'
<1> USE DEF QRInv, ledger, rowVars
<1>1. ASSUME NEW p \in Pollers, Record(p)
      PROVE  TakenIsOurs' /\ HandedOver' /\ Exclusive'
  <2> DEFINE x == poller[p].on
             t == poller[p].trx
  <2>1. Ours(x, t) /\ sighted[x] # None /\ Closed(x)
    BY <1>1 DEF Record, CarriesOurs, CarriesClosed
  <2>2. x \in Orders /\ t \in Transfers
    BY <2>1 DEF Ours
  <2>3. coll' = [coll EXCEPT ![x] = t]
    BY <1>1 DEF Record
  <2>4. \A q \in Orders : coll[q] # t
    BY <1>1 DEF Record, Recordable
  <2>5. \A o \in Orders : coll'[o] = IF o = x THEN t ELSE coll[o]
    BY <2>2, <2>3 DEF QRTypeOK
  <2>6. t # None
    BY <2>2, NoneApart
  <2>7. \A o \in Orders : status'[o] = IF o = x THEN "collection_pending" ELSE status[o]
    BY <1>1 DEF Record, QRTypeOK
  <2>8. UNCHANGED <<paid, byQr, opened, watch, sighted>>
    BY <1>1 DEF Record
  <2> HIDE DEF x, t
  <2>9. \A o \in Orders : coll'[o] # None => Ours(o, coll'[o])
    BY <2>1, <2>5 DEF TakenIsOurs
  <2>10. TakenIsOurs'
    BY <2>8, <2>9 DEF TakenIsOurs, Ours
  <2>11. HandedOver'
    BY <2>1, <2>5, <2>6, <2>7, <2>8 DEF HandedOver, Closed
  <2>12. Exclusive'
    BY <2>4, <2>5 DEF Exclusive
  <2> QED
    BY <2>10, <2>11, <2>12
<1>2. CASE UNCHANGED coll
  <2>1. TakenIsOurs'
    <3> SUFFICES ASSUME NEW o \in Orders, coll[o] # None PROVE Ours(o, coll[o])'
      BY <1>2 DEF TakenIsOurs
    <3> QED
      BY <1>2, OursStays DEF TakenIsOurs, Ours
  <2>2. ASSUME NEW o \in Orders
        PROVE  status'[o] = "collection_pending" <=> status[o] = "collection_pending"
    <3>1. ASSUME NEW y \in Orders, OpenWatch(y)
          PROVE  status'[o] = "collection_pending" <=> status[o] = "collection_pending"
      <4>1. status[y] # "collection_pending"
        BY <3>1 DEF OpenWatch, HandedOver, Closed
      <4> QED
        BY <3>1, <4>1 DEF OpenWatch, QRTypeOK
    <3>2. ASSUME NEW p \in Pollers, Record(p)
          PROVE  status'[o] = "collection_pending" <=> status[o] = "collection_pending"
      <4>1. coll[poller[p].on] = None /\ coll' = [coll EXCEPT ![poller[p].on] = poller[p].trx]
        BY <3>2 DEF Record, Recordable
      <4>2. poller[p].on \in Orders /\ poller[p].trx # None
        BY <3>2, NoneApart DEF Record, CarriesOurs, Ours
      <4> QED
        BY <1>2, <4>1, <4>2 DEF QRTypeOK
    <3>3. CASE UNCHANGED status
      BY <3>3
    <3> QED
      BY <3>1, <3>2, <3>3
         DEF Step, Pay, Tick, StartBatch, Expire, Discover, MarkMatched, Quiet
  <2>3. \A o \in Orders : coll[o] # None => sighted'[o] # None /\ Closed(o)'
    BY ClosedStays DEF HandedOver, Closed
  <2>4. HandedOver'
    BY <1>2, <2>2, <2>3 DEF HandedOver, Closed
  <2>5. Exclusive'
    BY <1>2 DEF Exclusive
  <2> QED
    BY <2>1, <2>4, <2>5
<1> QED
  BY <1>1, <1>2
     DEF Step, OpenWatch, Pay, Tick, StartBatch, Expire, Discover, MarkMatched, Quiet
(* A cause lasts while the poller that carries the transfer does.           *)
LEMMA CauseLasts ==
    ASSUME QRTypeOK, NEW o \in Orders, NEW p \in Pollers, HasACause(o),
           poller[p].stage # "matched" \/ poller[p].on # o,
           \A q \in Pollers : q # p => poller'[q] = poller[q],
           \A q \in Orders : coll[q] # None => coll'[q] = coll[q],
           sighted'[o] = sighted[o]
    PROVE  HasACause(o)'
<1>1. CASE \E q \in Orders : coll[q] = sighted[o]
  BY <1>1 DEF HasACause
<1>2. CASE \E q \in Pollers : /\ poller[q].stage = "matched"
                             /\ poller[q].on = o /\ poller[q].trx = sighted[o]
  <2>1. PICK q \in Pollers : /\ poller[q].stage = "matched"
                            /\ poller[q].on = o /\ poller[q].trx = sighted[o]
    BY <1>2
  <2>2. poller'[q] = poller[q]
    BY <2>1
  <2> QED
    BY <2>1, <2>2 DEF HasACause
<1> QED
  BY <1>1, <1>2 DEF HasACause

(* By itself no match stays half made.                                     *)
LEMMA CausesStay ==
    ASSUME QRInv, Step PROVE MatchesHaveACause'
<1> USE DEF QRInv, ledger, rowVars
<1> SUFFICES ASSUME NEW o \in Orders, HalfMade(o)' PROVE HasACause(o)'
  BY DEF MatchesHaveACause
<1>0. poller \in [Pollers -> InHand]
  BY DEF QRTypeOK, InHand, Stages
<1>1. ASSUME UNCHANGED <<poller, coll, sighted, cut>>, watch'[o] = watch[o]
      PROVE  HasACause(o)'
  BY <1>1 DEF MatchesHaveACause, HalfMade, HasACause
<1>2. ASSUME NEW p \in Pollers, watch'[o] = watch[o], UNCHANGED <<coll, sighted, cut>>,
             poller[p].stage # "matched",
             \A q \in Pollers : q # p => poller'[q] = poller[q]
      PROVE  HasACause(o)'
  <2>1. HasACause(o)
    BY <1>2 DEF MatchesHaveACause, HalfMade
  <2> QED
    BY <1>2, <2>1, CauseLasts
<1>3. ASSUME NEW x \in Orders, OpenWatch(x) PROVE HasACause(o)'
  <2>1. watch'[o] = watch[o]
    BY <1>3 DEF OpenWatch, QRTypeOK, HalfMade
  <2> QED
    BY <1>1, <1>3, <2>1 DEF OpenWatch
<1>4. ASSUME NEW p \in Pollers, NEW batch \in SUBSET Watching, StartBatch(p, batch)
      PROVE  HasACause(o)'
  <2>1. poller[p].stage = "next" /\ \A q \in Pollers : q # p => poller'[q] = poller[q]
    BY <1>0, <1>4 DEF StartBatch, Idle
  <2> QED
    BY <1>2, <1>4, <2>1 DEF StartBatch
<1>5. ASSUME NEW p \in Pollers, NEW x \in Orders, Expire(p, x) PROVE HasACause(o)'
  <2>1. poller[p].stage = "next" /\ \A q \in Pollers : q # p => poller'[q] = poller[q]
    BY <1>0, <1>5, DoneLeaves DEF Expire, Polling
  <2>2. watch'[o] = watch[o]
    BY <1>5 DEF Expire, QRTypeOK, HalfMade
  <2> QED
    BY <1>2, <1>5, <2>1, <2>2 DEF Expire
<1>6. ASSUME NEW p \in Pollers, NEW x \in Orders, NEW t \in Transfers, Discover(p, x, t)
      PROVE  HasACause(o)'
  <2>1. poller[p].stage = "next" /\ \A q \in Pollers : q # p => poller'[q] = poller[q]
    BY <1>0, <1>6 DEF Discover, Polling
  <2> QED
    BY <1>2, <1>6, <2>1 DEF Discover
<1>7. ASSUME NEW p \in Pollers, MarkMatched(p) PROVE HasACause(o)'
  <2>1. /\ poller[p].stage = "found" /\ poller[p].on \in Orders
        /\ poller[p].trx \in Transfers
        /\ \A q \in Pollers : q # p => poller'[q] = poller[q]
    BY <1>0, <1>7 DEF MarkMatched, CarriesOurs, Ours
  <2>2. CASE o = poller[p].on
    <3>1. sighted'[o] = poller[p].trx /\ poller[p].trx # None
      BY <1>7, <2>1, <2>2, NoneApart DEF MarkMatched, QRTypeOK
    <3>2. poller'[p].stage = "matched" /\ poller'[p].on = o /\ poller'[p].trx = poller[p].trx
      BY <1>0, <1>7, <2>2 DEF MarkMatched, InHand, Stages
    <3> QED
      BY <3>1, <3>2 DEF HasACause
  <2>3. CASE o # poller[p].on
    <3>1. watch'[o] = watch[o] /\ sighted'[o] = sighted[o] /\ UNCHANGED <<coll, cut>>
      BY <1>7, <2>1, <2>3 DEF MarkMatched, QRTypeOK
    <3>2. HasACause(o)
      BY <3>1 DEF MatchesHaveACause, HalfMade
    <3> QED
      BY <2>1, <3>1, <3>2, CauseLasts
  <2> QED
    BY <2>2, <2>3
<1>8. ASSUME NEW p \in Pollers, Record(p) PROVE HasACause(o)'
  <2>1. /\ poller[p].on \in Orders /\ poller[p].trx # None
        /\ coll[poller[p].on] = None /\ UNCHANGED <<watch, sighted, cut>>
        /\ coll' = [coll EXCEPT ![poller[p].on] = poller[p].trx]
    BY <1>8, NoneApart DEF Record, Recordable, CarriesOurs, Ours
  <2>2. o # poller[p].on
    BY <2>1 DEF HalfMade, QRTypeOK
  <2>3. /\ coll'[o] = coll[o]
        /\ \A q \in Orders : coll[q] # None => coll'[q] = coll[q]
    BY <2>1, <2>2 DEF QRTypeOK
  <2>4. \A q \in Pollers : q # p => poller'[q] = poller[q]
    BY <1>0, <1>8, DoneLeaves DEF Record
  <2>5. HasACause(o)
    BY <2>1, <2>3 DEF MatchesHaveACause, HalfMade
  <2> QED
    BY <2>1, <2>2, <2>3, <2>4, <2>5, CauseLasts
<1>9. ASSUME NEW p \in Pollers, Quiet(p) PROVE HasACause(o)'
  <2>1. UNCHANGED <<watch, sighted, coll>> /\ cut \subseteq cut'
    BY <1>9 DEF Quiet
  <2>2. HasACause(o) /\ coll[o] = None /\ o \notin cut'
    BY <2>1 DEF MatchesHaveACause, HalfMade
  <2>3. CASE poller[p].stage = "matched" /\ poller[p].on = o /\ poller[p].trx = sighted[o]
    <3>1. \E q \in Orders : coll[q] = sighted[o]
      BY <1>9, <2>2, <2>3 DEF Quiet, Recordable
    <3> QED
      BY <2>1, <2>2, <3>1 DEF HasACause
  <2>4. CASE ~ (poller[p].stage = "matched" /\ poller[p].on = o /\ poller[p].trx = sighted[o])
    BY <1>9, <2>1, <2>2, <2>4 DEF Quiet, HasACause
  <2> QED
    BY <2>3, <2>4
<1>10. ASSUME NEW t \in Transfers, NEW scanned \in BOOLEAN, Pay(t, scanned)
       PROVE  HasACause(o)'
  BY <1>1, <1>10 DEF Pay
<1>11. CASE Tick
  BY <1>1, <1>11 DEF Tick
<1> QED
  BY <1>3, <1>4, <1>5, <1>6, <1>7, <1>8, <1>9, <1>10, <1>11, ZenonT(60) DEF Step

LEMMA QRInvInit == Init => QRInv
<1> SUFFICES ASSUME Init PROVE QRInv
  OBVIOUS
<1>1. QRTypeOK
  BY QRTypeInit
<1>2. \A p \in Pollers : poller[p].stage = "next" /\ poller[p].todo = {}
  BY DEF Init, Idle
<1> QED
  BY <1>1, <1>2 DEF Init, QRInv, OpenedFirst, CarriesOurs, CarriesClosed,
                    TakenIsOurs, HandedOver, MatchesHaveACause, HalfMade, Exclusive

LEMMA QRInvStep == QRInv /\ [Next]_qrVars => QRInv'
<1> SUFFICES ASSUME QRInv, [Next]_qrVars PROVE QRInv'
  OBVIOUS
<1>1. QRTypeOK'
  BY QRTypeStep DEF QRInv
<1>2. CASE Next
  <2>1. Step
    BY <1>2, StepsOfNext DEF QRInv
  <2>2. OpenedFirst'
    BY <2>1, OpenedFirstStays DEF QRInv
  <2>3. CarriesOurs' /\ CarriesClosed'
    BY <2>1, CarriedStays DEF QRInv
  <2>4. TakenIsOurs' /\ HandedOver' /\ Exclusive'
    BY <2>1, TakenStays
  <2>5. MatchesHaveACause'
    BY <2>1, CausesStay
  <2> QED
    BY <1>1, <2>2, <2>3, <2>4, <2>5 DEF QRInv
<1>3. CASE UNCHANGED qrVars
  <2>1. OpenedFirst'
    BY <1>3 DEF QRInv, OpenedFirst, qrVars
  <2>2. CarriesOurs'
    BY <1>3 DEF QRInv, CarriesOurs, Ours, qrVars
  <2>3. CarriesClosed'
    BY <1>3 DEF QRInv, CarriesClosed, Closed, qrVars
  <2>4. TakenIsOurs'
    BY <1>3 DEF QRInv, TakenIsOurs, Ours, qrVars
  <2>5. HandedOver' /\ Exclusive'
    BY <1>3 DEF QRInv, HandedOver, Closed, Exclusive, qrVars
  <2>6. MatchesHaveACause'
    BY <1>3 DEF QRInv, MatchesHaveACause, HalfMade, HasACause, qrVars
  <2> QED
    BY <1>1, <2>1, <2>2, <2>3, <2>4, <2>5, <2>6 DEF QRInv
<1> QED
  BY <1>2, <1>3

(* The invariant that carries the theorems below, for poll_qr_payments run *)
(* by any number of processes on any stale batches.                        *)
THEOREM DiscoveryInvariant == Spec => []QRInv
BY QRInvInit, QRInvStep, PTL DEF Spec

(* The rows and the pollers keep their types.                              *)
THEOREM QRTypeCorrect == Spec => []QRTypeOK
<1>1. QRInv => QRTypeOK
  BY DEF QRInv
<1> QED
  BY <1>1, DiscoveryInvariant, PTL

(* The collection record_qr_collection makes is for a QR payment of the    *)
(* order's amount that was made in the order's window.                     *)
THEOREM MatchesAreOurs == Spec => []MatchIsOurs
<1>1. QRInv => MatchIsOurs
  BY DEF QRInv, TakenIsOurs, Ours, MatchIsOurs
<1> QED
  BY <1>1, DiscoveryInvariant, PTL

(* A payment is handed over exactly with its collection, and a match that    *)
(* has none is in the hands of a poller, lost a poller to a crash, or names   *)
(* a transfer that pays another order.  (poll_qr_payments.py:130)           *)
THEOREM HandOversAreWhole == Spec => []HandedOverTogether
<1>1. QRInv => HandedOverTogether
  BY DEF QRInv, HandedOver, Closed, MatchesHaveACause, HandedOverTogether
<1> QED
  BY <1>1, DiscoveryInvariant, PTL

(* poll_qr_payments never reopens a watch, however stale its rows.         *)
THEOREM WatchesCloseOnce == Spec => WatchClosesOnce
<1>1. QRInv /\ [Next]_qrVars =>
        [\A o \in Orders : watch[o] \in {"matched", "expired"} => watch'[o] # "watching"]_qrVars
  <2> SUFFICES ASSUME QRInv, Next, NEW o \in Orders, watch[o] \in {"matched", "expired"}
               PROVE  watch'[o] # "watching"
    OBVIOUS
  <2>1. Closed(o)'
    BY StepsOfNext, ClosedStays DEF QRInv, Closed
  <2> QED
    BY <2>1 DEF Closed
<1> QED
  BY <1>1, DiscoveryInvariant, PTL DEF Spec, WatchClosesOnce

(* Discovery implements TransferClaims: every step takes one transfer for  *)
(* one order, both free before, or leaves what is taken as it is.          *)
THEOREM DiscoveryIsExclusive == Spec => ClaimsAreExclusive
<1> DEFINE taken == {c \in Orders \X Transfers : coll[c[1]] = c[2]}
<1>1. Init => Claims!Init
  BY NoneApart DEF Init, Claims!Init
<1>2. QRInv /\ [Next]_qrVars => [Claims!Next]_taken
  <2> SUFFICES ASSUME QRInv, [Next]_qrVars, taken' # taken PROVE Claims!Next
    OBVIOUS
  <2>1. coll' # coll
    OBVIOUS
  <2>2. Step
    BY <2>1, StepsOfNext DEF QRInv, qrVars
  <2>3. PICK p \in Pollers : Record(p)
    BY <2>1, <2>2
       DEF Step, OpenWatch, Pay, Tick, StartBatch, Expire, Discover, MarkMatched,
           Quiet, rowVars
  <2>4. PICK o \in Orders, t \in Transfers : o = poller[p].on /\ t = poller[p].trx
    BY <2>3 DEF QRInv, CarriesOurs, Ours, Record
  <2>5. /\ coll[o] = None /\ \A q \in Orders : coll[q] # t
        /\ coll' = [coll EXCEPT ![o] = t]
    BY <2>3, <2>4 DEF Record, Recordable
  <2>6. \A q \in Orders : coll'[q] = IF q = o THEN t ELSE coll[q]
    BY <2>5 DEF QRInv, QRTypeOK
  <2>7. \A c \in taken : c[1] # o /\ c[2] # t
    BY <2>5, NoneApart
  <2>8. taken' = taken \cup {<<o, t>>}
    <3>1. \A c \in Orders \X Transfers :
             coll'[c[1]] = c[2] <=> coll[c[1]] = c[2] \/ c = <<o, t>>
      BY <2>5, <2>6, NoneApart
    <3> QED
      BY <3>1
  <2> QED
    BY <2>7, <2>8 DEF Claims!Next, Claims!Claim
<1> QED
  BY <1>1, <1>2, DiscoveryInvariant, PTL DEF Spec, ClaimsAreExclusive, Claims!Spec
=============================================================================
