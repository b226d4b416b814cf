---------------------------- MODULE MerchantProofs ---------------------------
(* What a merchant is promised about its application, its file, its plans,   *)
(* fees and keys, for any browsers, requests, plans, amounts, reconcilers,   *)
(* first answers of the rail and changes of the staff.                      *)
EXTENDS PlanRequests, MerchantApi, Onboarding, MerchantFile, SequenceTheorems,
        FiniteSetTheorems, WellFoundedInduction, TLAPS

Assignments == [plan : Plans, by : PlanRequestIds \cup {None}, on : BOOLEAN]

Polls == [by : PlanPollers, req : PlanRequestIds, seen : Polled,
          got : RailAnswers \cup {None}]

(* The types of the rows and of what the reconcilers have in hand.         *)
PlanTypes ==
    /\ plan \in [Plans -> Terms]
    /\ assigned \in Seq(Assignments)
    /\ asked \in [PlanRequestIds -> Plans \cup {None}]
    /\ request \in [PlanRequestIds -> {"none", "pending_payment", "active",
                                       "failed", "cancelled"}]
    /\ paidAt \subseteq PlanRequestIds
    /\ railOrder \in [PlanRequestIds -> RailAnswers \cup {None}]
    /\ row \in [PlanRequestIds -> RailAnswers \cup {None}]
    /\ applied \subseteq PlanRequestIds \X RailAnswers
    /\ polling \subseteq Polls

(* Nothing is ordered or polled before it is asked for.                    *)
NothingUnasked ==
    /\ \A r \in PlanRequestIds :
           IF request[r] = "none" THEN railOrder[r] = None /\ row[r] = None
           ELSE asked[r] \in Plans
    /\ \A q \in polling : row[q.req] # None

(* An answer that says completed is what the rail says, and a payment noted *)
(* is one: its callback is there, which refuses a second one.              *)
PaidIsHeard ==
    /\ \A q \in polling : q.got = "completed" => railOrder[q.req] = "completed"
    /\ \A r \in paidAt : railOrder[r] = "completed" /\ <<r, "completed">> \in applied

(* The requests with a payment and the assignments with a request are one   *)
(* for one.                                                                *)
GrantsMatch ==
    /\ \A i \in DOMAIN assigned : assigned[i].by # None => assigned[i].by \in paidAt
    /\ \A i, j \in DOMAIN assigned :
           assigned[i].by # None /\ assigned[i].by = assigned[j].by => i = j
    /\ \A r \in paidAt : \E i \in DOMAIN assigned : assigned[i].by = r

ActiveIsPaid == \A r \in PlanRequestIds : request[r] = "active" => r \in paidAt

PlanInv ==
    /\ PlanTypes
    /\ NothingUnasked
    /\ PaidIsHeard
    /\ GrantsMatch
    /\ ActiveIsPaid

LEMMA PlanInitially == PlanInit => PlanInv
<1> SUFFICES ASSUME PlanInit PROVE PlanInv
  OBVIOUS
<1> USE DEF PlanInit, PricingInit
<1>1. PlanTypes
  BY PricingAssumption DEF PlanTypes
<1>2. NothingUnasked /\ PaidIsHeard /\ GrantsMatch /\ ActiveIsPaid
  BY DEF NothingUnasked, PaidIsHeard, GrantsMatch, ActiveIsPaid
<1> QED
  BY <1>1, <1>2 DEF PlanInv

-----------------------------------------------------------------------------
(* A request that is new has neither payment nor assignment.               *)
LEMMA NewIsUnpaid ==
    ASSUME PlanInv, NEW r \in PlanRequestIds, request[r] = "none"
    PROVE  /\ r \notin paidAt
           /\ \A q \in polling : q.req # r
           /\ \A i \in DOMAIN assigned : assigned[i].by # r
<1>1. None \notin RailAnswers /\ None \notin PlanRequestIds
  BY PlanRequestAssumption
<1>2. railOrder[r] = None /\ row[r] = None
  BY DEF PlanInv, NothingUnasked
<1>3. "completed" \in RailAnswers
  BY DEF RailAnswers
<1>4. r \notin paidAt
  BY <1>1, <1>2, <1>3 DEF PlanInv, PaidIsHeard
<1>5. \A q \in polling : q.req # r
  BY <1>2 DEF PlanInv, NothingUnasked
<1>6. \A i \in DOMAIN assigned : assigned[i].by # r
  BY <1>1, <1>4 DEF PlanInv, GrantsMatch
<1> QED
  BY <1>4, <1>5, <1>6

(* The portal, whatever the rail answers: only a new request's row and      *)
(* order change.                                                           *)
LEMMA PortalKeeps == ASSUME PlanInv, Portal PROVE PlanInv'
<1>1. PICK r \in PlanRequestIds, p \in Plans, page \in {"dashboard", "public"} :
          \/ \E answer \in FirstAnswers : AskAccepted(r, p, page, answer)
          \/ \E cancels, ordered \in BOOLEAN :
                 AskUnanswered(r, p, page, cancels, ordered)
  BY DEF Portal
<1>2. /\ request[r] = "none"
      /\ asked' = [asked EXCEPT ![r] = p]
      /\ plan' = plan /\ assigned' = assigned
      /\ paidAt' = paidAt /\ applied' = applied /\ polling' = polling
  BY <1>1 DEF AskAccepted, AskUnanswered, Ask, pricingVars
<1>3. PICK s \in {"pending_payment", "cancelled"},
           a \in RailAnswers \cup {None}, o \in RailAnswers \cup {None} :
          /\ request' = [request EXCEPT ![r] = s]
          /\ railOrder' = [railOrder EXCEPT ![r] = a]
          /\ row' = [row EXCEPT ![r] = o]
  <2>0. row[r] = None /\ railOrder[r] = None
    BY <1>2 DEF PlanInv, NothingUnasked
  <2>1. CASE \E answer \in FirstAnswers : AskAccepted(r, p, page, answer)
    BY <2>1, PlanRequestAssumption DEF AskAccepted
  <2>2. CASE \E cancels, ordered \in BOOLEAN :
                 AskUnanswered(r, p, page, cancels, ordered)
    <3>1. PICK cancels \in BOOLEAN, ordered \in BOOLEAN :
              AskUnanswered(r, p, page, cancels, ordered)
      BY <2>2
    <3>2. row' = [row EXCEPT ![r] = None]
      BY <2>0, <3>1 DEF AskUnanswered, PlanInv, PlanTypes
    <3>3. \E a \in RailAnswers \cup {None} : railOrder' = [railOrder EXCEPT ![r] = a]
      <4>1. CASE ordered
        BY <3>1, <4>1 DEF AskUnanswered, RailAnswers, Polled
      <4>2. CASE ~ordered
        <5>1. railOrder' = railOrder
          BY <3>1, <4>2 DEF AskUnanswered
        <5>2. railOrder' = [railOrder EXCEPT ![r] = None]
          BY <2>0, <5>1 DEF PlanInv, PlanTypes
        <5> QED
          BY <5>2
      <4> QED
        BY <4>1, <4>2
    <3>4. \E s \in {"pending_payment", "cancelled"} :
              request' = [request EXCEPT ![r] = s]
      BY <3>1 DEF AskUnanswered
    <3> QED
      BY <3>2, <3>3, <3>4
  <2> QED
    BY <1>1, <2>1, <2>2
<1>4. /\ r \notin paidAt
      /\ \A q \in polling : q.req # r
      /\ \A i \in DOMAIN assigned : assigned[i].by # r
  BY <1>2, NewIsUnpaid
<1> USE DEF PlanInv
<1>5. PlanTypes'
  BY <1>2, <1>3 DEF PlanTypes
<1>6. NothingUnasked'
  BY <1>2, <1>3, <1>4 DEF PlanTypes, NothingUnasked, Polls
<1>7. PaidIsHeard'
  BY <1>2, <1>3, <1>4 DEF PlanTypes, PaidIsHeard, Polls
<1>8. GrantsMatch'
  BY <1>2 DEF GrantsMatch
<1>9. ActiveIsPaid'
  BY <1>2, <1>3 DEF PlanTypes, ActiveIsPaid
<1> QED
  BY <1>5, <1>6, <1>7, <1>8, <1>9

(* A reconciler reads its rows, asks the rail, drops a poll.               *)
LEMMA PollingKeeps ==
    ASSUME PlanInv, NEW w \in PlanPollers,
           \/ \E batch \in SUBSET PlanRequestIds : ReadPlanRows(w, batch)
           \/ \E q \in polling : AskRail(q) \/ DropPlanPoll(q)
    PROVE  PlanInv'
<1>1. /\ plan' = plan /\ assigned' = assigned
      /\ asked' = asked /\ request' = request /\ paidAt' = paidAt
      /\ row' = row /\ applied' = applied /\ railOrder' = railOrder
  BY DEF ReadPlanRows, AskRail, DropPlanPoll, tables, pricingVars
<1>2. \A q \in polling' :
          /\ q \in Polls
          /\ row[q.req] # None
          /\ q.got = "completed" => railOrder[q.req] = "completed"
  <2>0. None \notin RailAnswers /\ Polled \subseteq RailAnswers
    BY PlanRequestAssumption DEF RailAnswers
  <2>1. CASE \E batch \in SUBSET PlanRequestIds : ReadPlanRows(w, batch)
    <3>1. PICK batch \in SUBSET PlanRequestIds : ReadPlanRows(w, batch)
      BY <2>1
    <3> SUFFICES ASSUME NEW q \in polling', q \notin polling
                 PROVE  /\ q \in Polls
                        /\ row[q.req] # None
                        /\ q.got = "completed" => railOrder[q.req] = "completed"
      BY DEF PlanInv, PlanTypes, NothingUnasked, PaidIsHeard
    <3>2. PICK r \in batch : q = [by |-> w, req |-> r, seen |-> row[r], got |-> None]
      BY <3>1 DEF ReadPlanRows
    <3>3. r \in PlanRequestIds /\ row[r] \in Polled
      BY <3>1, <3>2 DEF ReadPlanRows, DuePlanRows
    <3> QED
      BY <2>0, <3>2, <3>3 DEF Polls, RailAnswers
  <2>2. CASE \E q \in polling : AskRail(q)
    <3>1. PICK o \in polling : AskRail(o)
      BY <2>2
    <3> DEFINE heard == [o EXCEPT !.got = railOrder[o.req]]
    <3>2. o \in Polls /\ o.req \in PlanRequestIds
      BY DEF PlanInv, PlanTypes, Polls
    <3>3. railOrder[o.req] \in RailAnswers \cup {None}
      BY <3>2 DEF PlanInv, PlanTypes
    <3>4. heard \in Polls /\ heard.req = o.req /\ heard.got = railOrder[o.req]
      BY <3>2, <3>3 DEF Polls
    <3>5. polling' \subseteq polling \cup {heard}
      BY <3>1 DEF AskRail
    <3> HIDE DEF heard
    <3> QED
      BY <3>4, <3>5 DEF PlanInv, PlanTypes, NothingUnasked, PaidIsHeard
  <2>3. CASE \E q \in polling : DropPlanPoll(q)
    <3>1. polling' \subseteq polling
      BY <2>3 DEF DropPlanPoll
    <3> QED
      BY <3>1 DEF PlanInv, PlanTypes, NothingUnasked, PaidIsHeard
  <2> QED
    BY <2>1, <2>2, <2>3
<1> QED
  BY <1>1, <1>2
     DEF PlanInv, PlanTypes, NothingUnasked, PaidIsHeard, GrantsMatch, ActiveIsPaid

-----------------------------------------------------------------------------
(* Applying an answer: what both outcomes do to row, callback and poll.     *)
LEMMA AppliesKeeps ==
    ASSUME PlanInv, NEW q \in polling, Applies(q)
    PROVE  /\ q \in Polls /\ q.req \in PlanRequestIds /\ q.got \in RailAnswers
           /\ row' \in [PlanRequestIds -> RailAnswers \cup {None}]
           /\ applied' \subseteq PlanRequestIds \X RailAnswers
           /\ applied \subseteq applied' /\ <<q.req, q.got>> \in applied'
           /\ polling' \subseteq polling
           /\ \A r \in PlanRequestIds : row'[r] = None => row[r] = None /\ r # q.req
           /\ request[q.req] # "none"
           /\ <<q.req, q.got>> \notin applied
           /\ asked' = asked /\ railOrder' = railOrder
<1>1. None \notin RailAnswers
  BY PlanRequestAssumption
<1>2. q \in Polls /\ q.req \in PlanRequestIds /\ q.got \in RailAnswers
  BY DEF PlanInv, PlanTypes, Polls, Applies
<1>3. request[q.req] # "none"
  BY <1>2 DEF PlanInv, NothingUnasked
<1> QED
  BY <1>1, <1>2, <1>3 DEF PlanInv, PlanTypes, Applies, WasApplied

LEMMA ApplyKeeps ==
    ASSUME PlanInv, NEW q \in polling, ApplyStatus(q)
    PROVE  PlanInv'
<1>0. Applies(q)
  BY DEF ApplyStatus
<1>1. PICK s \in {"pending_payment", "failed", "cancelled"} :
          request' = [request EXCEPT ![q.req] = s]
  <2>1. q.got \in {"pending", "processing", "failed", "cancelled"}
    BY DEF ApplyStatus, RequestStatus
  <2>2. RequestStatus[q.got] \in {"pending_payment", "failed", "cancelled"}
    BY <2>1 DEF RequestStatus
  <2> QED
    BY <2>2 DEF ApplyStatus
<1>2. plan' = plan /\ assigned' = assigned /\ paidAt' = paidAt
  BY DEF ApplyStatus, pricingVars
<1> USE DEF PlanInv
<1>3. PlanTypes'
  BY <1>0, <1>1, <1>2, AppliesKeeps DEF PlanTypes
<1>4. NothingUnasked'
  <2>1. \A r \in PlanRequestIds : request'[r] = "none" => request[r] = "none" /\ r # q.req
    BY <1>0, <1>1, AppliesKeeps DEF PlanTypes
  <2>2. \A r \in PlanRequestIds : r # q.req => row'[r] = row[r]
    BY <1>0 DEF Applies, PlanTypes
  <2>3. \A x \in PlanRequestIds :
            IF request'[x] = "none" THEN railOrder'[x] = None /\ row'[x] = None
            ELSE asked'[x] \in Plans
    <3> SUFFICES ASSUME NEW x \in PlanRequestIds
                 PROVE  IF request'[x] = "none"
                        THEN railOrder'[x] = None /\ row'[x] = None
                        ELSE asked'[x] \in Plans
      OBVIOUS
    <3>1. asked' = asked /\ railOrder' = railOrder /\ request[q.req] # "none"
      BY <1>0, AppliesKeeps
    <3>2. request[x] = "none" => request'[x] = "none"
      BY <1>1, <3>1 DEF PlanTypes
    <3> QED
      BY <2>1, <2>2, <3>1, <3>2 DEF NothingUnasked
  <2>4. \A p \in polling' : row'[p.req] # None
    BY <1>0, AppliesKeeps DEF NothingUnasked, PlanTypes, Polls
  <2> QED
    BY <2>3, <2>4 DEF NothingUnasked
<1>5. PaidIsHeard'
  BY <1>0, <1>2, AppliesKeeps DEF PaidIsHeard
<1>6. GrantsMatch'
  BY <1>0, <1>2, AppliesKeeps DEF GrantsMatch
<1>7. ActiveIsPaid'
  BY <1>1, <1>2 DEF ActiveIsPaid, PlanTypes
<1> QED
  BY <1>3, <1>4, <1>5, <1>6, <1>7

(* The first application of COMPLETED: the callback was not there, so no    *)
(* payment was noted and no plan assigned.                                 *)
LEMMA ActivateKeeps ==
    ASSUME PlanInv, NEW q \in polling, ActivatePlan(q)
    PROVE  PlanInv'
<1> DEFINE r == q.req
<1> DEFINE new == [plan |-> asked[r], by |-> r, on |-> TRUE]
<1>0. Applies(q) /\ q.got = "completed"
  BY DEF ActivatePlan
<1>1. /\ request' = [request EXCEPT ![r] = "active"]
      /\ paidAt' = paidAt \cup {r}
      /\ assigned' = Append(assigned, new)
      /\ plan' = plan
  BY DEF ActivatePlan, Assign
<1>2. r \in PlanRequestIds /\ r # None /\ r \notin paidAt /\ railOrder[r] = "completed"
  <2>1. <<r, "completed">> \notin applied
    BY <1>0, AppliesKeeps
  <2>2. r \in PlanRequestIds
    BY <1>0, AppliesKeeps
  <2> QED
    BY <1>0, <2>1, <2>2, PlanRequestAssumption DEF PlanInv, PaidIsHeard
<1> USE DEF PlanInv
<1>3. PlanTypes'
  <2>1. asked[r] \in Plans
    BY <1>0, <1>2, AppliesKeeps DEF NothingUnasked
  <2>2. new \in Assignments
    BY <1>2, <2>1 DEF Assignments
  <2>3. assigned' \in Seq(Assignments)
    BY <1>1, <2>2 DEF PlanTypes
  <2> QED
    BY <1>0, <1>1, <1>2, <2>3, AppliesKeeps DEF PlanTypes
<1>4. NothingUnasked'
  <2>1. \A x \in PlanRequestIds :
            request'[x] = "none" <=> request[x] = "none" /\ x # r
    BY <1>0, <1>1, <1>2, AppliesKeeps DEF PlanTypes
  <2>2. \A x \in PlanRequestIds : x # r => row'[x] = row[x]
    BY <1>0 DEF Applies, PlanTypes
  <2>3. asked[r] \in Plans
    BY <1>0, <1>2, AppliesKeeps DEF NothingUnasked
  <2>4. asked' = asked /\ railOrder' = railOrder
    BY <1>0, AppliesKeeps
  <2> HIDE DEF r
  <2>5. \A x \in PlanRequestIds :
            IF request'[x] = "none" THEN railOrder'[x] = None /\ row'[x] = None
            ELSE asked'[x] \in Plans
    BY <2>1, <2>2, <2>3, <2>4 DEF NothingUnasked
  <2>6. /\ polling' \subseteq polling
        /\ \A x \in PlanRequestIds : row'[x] = None => row[x] = None
    BY <1>0, AppliesKeeps
  <2>7. \A p \in polling : p.req \in PlanRequestIds /\ row[p.req] # None
    BY DEF NothingUnasked, PlanTypes, Polls
  <2>8. \A p \in polling' : row'[p.req] # None
    BY <2>6, <2>7
  <2> QED
    BY <2>5, <2>8 DEF NothingUnasked
<1>5. PaidIsHeard'
  BY <1>0, <1>1, <1>2, AppliesKeeps DEF PaidIsHeard
<1>6. GrantsMatch'
  <2> DEFINE n == Len(assigned)
  <2>1. n \in Nat /\ DOMAIN assigned = 1 .. n
    BY DEF PlanTypes
  <2>2. /\ DOMAIN assigned' = 1 .. (n + 1)
        /\ assigned'[n + 1] = new
        /\ \A i \in 1 .. n : assigned'[i] = assigned[i]
    BY <1>1, <2>1 DEF PlanTypes
  <2>3. \A i \in DOMAIN assigned : assigned[i].by # r
    BY <1>2 DEF GrantsMatch
  <2>4. \A i \in 1 .. (n + 1) : i = n + 1 \/ i \in 1 .. n
    BY <2>1
  <2>5. new.by = r
    OBVIOUS
  <2>7. n + 1 \in 1 .. (n + 1) /\ 1 .. n \subseteq 1 .. (n + 1)
    BY <2>1
  <2> HIDE DEF n, new
  <2>8. \A i \in DOMAIN assigned' :
            assigned'[i].by # None => assigned'[i].by \in paidAt'
    BY <1>1, <2>1, <2>2, <2>4, <2>5 DEF GrantsMatch
  <2>9. \A i, j \in DOMAIN assigned' :
            assigned'[i].by # None /\ assigned'[i].by = assigned'[j].by => i = j
    BY <2>1, <2>2, <2>3, <2>4, <2>5 DEF GrantsMatch
  <2>10. \A x \in paidAt' : \E i \in DOMAIN assigned' : assigned'[i].by = x
    BY <1>1, <2>1, <2>2, <2>5, <2>7 DEF GrantsMatch
  <2> QED
    BY <2>8, <2>9, <2>10 DEF GrantsMatch
<1>7. ActiveIsPaid'
  BY <1>1 DEF ActiveIsPaid, PlanTypes
<1> QED
  BY <1>3, <1>4, <1>5, <1>6, <1>7

-----------------------------------------------------------------------------
(* An edit by the staff leaves no assignment out and makes none up.         *)
LEMMA EditsPermute ==
    ASSUME NEW n \in Nat, NEW i \in 1 .. n, NEW k \in 1 .. n
    PROVE  /\ Origin(k, i, k) = i
           /\ \A j \in 1 .. n : Origin(j, i, k) \in 1 .. n
           /\ \A m \in 1 .. n : \E j \in 1 .. n : Origin(j, i, k) = m
<1>1. \A j \in 1 .. n : Origin(j, i, k) \in 1 .. n
  BY DEF Origin
<1>2. \A m \in 1 .. n : Origin(Origin(m, k, i), i, k) = m
  BY DEF Origin
<1>3. \A m \in 1 .. n : Origin(m, k, i) \in 1 .. n
  BY DEF Origin
<1> QED
  BY <1>1, <1>2, <1>3 DEF Origin

(* Whose an assignment is goes with it; its plan may be another.            *)
LEMMA EditedAssignments ==
    ASSUME assigned \in Seq(Assignments), NEW i \in DOMAIN assigned,
           NEW p \in Plans, NEW k \in DOMAIN assigned, StaffEdit(i, p, k)
    PROVE  /\ plan' = plan /\ assigned' \in Seq(Assignments)
           /\ DOMAIN assigned' = DOMAIN assigned
           /\ \A j \in DOMAIN assigned :
                  /\ Origin(j, i, k) \in DOMAIN assigned
                  /\ assigned'[j].by = assigned[Origin(j, i, k)].by
<1> DEFINE n == Len(assigned)
           new == [assigned[i] EXCEPT !.plan = p]
<1>1. n \in Nat /\ DOMAIN assigned = 1 .. n
  OBVIOUS
<1>2. assigned[i] \in Assignments
  OBVIOUS
<1>3. new \in Assignments /\ new.by = assigned[i].by
  BY <1>2 DEF Assignments
<1>4. /\ plan' = plan
      /\ assigned' = [j \in DOMAIN assigned |->
                        IF j = k THEN new ELSE assigned[Origin(j, i, k)]]
  BY DEF StaffEdit
<1>5. /\ Origin(k, i, k) = i
      /\ \A j \in 1 .. n : Origin(j, i, k) \in 1 .. n
  <2>1. i \in 1 .. n /\ k \in 1 .. n
    BY <1>1
  <2> HIDE DEF n
  <2> QED
    BY <1>1, <2>1, EditsPermute
<1> HIDE DEF new
<1>6. \A j \in 1 .. n : assigned'[j] \in Assignments
  BY <1>1, <1>3, <1>4, <1>5
<1>7. assigned' \in Seq(Assignments)
  BY <1>1, <1>4, <1>6
<1> QED
  BY <1>1, <1>3, <1>4, <1>5, <1>7

(* So every paid request still has its one assignment.                      *)
LEMMA EditedGrants ==
    ASSUME assigned \in Seq(Assignments), GrantsMatch, paidAt' = paidAt,
           NEW i \in DOMAIN assigned, NEW p \in Plans, NEW k \in DOMAIN assigned,
           StaffEdit(i, p, k)
    PROVE  GrantsMatch'
<1> DEFINE n == Len(assigned)
<1>1. n \in Nat /\ DOMAIN assigned = 1 .. n /\ i \in 1 .. n /\ k \in 1 .. n
  OBVIOUS
<1>2. /\ DOMAIN assigned' = 1 .. n
      /\ \A j \in 1 .. n : assigned'[j].by = assigned[Origin(j, i, k)].by
  BY <1>1, EditedAssignments
<1> HIDE DEF n
<1>3. \A j \in 1 .. n : Origin(j, i, k) \in 1 .. n
  BY <1>1, EditsPermute
<1>4. ASSUME NEW j \in 1 .. n, NEW l \in 1 .. n, Origin(j, i, k) = Origin(l, i, k)
      PROVE  j = l
  BY <1>1, <1>4 DEF Origin
<1>5. \A m \in 1 .. n : \E j \in 1 .. n : Origin(j, i, k) = m
  BY <1>1, EditsPermute
<1>6. ASSUME NEW j \in 1 .. n, assigned'[j].by # None
      PROVE  assigned'[j].by \in paidAt
  <2>1. Origin(j, i, k) \in DOMAIN assigned
    BY <1>1, <1>3
  <2>2. assigned[Origin(j, i, k)].by # None
    BY <1>2, <1>6
  <2> QED
    BY <1>2, <2>1, <2>2 DEF GrantsMatch
<1>7. ASSUME NEW j \in 1 .. n, NEW l \in 1 .. n,
             assigned'[j].by # None, assigned'[j].by = assigned'[l].by
      PROVE  j = l
  <2>1. Origin(j, i, k) \in DOMAIN assigned /\ Origin(l, i, k) \in DOMAIN assigned
    BY <1>1, <1>3
  <2>2. Origin(j, i, k) = Origin(l, i, k)
    BY <1>2, <1>7, <2>1 DEF GrantsMatch
  <2> QED
    BY <1>4, <2>2
<1>8. ASSUME NEW r \in paidAt PROVE \E j \in 1 .. n : assigned'[j].by = r
  <2>1. PICK m \in 1 .. n : assigned[m].by = r
    BY <1>1 DEF GrantsMatch
  <2>2. PICK j \in 1 .. n : Origin(j, i, k) = m
    BY <1>5
  <2> QED
    BY <1>2, <2>1, <2>2
<1> QED
  BY <1>2, <1>6, <1>7, <1>8 DEF GrantsMatch

(* The staff assign plans without a request, and never change whose an      *)
(* assignment is.                                                          *)
LEMMA StaffKeeps == ASSUME PlanInv, StaffPrices PROVE PlanInv'
<1>1. /\ asked' = asked /\ request' = request /\ paidAt' = paidAt
      /\ row' = row /\ applied' = applied /\ railOrder' = railOrder
      /\ polling' = polling
  BY DEF StaffPrices
<1> DEFINE n == Len(assigned)
<1>2. n \in Nat /\ DOMAIN assigned = 1 .. n
  BY DEF PlanInv, PlanTypes
<1> USE DEF PlanInv
<1>3. plan' \in [Plans -> Terms] /\ assigned' \in Seq(Assignments) /\ GrantsMatch'
  <2>1. CASE \E p \in Plans : StaffAssign(p)
    <3>1. PICK p \in Plans : StaffAssign(p)
      BY <2>1
    <3> DEFINE new == [plan |-> p, by |-> None, on |-> TRUE]
    <3>2. plan' = plan /\ assigned' = Append(assigned, new)
      BY <3>1 DEF StaffAssign, Assign
    <3>3. new \in Assignments /\ new.by = None
      BY DEF Assignments
    <3>4. assigned' \in Seq(Assignments)
      BY <3>2, <3>3 DEF PlanTypes
    <3>5. /\ DOMAIN assigned' = 1 .. (n + 1)
          /\ assigned'[n + 1] = new
          /\ \A i \in 1 .. n : assigned'[i] = assigned[i]
      BY <1>2, <3>2 DEF PlanTypes
    <3>6. \A i \in 1 .. (n + 1) : i = n + 1 \/ i \in 1 .. n
      BY <1>2
    <3>7. 1 .. n \subseteq 1 .. (n + 1)
      BY <1>2
    <3>8. None \notin paidAt
      BY PlanRequestAssumption DEF PlanTypes
    <3> HIDE DEF n, new
    <3>9. GrantsMatch'
      BY <1>1, <1>2, <3>3, <3>5, <3>6, <3>7, <3>8 DEF GrantsMatch
    <3> QED
      BY <3>2, <3>4, <3>9 DEF PlanTypes
  <2>2. CASE \E p \in Plans : StaffRetire(p)
    <3>1. PICK p \in Plans : StaffRetire(p)
      BY <2>2
    <3>2. plan[p] \in Terms
      BY DEF PlanTypes
    <3>3. [plan[p] EXCEPT !.on = ~plan[p].on] \in Terms
      BY <3>2 DEF Terms
    <3>4. plan' = [plan EXCEPT ![p] = [plan[p] EXCEPT !.on = ~plan[p].on]]
      BY <3>1 DEF StaffRetire
    <3>5. assigned' = assigned
      BY <3>1 DEF StaffRetire
    <3> QED
      BY <1>1, <3>3, <3>4, <3>5 DEF PlanTypes, GrantsMatch
  <2>3. CASE \E p \in Plans, rate \in Rates : StaffReprice(p, rate)
    <3>1. PICK p \in Plans, rate \in Rates : StaffReprice(p, rate)
      BY <2>3
    <3>2. plan[p] \in Terms /\ rate \in Int \cup {None}
      BY PricingAssumption DEF PlanTypes
    <3>3. [plan[p] EXCEPT !.rate = rate] \in Terms
      BY <3>2 DEF Terms
    <3>4. plan' = [plan EXCEPT ![p] = [plan[p] EXCEPT !.rate = rate]]
      BY <3>1 DEF StaffReprice
    <3>5. assigned' = assigned
      BY <3>1 DEF StaffReprice
    <3> QED
      BY <1>1, <3>3, <3>4, <3>5 DEF PlanTypes, GrantsMatch
  <2>4. CASE \E i \in DOMAIN assigned : StaffSwitch(i)
    <3>1. PICK i \in DOMAIN assigned : StaffSwitch(i)
      BY <2>4
    <3>2. assigned[i] \in Assignments
      BY DEF PlanTypes
    <3> DEFINE new == [assigned[i] EXCEPT !.on = ~assigned[i].on]
    <3>3. new \in Assignments /\ new.by = assigned[i].by
      BY <3>2 DEF Assignments
    <3>4. plan' = plan /\ assigned' = [assigned EXCEPT ![i] = new]
      BY <3>1 DEF StaffSwitch
    <3> HIDE DEF new
    <3>5. assigned' \in Seq(Assignments)
      BY <3>1, <3>3, <3>4 DEF PlanTypes
    <3>6. /\ DOMAIN assigned' = DOMAIN assigned
          /\ \A j \in DOMAIN assigned : assigned'[j].by = assigned[j].by
      BY <3>3, <3>4
    <3>7. GrantsMatch'
      BY <1>1, <3>6 DEF GrantsMatch
    <3> QED
      BY <3>4, <3>5, <3>7 DEF PlanTypes
  <2>5. CASE \E i \in DOMAIN assigned, p \in Plans, k \in DOMAIN assigned :
                 StaffEdit(i, p, k)
    <3>1. PICK i \in DOMAIN assigned, p \in Plans, k \in DOMAIN assigned :
              StaffEdit(i, p, k)
      BY <2>5
    <3>2. plan' = plan /\ assigned' \in Seq(Assignments)
      BY <3>1, EditedAssignments DEF PlanTypes
    <3>3. GrantsMatch'
      BY <1>1, <3>1, EditedGrants DEF PlanTypes
    <3> QED
      BY <3>2, <3>3 DEF PlanTypes
  <2> QED
    BY <2>1, <2>2, <2>3, <2>4, <2>5 DEF StaffPrices, Staff
<1> QED
  BY <1>1, <1>3 DEF PlanTypes, NothingUnasked, PaidIsHeard, ActiveIsPaid

(* The rail never leaves completed.                                        *)
LEMMA RailKeeps ==
    ASSUME PlanInv, NEW r \in PlanRequestIds, RailMoves(r)
    PROVE  PlanInv'
<1>1. /\ plan' = plan /\ assigned' = assigned
      /\ asked' = asked /\ request' = request /\ paidAt' = paidAt
      /\ row' = row /\ applied' = applied /\ polling' = polling
  BY DEF RailMoves, tables, pricingVars
<1>2. PICK s \in RailAnswers : s \in LaterAnswers(railOrder[r])
                              /\ railOrder' = [railOrder EXCEPT ![r] = s]
  BY DEF RailMoves, LaterAnswers
<1>3. railOrder[r] \in Polled
  BY <1>2 DEF LaterAnswers, Polled
<1>4. railOrder[r] # "completed" /\ railOrder[r] # None
  BY <1>3, PlanRequestAssumption DEF Polled, RailAnswers
<1> USE DEF PlanInv
<1>5. PlanTypes'
  BY <1>1, <1>2 DEF PlanTypes
<1>6. NothingUnasked'
  BY <1>1, <1>2, <1>4 DEF NothingUnasked, PlanTypes
<1>7. PaidIsHeard'
  <2>1. \A x \in PlanRequestIds : railOrder[x] = "completed" => railOrder'[x] = "completed"
    BY <1>2, <1>4 DEF PlanTypes
  <2> QED
    BY <1>1, <2>1 DEF PaidIsHeard, PlanTypes, Polls
<1> QED
  BY <1>1, <1>5, <1>6, <1>7 DEF GrantsMatch, ActiveIsPaid

LEMMA PlanStep == PlanInv /\ [PlanNext]_planVars => PlanInv'
<1> SUFFICES ASSUME PlanInv, [PlanNext]_planVars PROVE PlanInv'
  OBVIOUS
<1>1. CASE Portal
  BY <1>1, PortalKeeps
<1>2. CASE StaffPrices
  BY <1>2, StaffKeeps
<1>3. CASE \E w \in PlanPollers : Poller(w)
  <2>1. PICK w \in PlanPollers : Poller(w)
    BY <1>3
  <2>2. CASE \/ \E batch \in SUBSET PlanRequestIds : ReadPlanRows(w, batch)
             \/ \E q \in polling : AskRail(q) \/ DropPlanPoll(q)
    BY <2>2, PollingKeeps
  <2>3. CASE \E q \in polling : ApplyStatus(q)
    BY <2>3, ApplyKeeps
  <2>4. CASE \E q \in polling : ActivatePlan(q)
    BY <2>4, ActivateKeeps
  <2> QED
    BY <2>1, <2>2, <2>3, <2>4 DEF Poller
<1>4. CASE \E r \in PlanRequestIds : RailMoves(r)
  BY <1>4, RailKeeps
<1>5. CASE UNCHANGED planVars
  BY <1>5 DEF planVars, pricingVars, PlanInv, PlanTypes, NothingUnasked,
              PaidIsHeard, GrantsMatch, ActiveIsPaid
<1> QED
  BY <1>1, <1>2, <1>3, <1>4, <1>5 DEF PlanNext

(* The strengthening: requests, callbacks, payments and assignments of the  *)
(* plan requests agree in every state.                                     *)
(* (apps/gateway/services.py:121)                                          *)
THEOREM PlanInvariant == PlanSpec => []PlanInv
<1> QED
  BY PlanInitially, PlanStep, PTL DEF PlanSpec

(* The rows of plan requests and assignments keep their types.             *)
(* (apps/billing/models.py:134)                                            *)
THEOREM PlanTypesAreKept == PlanSpec => []PlanTypeOK
<1>1. PlanInv => PlanTypeOK
  <2> SUFFICES ASSUME PlanInv PROVE PlanTypeOK
    OBVIOUS
  <2>1. \A i \in DOMAIN assigned : assigned[i] \in Assignments
    BY DEF PlanInv, PlanTypes
  <2> QED
    BY <2>1 DEF PlanInv, PlanTypes, PlanTypeOK, Assignments, Polls
<1> QED
  BY <1>1, PlanInvariant, PTL

(* A paid request brings its plan once, an unpaid one never, for any number *)
(* of reconcilers that apply the rail's answers in any order.              *)
(* (apps/billing/services.py:109, apps/gateway/services.py:121)            *)
THEOREM PaidRequestsAreGranted == PlanSpec => []GrantsArePaidOnce
<1>1. PlanInv => GrantsArePaidOnce
  <2> SUFFICES ASSUME PlanInv, NEW r \in PlanRequestIds
               PROVE  /\ Cardinality(Granted(r)) <= 1
                      /\ Granted(r) # {} <=> r \in paidAt
                      /\ Granted(r) # {} => railOrder[r] = "completed"
                      /\ request[r] = "active" => r \in paidAt
    BY DEF GrantsArePaidOnce
  <2>1. r # None
    BY PlanRequestAssumption
  <2>2. \A i, j \in Granted(r) : i = j
    BY <2>1 DEF PlanInv, GrantsMatch, Granted
  <2>3. Cardinality(Granted(r)) <= 1
    <3>1. CASE Granted(r) = {}
      BY <3>1, FS_EmptySet
    <3>2. CASE \E i : Granted(r) = {i}
      <4>1. PICK i : Granted(r) = {i}
        BY <3>2
      <4>2. Cardinality({i}) = 1
        BY FS_Singleton
      <4> QED
        BY <4>1, <4>2
    <3> QED
      BY <2>2, <3>1, <3>2
  <2>4. Granted(r) # {} <=> r \in paidAt
    BY <2>1 DEF PlanInv, GrantsMatch, Granted
  <2>5. Granted(r) # {} => railOrder[r] = "completed"
    BY <2>4 DEF PlanInv, PaidIsHeard
  <2> QED
    BY <2>3, <2>4, <2>5 DEF PlanInv, ActiveIsPaid
<1> QED
  BY <1>1, PlanInvariant, PTL
-----------------------------------------------------------------------------
(* The fee of a transaction.                                               *)

(* Least elements exist: the well-foundedness of the natural numbers.       *)
LEMMA LeastExists ==
    ASSUME NEW T, T \subseteq Nat, T # {}
    PROVE  \E x \in T : \A y \in T : x <= y
<1> DEFINE Less == OpToRel(<, Nat)
<1>1. IsWellFoundedOn(Less, Nat)
  BY NatLessThanWellFounded
<1>2. \A x, y \in Nat : x < y => <<x, y>> \in Less
  BY DEF OpToRel
<1> HIDE DEF Less
<1>3. PICK x \in T : \A y \in T : <<y, x>> \notin Less
  BY <1>1, WFMin
<1>4. x \in Nat /\ \A y \in T : y \in Nat /\ ~(y < x)
  BY <1>2, <1>3
<1> QED
  BY <1>4

(* Nearest rounds half up: it is off by half a cent at most.                *)
LEMMA NearestIsRounded ==
    ASSUME NEW share \in Nat
    PROVE  /\ Nearest(share) \in Nat
           /\ 2 * (Nearest(share) * Whole - share) <= Whole
           /\ 2 * (share - Nearest(share) * Whole) < Whole
<1>1. \A x \in Nat :
          LET fee == (2 * x + 1000000) \div (2 * 1000000) IN
          /\ fee \in Nat
          /\ 2 * (fee * 1000000 - x) <= 1000000
          /\ 2 * (x - fee * 1000000) < 1000000
  OBVIOUS
<1> QED
  BY <1>1 DEF Nearest, Whole

(* A fee is its rate's share of the amount, rounded; the share and the fee   *)
(* of a negative rate are never positive.                                  *)
RightFee(gross, rate, fee) ==
    /\ fee \in Int
    /\ rate >= 0 => /\ fee >= 0
                    /\ 2 * (fee * Whole - gross * rate) <= Whole
                    /\ 2 * (gross * rate - fee * Whole) < Whole
    /\ rate < 0 => fee <= 0 /\ gross * rate <= 0
                   /\ 2 * (fee * Whole - gross * rate) <= Whole

LEMMA FeeIsRounded ==
    ASSUME NEW gross \in Nat, NEW rate \in Int
    PROVE  RightFee(gross, rate, FeeOf(gross, rate))
<1>1. CASE rate >= 0
  <2>1. gross * rate \in Nat
    BY <1>1
  <2>2. FeeOf(gross, rate) = Nearest(gross * rate)
    BY <1>1 DEF FeeOf
  <2>3. ~(rate < 0)
    BY <1>1
  <2> QED
    BY <2>1, <2>2, <2>3, NearestIsRounded DEF RightFee
<1>2. CASE rate < 0
  <2> DEFINE share == gross * (0 - rate)
  <2>1. share \in Nat /\ gross * rate = 0 - share
    BY <1>2
  <2>2. FeeOf(gross, rate) = 0 - Nearest(share) /\ ~(rate >= 0)
    BY <1>2 DEF FeeOf
  <2> HIDE DEF share
  <2>3. /\ Nearest(share) \in Nat
        /\ 2 * (share - Nearest(share) * 1000000) < 1000000
    BY <2>1, NearestIsRounded DEF Whole
  <2>4. \A f, x \in Nat : 2 * (x - f * 1000000) < 1000000 =>
            /\ 0 - f <= 0 /\ 0 - x <= 0 /\ 0 - f \in Int
            /\ 2 * ((0 - f) * 1000000 - (0 - x)) <= 1000000
    OBVIOUS
  <2>5. /\ 0 - Nearest(share) <= 0 /\ 0 - share <= 0 /\ 0 - Nearest(share) \in Int
        /\ 2 * ((0 - Nearest(share)) * 1000000 - (0 - share)) <= 1000000
    BY <2>1, <2>3, <2>4
  <2> QED
    BY <2>1, <2>2, <2>5 DEF RightFee, Whole
<1> QED
  BY <1>1, <1>2

PricingTypes == plan \in [Plans -> Terms] /\ assigned \in Seq(Assignments)

(* The newest of the assignments that count is one of them.                 *)
LEMMA NewestCounts ==
    ASSUME PricingTypes
    PROVE  ActiveAssignment = 0 \/ ActiveAssignment \in DOMAIN assigned
<1> DEFINE n == Len(assigned)
           Ages == {n - i : i \in Effective}
<1>1. n \in Nat /\ DOMAIN assigned = 1 .. n /\ Effective \subseteq 1 .. n
  BY DEF PricingTypes, Effective
<1>2. CASE Effective = {}
  BY <1>2 DEF ActiveAssignment
<1>3. CASE Effective # {}
  <2>1. Ages \subseteq Nat /\ Ages # {}
    <3>1. \A i \in 1 .. n : n - i \in Nat
      BY <1>1
    <3> HIDE DEF n
    <3> QED
      BY <1>1, <1>3, <3>1
  <2>2. PICK a \in Ages : \A b \in Ages : a <= b
    BY <2>1, LeastExists
  <2>3. PICK i \in Effective : a = n - i
    BY <2>2
  <2>4. \A j \in Effective : n - i <= n - j
    BY <2>2, <2>3
  <2>5. \A j \in Effective : j <= i
    BY <1>1, <2>4
  <2>6. ActiveAssignment \in Effective
    BY <1>3, <2>3, <2>5 DEF ActiveAssignment
  <2> QED
    BY <1>1, <2>6
<1> QED
  BY <1>2, <1>3

(* A quote is its order's, and its fee and rate belong together.            *)
Quotes == [gross : Nat, plan : Plans, assigned : BOOLEAN, rate : Int, fee : Int]

RightQuote(quote, order) ==
    /\ quote \in Quotes
    /\ quote.gross = Amount[order]
    /\ RightFee(quote.gross, quote.rate, quote.fee)
    /\ quote.fee < quote.gross

LEMMA DecisionsAreRight ==
    ASSUME PricingTypes, NEW o \in Orders, Chargeable(Amount[o])
    PROVE  RightQuote(Decision(Amount[o]), o)
<1> USE PricingAssumption, MerchantAssumption
<1>1. Amount[o] \in Nat
  OBVIOUS
<1>2. ActiveAssignment = 0 \/ ActiveAssignment \in DOMAIN assigned
  BY NewestCounts
<1>4. PricedBy \in Plans
  <2>1. ASSUME NEW i \in DOMAIN assigned PROVE assigned[i].plan \in Plans
    <3>1. assigned[i] \in Assignments
      BY DEF PricingTypes
    <3> QED
      BY <3>1 DEF Assignments
  <2> QED
    BY <1>2, <2>1 DEF PricedBy
<1>5. RateNow \in Int
  <2>1. plan[PricedBy].rate \in Int \cup {None}
    BY <1>4 DEF PricingTypes, Terms
  <2>2. ActiveAssignment = 0 => plan[PricedBy].rate # None
    BY DEF Chargeable, PricedBy
  <2> QED
    BY <2>1, <2>2 DEF RateNow
<1>6. FeeOf(Amount[o], RateNow) < Amount[o]
  BY DEF Chargeable
<1>7. RightFee(Amount[o], RateNow, FeeOf(Amount[o], RateNow))
  BY <1>1, <1>5, FeeIsRounded
<1>8. FeeOf(Amount[o], RateNow) \in Int
  BY <1>7 DEF RightFee
<1>10. Decision(Amount[o]) \in Quotes
  BY <1>1, <1>4, <1>5, <1>8 DEF Decision, Quotes
<1> QED
  BY <1>6, <1>7, <1>10 DEF Decision, RightQuote

(* Whatever the staff do to plans and assignments, they keep their types.   *)
LEMMA StaffKeepTypes ==
    ASSUME PricingTypes, Staff
    PROVE  PricingTypes'
<1> USE PricingAssumption DEF PricingTypes
<1> DEFINE n == Len(assigned)
<1>1. n \in Nat /\ DOMAIN assigned = 1 .. n
  OBVIOUS
<1>2. ASSUME NEW p \in Plans, StaffAssign(p) PROVE PricingTypes'
  <2>1. [plan |-> p, by |-> None, on |-> TRUE] \in Assignments
    BY DEF Assignments
  <2> QED
    BY <1>1, <1>2, <2>1 DEF StaffAssign, Assign
<1>3. ASSUME NEW i \in DOMAIN assigned, StaffSwitch(i) PROVE PricingTypes'
  <2>1. assigned[i] \in Assignments
    OBVIOUS
  <2>2. [assigned[i] EXCEPT !.on = ~assigned[i].on] \in Assignments
    BY <2>1 DEF Assignments
  <2>3. assigned' = [assigned EXCEPT ![i] = [assigned[i] EXCEPT !.on = ~assigned[i].on]]
    BY <1>3 DEF StaffSwitch
  <2> QED
    BY <1>1, <1>3, <2>2, <2>3 DEF StaffSwitch
<1>4. ASSUME NEW p \in Plans, NEW rate \in Rates, StaffReprice(p, rate)
      PROVE  PricingTypes'
  BY <1>4 DEF StaffReprice, Terms
<1>5. ASSUME NEW p \in Plans, StaffRetire(p) PROVE PricingTypes'
  BY <1>5 DEF StaffRetire, Terms
<1>6. ASSUME NEW i \in DOMAIN assigned, NEW p \in Plans, NEW k \in DOMAIN assigned,
             StaffEdit(i, p, k)
      PROVE  PricingTypes'
  BY <1>6, EditedAssignments
<1> QED
  BY <1>2, <1>3, <1>4, <1>5, <1>6 DEF Staff
-----------------------------------------------------------------------------
(* The merchant's requests and keys.                                       *)
KeyTypes ==
    /\ secrets \in Nat
    /\ key \in [ApiKeys -> [secret : Nat, on : BOOLEAN]]
    /\ \A k \in ApiKeys : key[k].secret <= secrets

RequestsFit ==
    /\ call = [c \in Calls |-> call[c]]
    /\ \A c \in Calls :
           call[c].at \in {"known", "barred", "admitted", "quoted"} =>
               call[c].order \in Orders
    /\ \A c \in Calls :
           call[c].at = "quoted" => RightQuote(call[c].quote, call[c].order)
SessionsFit ==
    /\ sessions \in Seq([order : Orders, quote : Quotes, charge : Quotes])
    /\ \A i \in DOMAIN sessions :
           /\ sessions[i].charge = sessions[i].quote
           /\ RightQuote(sessions[i].quote, sessions[i].order)
           /\ sessions[i].quote.fee >= 0

MerchantInv == PricingTypes /\ KeyTypes /\ RequestsFit /\ SessionsFit

(* A request goes on to a record that fits.                                 *)
LEMMA RequestGoesOn ==
    ASSUME RequestsFit, NEW c \in Calls, NEW next, Proceed(c, next),
           next.at \in {"known", "barred", "admitted", "quoted"} => next.order \in Orders,
           next.at = "quoted" => RightQuote(next.quote, next.order)
    PROVE  RequestsFit'
<1>1. /\ call'[c] = next /\ \A d \in Calls \ {c} : call'[d] = call[d]
      /\ call' = [d \in Calls |-> call'[d]]
  BY DEF RequestsFit, Proceed
<1> QED
  BY <1>1 DEF RequestsFit

LEMMA KeysKeep ==
    ASSUME MerchantInv, NEW k \in ApiKeys, IssueKey(k) \/ RotateKey(k) \/ RevokeKey(k)
    PROVE  KeyTypes'
<1>1. KeyTypes
  BY DEF MerchantInv
<1>2. ASSUME NewSecret(k) PROVE KeyTypes'
  <2>1. /\ secrets' = secrets + 1 /\ secrets' \in Nat
        /\ key' = [key EXCEPT ![k] = [secret |-> secrets + 1, on |-> TRUE]]
    BY <1>1, <1>2 DEF NewSecret, KeyTypes
  <2>2. key' \in [ApiKeys -> [secret : Nat, on : BOOLEAN]]
    BY <1>1, <2>1 DEF KeyTypes
  <2>3. ASSUME NEW o \in ApiKeys PROVE key'[o].secret <= secrets'
    BY <1>1, <2>1 DEF KeyTypes
  <2> QED
    BY <2>1, <2>2, <2>3 DEF KeyTypes
<1>3. ASSUME RevokeKey(k) PROVE KeyTypes'
  <2>1. [key[k] EXCEPT !.on = FALSE] \in [secret : Nat, on : BOOLEAN]
        /\ [key[k] EXCEPT !.on = FALSE].secret = key[k].secret
    BY <1>1 DEF KeyTypes
  <2>2. key' = [key EXCEPT ![k] = [key[k] EXCEPT !.on = FALSE]]
    BY <1>3 DEF RevokeKey
  <2> QED
    BY <1>1, <1>3, <2>1, <2>2 DEF RevokeKey, KeyTypes
<1> QED
  BY <1>2, <1>3 DEF IssueKey, RotateKey

LEMMA ServerKeeps ==
    ASSUME MerchantInv, MerchantServer, UNCHANGED pricingVars
    PROVE  MerchantInv'
<1>1. UNCHANGED <<plan, assigned, secrets, key>>
  BY DEF MerchantServer, Authenticate, Admit, StampedKey, LookUpPayer, QuoteFee,
     AliasFails, CreateSession, keyVars, pricingVars
<1>2. PricingTypes' /\ KeyTypes'
  BY <1>1 DEF MerchantInv, PricingTypes, KeyTypes
<1>3. PICK c \in Calls :
          \/ \E o \in Orders, k \in ApiKeys : Authenticate(c, o, k)
          \/ Admit(c) \/ LookUpPayer(c) \/ QuoteFee(c) \/ AliasFails(c)
          \/ \E heard \in BOOLEAN : CreateSession(c, heard)
  BY DEF MerchantServer
<1>4. ASSUME NEW o \in Orders, NEW k \in ApiKeys, Authenticate(c, o, k)
      PROVE  RequestsFit' /\ SessionsFit'
  BY <1>1, <1>4, RequestGoesOn
     DEF MerchantInv, SessionsFit, Authenticate
<1>5. ASSUME Admit(c) PROVE RequestsFit' /\ SessionsFit'
  BY <1>1, <1>5, RequestGoesOn
     DEF MerchantInv, SessionsFit, Admit, NoCall, RequestsFit
<1>6. ASSUME QuoteFee(c) PROVE RequestsFit' /\ SessionsFit'
  <2> DEFINE o == call[c].order
  <2>1. o \in Orders
    BY <1>6 DEF MerchantInv, SessionsFit, RequestsFit, QuoteFee
  <2>2. Chargeable(Amount[o]) => RightQuote(Decision(Amount[o]), o)
    BY <2>1, DecisionsAreRight DEF MerchantInv, SessionsFit
  <2> QED
    BY <1>1, <1>6, <2>1, <2>2, RequestGoesOn
       DEF MerchantInv, SessionsFit, QuoteFee, NoCall
<1>7. ASSUME AliasFails(c) \/ LookUpPayer(c) PROVE RequestsFit' /\ SessionsFit'
  BY <1>1, <1>7, RequestGoesOn
     DEF MerchantInv, SessionsFit, AliasFails, LookUpPayer, NoCall
<1>8. ASSUME NEW heard \in BOOLEAN, CreateSession(c, heard)
      PROVE  RequestsFit' /\ SessionsFit'
  <2>1. PICK q, o : q = call[c].quote /\ o = call[c].order
    OBVIOUS
  <2> DEFINE new == [order |-> o, quote |-> q, charge |-> q]
             n == Len(sessions)
  <2>2. o \in Orders /\ RightQuote(q, o)
    BY <1>8, <2>1 DEF MerchantInv, RequestsFit, CreateSession
  <2>3. q.fee >= 0
    BY <1>8, <2>1 DEF CreateSession, Balanced, FeeRow, EnsureFee
  <2>4. new \in [order : Orders, quote : Quotes, charge : Quotes]
    BY <2>2 DEF RightQuote
  <2>5. sessions' = Append(sessions, new)
    BY <1>8, <2>1 DEF CreateSession, EnsureFee
  <2>6. SessionsFit'
    <3>1. sessions \in Seq([order : Orders, quote : Quotes, charge : Quotes])
      BY DEF MerchantInv, SessionsFit
    <3>2. /\ sessions' \in Seq([order : Orders, quote : Quotes, charge : Quotes])
          /\ DOMAIN sessions' = 1 .. n + 1 /\ DOMAIN sessions = 1 .. n /\ n \in Nat
          /\ sessions'[n + 1] = new
          /\ \A i \in 1 .. n : sessions'[i] = sessions[i]
      BY <2>4, <2>5, <3>1
    <3>3. ASSUME NEW i \in DOMAIN sessions'
          PROVE  /\ sessions'[i].charge = sessions'[i].quote
                 /\ RightQuote(sessions'[i].quote, sessions'[i].order)
                 /\ sessions'[i].quote.fee >= 0
      <4>1. CASE i = n + 1
        BY <2>2, <2>3, <3>2, <4>1
      <4>2. CASE i # n + 1
        <5>1. i \in DOMAIN sessions /\ sessions'[i] = sessions[i]
          BY <3>2, <4>2
        <5> QED
          BY <5>1 DEF MerchantInv, SessionsFit
      <4> QED
        BY <4>1, <4>2
    <3> QED
      BY <3>2, <3>3 DEF SessionsFit
  <2>7. RequestsFit'
    BY <1>1, <1>8, RequestGoesOn DEF MerchantInv, CreateSession, NoCall
  <2> QED
    BY <2>6, <2>7
<1> QED
  BY <1>2, <1>3, <1>4, <1>5, <1>6, <1>7, <1>8 DEF MerchantInv

(* Requests, keys and prices fit, whatever is revoked, rotated, suspended,  *)
(* assigned, repriced or retired while requests are under way.             *)
(* (apps/developers/authentication.py:19, apps/billing/services.py:51)     *)
THEOREM MerchantInvariant == MerchantSpec => []MerchantInv
<1>1. PricingInit /\ MerchantInit => MerchantInv
  <2> SUFFICES ASSUME PricingInit, MerchantInit PROVE MerchantInv
    OBVIOUS
  <2>1. PricingTypes /\ KeyTypes
    BY PricingAssumption DEF PricingInit, MerchantInit, PricingTypes, KeyTypes
  <2>2. RequestsFit /\ SessionsFit
    BY DEF MerchantInit, RequestsFit, SessionsFit, NoCall
  <2> QED
    BY <2>1, <2>2 DEF MerchantInv
<1>2. MerchantInv /\ [MerchantsAndStaff]_<<pricingVars, merchantVars>> => MerchantInv'
  <2> SUFFICES ASSUME MerchantInv, [MerchantsAndStaff]_<<pricingVars, merchantVars>>
               PROVE  MerchantInv'
    OBVIOUS
  <2>1. CASE Owner /\ UNCHANGED pricingVars
    <3>1. UNCHANGED <<plan, assigned, call, sessions>>
      BY <2>1 DEF Owner, IssueKey, RotateKey, NewSecret, RevokeKey, pricingVars
    <3> QED
      BY <2>1, <3>1, KeysKeep
         DEF MerchantInv, Owner, PricingTypes, RequestsFit, SessionsFit
  <2>2. CASE MerchantServer /\ UNCHANGED pricingVars
    BY <2>2, ServerKeeps
  <2>3. CASE /\ StaffSuspends \/ UNCHANGED merchantVars
             /\ UNCHANGED pricingVars
    <3>1. UNCHANGED <<plan, assigned, secrets, key, call, sessions>>
      BY <2>3 DEF StaffSuspends, pricingVars, merchantVars
    <3> QED
      BY <3>1 DEF MerchantInv, PricingTypes, KeyTypes, RequestsFit, SessionsFit
  <2>4. CASE Staff /\ UNCHANGED merchantVars
    BY <2>4, StaffKeepTypes
       DEF MerchantInv, merchantVars, KeyTypes, RequestsFit, SessionsFit
  <2> QED
    BY <2>1, <2>2, <2>3, <2>4 DEF MerchantsAndStaff, MerchantNext
<1> QED
  BY <1>1, <1>2, PTL DEF MerchantSpec

(* Every session carries the fee that was quoted, its rate's share to the    *)
(* nearest cent, for any amounts, any rates, negative ones included, and any *)
(* edits of plans and assignments; only a negative rate can make a fee row   *)
(* that the database refuses.  (apps/billing/services.py:85)                *)
THEOREM ChargesAreRight == MerchantSpec => []FeesAreRight
<1>1. ASSUME MerchantInv PROVE FeesAreRight
  <2>1. ASSUME NEW c \in Calls, call[c].at = "quoted", call[c].quote.rate >= 0
        PROVE  Balanced(FeeRow(EnsureFee(call[c].quote)))
    <3>1. PICK q, o : q = call[c].quote /\ o = call[c].order
      OBVIOUS
    <3>2. o \in Orders /\ RightQuote(q, o)
      BY <1>1, <2>1, <3>1 DEF MerchantInv, RequestsFit
    <3>3. q.gross \in Nat \ {0} /\ q.fee \in Int /\ q.fee >= 0 /\ q.fee < q.gross
      BY <2>1, <3>1, <3>2, MerchantAssumption DEF RightQuote, RightFee, Quotes
    <3> QED
      BY <3>1, <3>3 DEF Balanced, FeeRow, EnsureFee
  <2>2. ASSUME NEW i \in DOMAIN sessions
        PROVE  LET q == sessions[i].quote
                   exact == q.gross * q.rate
               IN  /\ sessions[i].charge = q
                   /\ q.gross = Amount[sessions[i].order]
                   /\ 2 * (q.fee * Whole - exact) <= Whole
                   /\ 2 * (exact - q.fee * Whole) < Whole
                   /\ 0 <= q.fee /\ q.fee < q.gross
    <3>1. PICK q : q = sessions[i].quote
      OBVIOUS
    <3>2. /\ sessions[i].charge = q /\ RightQuote(q, sessions[i].order)
          /\ q.fee >= 0
      BY <1>1, <2>2, <3>1 DEF MerchantInv, SessionsFit
    <3>3. q.gross \in Nat /\ q.rate \in Int /\ q.fee \in Int
      BY <3>2 DEF RightQuote, Quotes
    <3>4. PICK exact : exact = q.gross * q.rate
      OBVIOUS
    <3>5. exact \in Int
      BY <3>3, <3>4
    <3>6. CASE q.rate >= 0
      BY <3>1, <3>2, <3>3, <3>4, <3>6 DEF RightQuote, RightFee
    <3>7. CASE q.rate < 0
      <4>1. /\ q.fee <= 0 /\ exact <= 0
            /\ 2 * (q.fee * Whole - exact) <= Whole
        BY <3>2, <3>4, <3>7 DEF RightQuote, RightFee
      <4>2. q.fee = 0
        BY <3>2, <3>3, <4>1
      <4>3. 2 * (exact - q.fee * Whole) < Whole
        BY <3>5, <4>1, <4>2 DEF Whole
      <4> QED
        BY <3>1, <3>2, <3>4, <4>1, <4>2, <4>3 DEF RightQuote
    <3> QED
      BY <3>3, <3>6, <3>7
  <2> QED
    BY <2>1, <2>2 DEF FeesAreRight
<1> QED
  BY <1>1, MerchantInvariant, PTL

(* A revoked or replaced secret stays dead, though requests let in with it  *)
(* still note when the key was used.  (apps/developers/authentication.py:40) *)
THEOREM SecretsStayDead == MerchantSpec => DeadSecretsStayDead
<1> DEFINE Dead == \A k \in ApiKeys :
           /\ key'[k].secret >= key[k].secret
           /\ key'[k].on /\ ~key[k].on => key'[k].secret > key[k].secret
<1>1. MerchantInv /\ [MerchantsAndStaff]_<<pricingVars, merchantVars>>
          => [Dead]_merchantVars
  <2> SUFFICES ASSUME MerchantInv, MerchantNext PROVE Dead
    BY DEF MerchantsAndStaff
  <2>1. KeyTypes
    BY DEF MerchantInv
  <2>2. ASSUME NEW k \in ApiKeys, NewSecret(k) PROVE Dead
    BY <2>1, <2>2 DEF NewSecret, KeyTypes
  <2>3. ASSUME NEW k \in ApiKeys, RevokeKey(k) PROVE Dead
    <3>1. \A o \in ApiKeys : /\ key'[o].secret = key[o].secret
                             /\ key'[o].on => key[o].on
      BY <2>1, <2>3 DEF RevokeKey, KeyTypes
    <3> QED
      BY <2>1, <3>1 DEF KeyTypes
  <2>4. CASE UNCHANGED key
    BY <2>1, <2>4 DEF KeyTypes
  <2> QED
    BY <2>2, <2>3, <2>4 DEF MerchantNext, Owner, IssueKey, RotateKey,
       MerchantServer, Authenticate, Admit, StampedKey, LookUpPayer, QuoteFee,
       AliasFails, CreateSession, StaffSuspends, keyVars
<1>2. DeadSecretsStayDead <=> [][Dead]_merchantVars
  BY DEF DeadSecretsStayDead
<1> HIDE DEF Dead
<1> QED
  BY <1>1, <1>2, MerchantInvariant, PTL DEF MerchantSpec

-----------------------------------------------------------------------------
(* Applications and reviews.                                               *)

BrowserStates ==
    [at : {"blank"}] \cup [at : {"checked"}, email : Emails]
      \cup [at : {"received"}, id : Nat]

DecidingStates ==
    [at : {"idle"}]
      \cup [at : {"saving"}, id : Nat, new : Statuses, previous : Statuses]

OnboardingTypeOK ==
    /\ browser \in [Browsers -> BrowserStates]
    /\ accounts \in Seq([email : Emails, status : Statuses])
    /\ deciding \in [Deciders -> DecidingStates]
    /\ history \in Seq([id : Nat, from : Statuses, to : Statuses])

(* What a review has read is accounted for when it saves.                  *)
ReadsAreOnRecord ==
    \A s \in Deciders : deciding[s].at = "saving" =>
        /\ deciding[s].id \in Ids
        /\ OnRecord(deciding[s].id, deciding[s].previous, Len(history))

OnboardingInv ==
    OnboardingTypeOK /\ OneAccountEach /\ ReadsAreOnRecord /\ DecisionsAreOnRecord

(* A row that is added is the last.                                        *)
LEMMA Appended ==
    ASSUME NEW S, NEW seq \in Seq(S), NEW x \in S
    PROVE  /\ Append(seq, x) \in Seq(S)
           /\ Len(Append(seq, x)) = Len(seq) + 1
           /\ DOMAIN Append(seq, x) = 1 .. Len(seq) + 1
           /\ Append(seq, x)[Len(seq) + 1] = x
           /\ \A i \in 1 .. Len(seq) : Append(seq, x)[i] = seq[i]
  BY AppendProperties

(* The history grows by one row at most.                                   *)
LEMMA ReviewRowIsOne ==
    ASSUME OnboardingTypeOK, NEW r \in DecidingStates, r.at = "saving"
    PROVE  \/ r.previous = r.new /\ history \o ReviewRow(r) = history
           \/ /\ r.previous # r.new
              /\ history \o ReviewRow(r)
                   = Append(history, [id |-> r.id, from |-> r.previous, to |-> r.new])
              /\ [id |-> r.id, from |-> r.previous, to |-> r.new]
                   \in [id : Nat, from : Statuses, to : Statuses]
  BY DEF ReviewRow, DecidingStates, OnboardingTypeOK

(* What is on record in the rows h.                                        *)
Told(h, i, st, n) ==
    st = "submitted" \/ \E k \in 1 .. n : h[k].id = i /\ h[k].to = st

LEMMA RecordsRest ==
    ASSUME DecisionsAreOnRecord, UNCHANGED <<accounts, history>>
    PROVE  DecisionsAreOnRecord'
  BY DEF DecisionsAreOnRecord, OnRecord, Ids

LEMMA ReadsRest ==
    ASSUME ReadsAreOnRecord, UNCHANGED <<accounts, history>>,
           \A s \in Deciders : deciding'[s].at = "saving" => deciding'[s] = deciding[s]
    PROVE  ReadsAreOnRecord'
  BY DEF ReadsAreOnRecord, OnRecord, Ids

LEMMA ApplicantsKeep ==
    ASSUME OnboardingAssumption, OnboardingInv, Applicants
    PROVE  OnboardingInv'
PROOF
  <1> USE DEF OnboardingInv
  <1>1. accounts \in Seq([email : Emails, status : Statuses]) /\ Ids = 1 .. Len(accounts)
    BY DEF OnboardingTypeOK, Ids
  <1>2. ASSUME NEW b \in Browsers, NEW e \in Emails, FormIsValid(b, e)
        PROVE  OnboardingInv'
    <2>1. OnboardingTypeOK'
      BY <1>2 DEF FormIsValid, OnboardingTypeOK, BrowserStates
    <2>2. OneAccountEach'
      BY <1>2 DEF FormIsValid, OnboardingTypeOK, OneAccountEach, Ids
    <2> QED  BY <1>2, <2>1, <2>2, RecordsRest, ReadsRest DEF FormIsValid
  <1>3. ASSUME NEW b \in Browsers, Apply(b)
        PROVE  OnboardingInv'
    <2> DEFINE added == [email |-> browser[b].email, status |-> "submitted"]
    <2>1. browser[b].email \in Emails /\ added \in [email : Emails, status : Statuses]
      BY <1>3 DEF Apply, OnboardingTypeOK, BrowserStates, OnboardingAssumption
    <2>2. /\ accounts' = Append(accounts, added)
          /\ accounts' \in Seq([email : Emails, status : Statuses])
          /\ Ids' = 1 .. Len(accounts) + 1
          /\ accounts'[Len(accounts) + 1] = added
          /\ \A i \in Ids : accounts'[i] = accounts[i]
          /\ Len(accounts) \in Nat
      BY <1>1, <1>3, <2>1, Appended DEF Apply, Ids
    <2>3. OnboardingTypeOK'
      BY <1>3, <2>2 DEF Apply, OnboardingTypeOK, BrowserStates
    <2>4. \A i \in Ids : accounts[i].email # added.email
      BY <1>3 DEF Apply, NameIsFree, HasAccount
    <2>5. OneAccountEach'
      <3>1. \A i, j \in Ids' : accounts'[i].email = accounts'[j].email => i = j
        BY <1>1, <2>2, <2>4 DEF OneAccountEach
      <3>2. ASSUME NEW c \in Browsers, browser'[c].at = "received"
            PROVE  /\ browser'[c].id \in Ids'
                   /\ c # b => browser'[c] = browser[c] /\ browser[c].id \in Ids
                   /\ c = b => browser'[c].id = Len(accounts) + 1
        BY <1>1, <1>3, <2>2, <3>2 DEF Apply, OnboardingTypeOK, OneAccountEach
      <3>3. ASSUME NEW c \in Browsers, browser'[c].at = "received",
                   NEW d \in Browsers \ {c}, browser'[d].at = "received"
            PROVE  browser'[d].id # browser'[c].id
        BY <1>1, <2>2, <3>2, <3>3 DEF OneAccountEach
      <3> QED  BY <3>1, <3>2, <3>3 DEF OneAccountEach
    <2>6. ReadsAreOnRecord' /\ DecisionsAreOnRecord'
      BY <1>1, <1>3, <2>2 DEF Apply, ReadsAreOnRecord, DecisionsAreOnRecord, OnRecord
    <2> QED  BY <2>3, <2>5, <2>6
  <1>4. ASSUME NEW b \in Browsers, ApplicationFails(b) \/ ShowReference(b)
        PROVE  OnboardingInv'
    <2>0. browser' = [browser EXCEPT ![b] = NoPage] /\ UNCHANGED <<accounts, deciding, history>>
      BY <1>4 DEF ApplicationFails, ShowReference
    <2>1. OnboardingTypeOK'
      BY <2>0 DEF NoPage, OnboardingTypeOK, BrowserStates
    <2>2. OneAccountEach'
      BY <2>0 DEF NoPage, OnboardingTypeOK, OneAccountEach, Ids
    <2> QED  BY <2>0, <2>1, <2>2, RecordsRest, ReadsRest
  <1> QED  BY <1>2, <1>3, <1>4 DEF Applicants

LEMMA ReviewKeeps ==
    ASSUME OnboardingInv, Review
    PROVE  OnboardingInv'
PROOF
  <1> USE DEF OnboardingInv
  <1>1. accounts \in Seq([email : Emails, status : Statuses]) /\ Ids = 1 .. Len(accounts)
    BY DEF OnboardingTypeOK, Ids
  <1>2. ASSUME NEW s \in Deciders, NEW i \in Ids, NEW new \in Statuses,
               ReadsPrevious(s, i, new)
        PROVE  OnboardingInv'
    <2>1. i \in Nat /\ accounts[i].status \in Statuses
      <3>1. i \in 1 .. Len(accounts) /\ Len(accounts) \in Nat
        BY <1>1
      <3>2. accounts[i] \in [email : Emails, status : Statuses]
        BY <1>1, <3>1, ElementOfSeq
      <3> QED  BY <3>1, <3>2
    <2>2. OnboardingTypeOK'
      BY <1>2, <2>1 DEF ReadsPrevious, OnboardingTypeOK, DecidingStates
    <2>3. OneAccountEach'
      BY <1>2 DEF ReadsPrevious, OneAccountEach, Ids
    <2>4. OnRecord(i, accounts[i].status, Len(history))
      BY DEF DecisionsAreOnRecord
    <2>5. ReadsAreOnRecord'
      BY <1>2, <2>4 DEF ReadsPrevious, OnboardingTypeOK, ReadsAreOnRecord, OnRecord, Ids
    <2> QED  BY <1>2, <2>2, <2>3, <2>5, RecordsRest DEF ReadsPrevious
  <1>3. ASSUME NEW s \in Deciders, SavesReview(s)
        PROVE  OnboardingInv'
    <2> DEFINE r == deciding[s]
               added == [id |-> r.id, from |-> r.previous, to |-> r.new]
    <2>1. /\ r \in DecidingStates /\ r.at = "saving" /\ r.id \in Ids
          /\ r.new \in Statuses /\ OnRecord(r.id, r.previous, Len(history))
      BY <1>3 DEF SavesReview, OnboardingTypeOK, DecidingStates, ReadsAreOnRecord
    <2>2. /\ accounts' = [accounts EXCEPT ![r.id].status = r.new]
          /\ accounts' \in Seq([email : Emails, status : Statuses])
          /\ Ids' = Ids
          /\ \A i \in Ids : accounts'[i].email = accounts[i].email
          /\ \A i \in Ids : accounts'[i].status = IF i = r.id THEN r.new ELSE accounts[i].status
      <3> HIDE DEF r
      <3>1. accounts' = [accounts EXCEPT ![r.id].status = r.new]
        BY <1>3 DEF SavesReview, r
      <3>2. r.id \in 1 .. Len(accounts) /\ accounts[r.id] \in [email : Emails, status : Statuses]
        BY <1>1, <2>1, ElementOfSeq
      <3>3. accounts' = [accounts EXCEPT ![r.id] = [accounts[r.id] EXCEPT !.status = r.new]]
        BY <3>1
      <3>4. [accounts[r.id] EXCEPT !.status = r.new] \in [email : Emails, status : Statuses]
        BY <2>1, <3>2
      <3>5. /\ accounts' \in Seq([email : Emails, status : Statuses])
            /\ Len(accounts') = Len(accounts)
            /\ \A j \in 1 .. Len(accounts) :
                   accounts'[j] = IF j = r.id THEN [accounts[r.id] EXCEPT !.status = r.new]
                                  ELSE accounts[j]
        BY <1>1, <3>2, <3>3, <3>4, ExceptSeq
      <3> QED  BY <1>1, <3>1, <3>2, <3>5 DEF Ids
    <2>3. /\ history' \in Seq([id : Nat, from : Statuses, to : Statuses])
          /\ Len(history') \in Nat /\ Len(history') >= Len(history)
          /\ \A k \in 1 .. Len(history) : history'[k] = history[k]
          /\ \A k \in 1 .. Len(history') \ 1 .. Len(history) :
                 k = Len(history) + 1 /\ history'[k] = added
          /\ r.previous # r.new =>
                 /\ Len(history') = Len(history) + 1
                 /\ history'[Len(history) + 1] = added
      <3>1. history' = history \o ReviewRow(r)
        BY <1>3 DEF SavesReview
      <3>2. history \in Seq([id : Nat, from : Statuses, to : Statuses])
        BY DEF OnboardingTypeOK
      <3> HIDE DEF r
      <3>3. CASE history' = history /\ r.previous = r.new
        BY <3>2, <3>3
      <3>4. CASE /\ r.previous # r.new /\ history' = Append(history, added)
                 /\ added \in [id : Nat, from : Statuses, to : Statuses]
        BY <3>2, <3>4, Appended
      <3> QED  BY <2>1, <3>1, <3>3, <3>4, ReviewRowIsOne
    <2>4. /\ deciding' \in [Deciders -> DecidingStates]
          /\ \A t \in Deciders : deciding'[t].at = "saving" => deciding'[t] = deciding[t]
      BY <1>3 DEF SavesReview, OnboardingTypeOK, NoReview, DecidingStates
    <2>5. /\ Len(history) \in Nat
          /\ \A i, st, n : OnRecord(i, st, n) <=> Told(history, i, st, n)
      BY DEF OnboardingTypeOK, OnRecord, Told
    <2>6. /\ \A i, st : \A n \in 0 .. Len(history) :
                 Told(history, i, st, n) =>
                     Told(history', i, st, n) /\ Told(history', i, st, Len(history'))
          /\ Told(history', r.id, r.new, Len(history'))
      <3> HIDE DEF r
      <3>1. ASSUME NEW i, NEW st, NEW n \in 0 .. Len(history), Told(history, i, st, n)
            PROVE  Told(history', i, st, n) /\ Told(history', i, st, Len(history'))
        <4>1. CASE st = "submitted"
          BY <4>1 DEF Told
        <4>2. CASE st # "submitted"
          <5>1. PICK k \in 1 .. n : history[k].id = i /\ history[k].to = st
            BY <3>1, <4>2 DEF Told
          <5>2. /\ k \in 1 .. Len(history) /\ history'[k] = history[k]
                /\ k \in 1 .. Len(history')
            BY <2>3, <2>5, <5>1
          <5> QED  BY <5>1, <5>2 DEF Told
        <4> QED  BY <4>1, <4>2
      <3>2. Told(history, r.id, r.previous, Len(history))
        BY <2>1, <2>5
      <3>3. CASE r.previous = r.new
        BY <2>5, <3>1, <3>2, <3>3
      <3>4. CASE r.previous # r.new
        BY <2>3, <2>5, <3>4 DEF Told
      <3> QED  BY <3>1, <3>3, <3>4
    <2>7. OneAccountEach'
      BY <1>3, <2>2 DEF SavesReview, OneAccountEach
    <2>8. ReadsAreOnRecord'
      <3>1. ASSUME NEW t \in Deciders, deciding'[t].at = "saving"
            PROVE  /\ deciding'[t].id \in Ids'
                   /\ Told(history', deciding'[t].id, deciding'[t].previous, Len(history'))
        BY <2>2, <2>4, <2>5, <2>6, <3>1 DEF ReadsAreOnRecord
      <3> QED  BY <3>1 DEF ReadsAreOnRecord, OnRecord, Told
    <2>9. DecisionsAreOnRecord'
      <3>1. ASSUME NEW i \in Ids'
            PROVE  Told(history', i, accounts'[i].status, Len(history'))
        BY <2>2, <2>5, <2>6 DEF DecisionsAreOnRecord
      <3>2. ASSUME NEW k \in DOMAIN history'
            PROVE  Told(history', history'[k].id, history'[k].from, k - 1)
        <4>1. k \in 1 .. Len(history')
          BY <2>3
        <4>2. CASE k \in 1 .. Len(history)
          <5>1. k \in DOMAIN history /\ history'[k] = history[k] /\ k - 1 \in 0 .. Len(history)
            BY <2>3, <2>5, <4>2 DEF OnboardingTypeOK
          <5>2. Told(history, history[k].id, history[k].from, k - 1)
            BY <2>5, <5>1 DEF DecisionsAreOnRecord
          <5> QED  BY <2>6, <5>1, <5>2
        <4>3. CASE k \notin 1 .. Len(history)
          <5>1. k = Len(history) + 1 /\ history'[k] = added
            BY <2>3, <4>1, <4>3
          <5>2. Told(history', r.id, r.previous, Len(history))
            BY <2>1, <2>5, <2>6
          <5> HIDE DEF r
          <5> QED  BY <2>5, <5>1, <5>2
        <4> QED  BY <4>2, <4>3
      <3> QED  BY <3>1, <3>2 DEF DecisionsAreOnRecord, OnRecord, Told
    <2> QED  BY <1>3, <2>2, <2>3, <2>4, <2>7, <2>8, <2>9
             DEF SavesReview, OnboardingTypeOK
  <1>4. ASSUME NEW s \in Deciders, ReviewFails(s)
        PROVE  OnboardingInv'
    <2>1. OnboardingTypeOK'
      BY <1>4 DEF ReviewFails, NoReview, OnboardingTypeOK, DecidingStates
    <2>2. OneAccountEach'
      BY <1>4 DEF ReviewFails, OneAccountEach, Ids
    <2>3. \A t \in Deciders : deciding'[t].at = "saving" => deciding'[t] = deciding[t]
      BY <1>4 DEF ReviewFails, NoReview, OnboardingTypeOK
    <2> QED  BY <1>4, <2>1, <2>2, <2>3, RecordsRest, ReadsRest DEF ReviewFails
  <1> QED  BY <1>2, <1>3, <1>4 DEF Review

THEOREM OnboardingInvariant == OnboardingSpec => []OnboardingInv
PROOF
  <1>1. OnboardingInit => OnboardingInv
    BY DEF OnboardingInit, OnboardingInv, OnboardingTypeOK, BrowserStates,
           DecidingStates, NoPage, NoReview, OneAccountEach, Ids,
           ReadsAreOnRecord, DecisionsAreOnRecord
  <1>2. OnboardingInv /\ [OnboardingNext]_onboardingVars => OnboardingInv'
    <2> SUFFICES ASSUME OnboardingInv, [OnboardingNext]_onboardingVars
                 PROVE  OnboardingInv'
      OBVIOUS
    <2>1. CASE OnboardingNext
      BY <2>1, ApplicantsKeep, ReviewKeeps, OnboardingAssumption DEF OnboardingNext
    <2>2. CASE UNCHANGED onboardingVars
      BY <2>2 DEF onboardingVars, OnboardingInv, OnboardingTypeOK, OneAccountEach,
                  Ids, ReadsAreOnRecord, DecisionsAreOnRecord, OnRecord
    <2> QED  BY <2>1, <2>2
  <1> QED  BY <1>1, <1>2, PTL DEF OnboardingSpec

(* At every moment an address has one account, and what a browser is to be   *)
(* shown is its own (apps/portal/views.py:857).                            *)
THEOREM AnAddressHasOneAccount == OnboardingSpec => []OneAccountEach
PROOF
  <1>1. OnboardingInv => OneAccountEach
    BY DEF OnboardingInv
  <1> QED  BY <1>1, OnboardingInvariant, PTL

(* Every status that is not the first was decided on, on record             *)
(* (apps/merchants/admin.py:66).                                           *)
THEOREM DecisionsHaveRows == OnboardingSpec => []DecisionsAreOnRecord
PROOF
  <1>1. OnboardingInv => DecisionsAreOnRecord
    BY DEF OnboardingInv
  <1> QED  BY <1>1, OnboardingInvariant, PTL

-----------------------------------------------------------------------------
(* What is on file.                                                        *)

Rows == [file : [ProfileFields -> Entries], active : BOOLEAN]

Pages ==
    [of : {"nothing"}] \cup [of : {"merchant"}, row : Rows]
      \cup [of : {"account"}, row : [verified : BOOLEAN, primary : BOOLEAN,
                                     open : BOOLEAN, home : BOOLEAN]]

FileTypeOK ==
    /\ profile \in Rows
    /\ editing \in [Officers -> Pages]
    /\ account \in [verified : BOOLEAN, primary : BOOLEAN,
                     open : BOOLEAN, home : BOOLEAN]
    /\ completing \in [OwnerRequests -> {Unread} \cup [at : {"read"}, row : Rows]]

LEMMA OwnerKeepsTypes ==
    ASSUME FileAssumption, FileTypeOK, FileOwner
    PROVE  FileTypeOK'
PROOF
  <1>1. ASSUME NEW o \in OwnerRequests, OwnerReads(o) \/ OwnerFails(o)
        PROVE  FileTypeOK'
    BY <1>1 DEF OwnerReads, OwnerFails, FileTypeOK
  <1>2. ASSUME NEW o \in OwnerRequests, NEW entries \in [Completable -> Entries],
               OwnerCompletes(o, entries)
        PROVE  FileTypeOK'
    <2>1. profile' \in Rows
      BY <1>2 DEF OwnerCompletes, LockedRow, Offered, Rows, FileTypeOK
    <2> QED  BY <1>2, <2>1 DEF OwnerCompletes, FileTypeOK
  <1> QED  BY <1>1, <1>2 DEF FileOwner

LEMMA OfficeKeepsTypes ==
    ASSUME FileTypeOK, Office
    PROVE  FileTypeOK' /\ completing' = completing
PROOF
  <1>1. ASSUME NEW s \in Officers,
               \/ Opens(s, [of |-> "merchant", row |-> profile])
               \/ Opens(s, [of |-> "account", row |-> account])
               \/ GivesUp(s)
        PROVE  FileTypeOK' /\ completing' = completing
    BY <1>1 DEF Opens, GivesUp, Closes, Closed, FileTypeOK, Pages
  <1>2. ASSUME NEW s \in Officers, SavesMerchant(s)
        PROVE  FileTypeOK' /\ completing' = completing
    <2>1. editing[s].row \in Rows
      BY <1>2 DEF SavesMerchant, FileTypeOK, Pages
    <2>2. profile' \in Rows
      BY <1>2, <2>1 DEF SavesMerchant, Rows
    <2> QED  BY <1>2, <2>2 DEF SavesMerchant, Closes, Closed, FileTypeOK, Pages
  <1>3. ASSUME NEW s \in Officers,
               \/ SavesAccount(s)
               \/ \E answer \in AliasAnswers : VerifiesAlias(s, answer)
        PROVE  FileTypeOK' /\ completing' = completing
    <2> DEFINE A == [verified : BOOLEAN, primary : BOOLEAN, open : BOOLEAN, home : BOOLEAN]
    <2>1. editing[s].row \in A
      BY <1>3 DEF SavesAccount, VerifiesAlias, FileTypeOK, Pages
    <2>2. account' \in A
      BY <1>3, <2>1 DEF SavesAccount, VerifiesAlias, CheckedRow, AliasAnswers
    <2> QED  BY <1>3, <2>2 DEF SavesAccount, VerifiesAlias, Closes, Closed, FileTypeOK, Pages
  <1>4. ASSUME \/ \E source, approved \in BOOLEAN : DecidesKyb(source, approved)
               \/ \E state \in {"none", "submitted", "verified"} : DecidesDocument(state)
        PROVE  FileTypeOK' /\ completing' = completing
    BY <1>4 DEF DecidesKyb, DecidesDocument, FileTypeOK
  <1> QED  BY <1>1, <1>2, <1>3, <1>4 DEF Office

THEOREM FileTypes == FileSpec => []FileTypeOK
PROOF
  <1>1. FileInit => FileTypeOK
    <2> SUFFICES ASSUME FileInit PROVE FileTypeOK
      OBVIOUS
    <2>1. profile \in Rows
      BY DEF FileInit, Rows
    <2> QED  BY <2>1 DEF FileInit, FileTypeOK, Pages, Closed
  <1>2. FileTypeOK /\ [FileNext]_fileVars => FileTypeOK'
    <2>1. CASE UNCHANGED fileVars
      BY <2>1 DEF fileVars, FileTypeOK
    <2> QED  BY <2>1, OwnerKeepsTypes, OfficeKeepsTypes, FileAssumption DEF FileNext
  <1> QED  BY <1>1, <1>2, PTL DEF FileSpec

(* A check goes by what is on file, and looks at no field that is filled.   *)
LEMMA FilledIsKept ==
    ASSUME profile'.active = profile.active, UNCHANGED <<kyb, document, account>>,
           FileAssumption,
           \A f \in ProfileFields :
               profile.file[f] # Blank => profile'.file[f] = profile.file[f]
    PROVE  Checks \subseteq Checks'
PROOF
  <1>1. ASSUME NEW fields \in SUBSET ProfileFields, OnFile(fields)
        PROVE  OnFile(fields)'
    BY <1>1 DEF OnFile
  <1>2. (OnFile(Identity) => OnFile(Identity)') /\ (OnFile(Contact) => OnFile(Contact)')
    BY <1>1 DEF FileAssumption
  <1>3. ASSUME NEW c \in CheckNames, Passes(c)
        PROVE  Passes(c)'
    BY <1>2, <1>3 DEF Passes, CheckNames
  <1> QED  BY <1>3 DEF Checks, CheckNames

(* Whatever the staff do meanwhile, the owner replaces nothing              *)
(* (apps/portal/views.py:684).                                             *)
THEOREM TheOwnerOnlyCompletes == FileSpec => OwnersOnlyComplete
PROOF
  <1>1. ASSUME FileTypeOK, [FileNext]_fileVars, completing' # completing
        PROVE  /\ profile'.active = profile.active
               /\ \A f \in ProfileFields :
                      profile'.file[f] # profile.file[f] =>
                          profile.file[f] = Blank /\ f \in completed'
               /\ Checks \subseteq Checks'
    <2>1. FileOwner
      BY <1>1, OfficeKeepsTypes DEF FileNext, fileVars
    <2>2. CASE UNCHANGED <<profile, kyb, document, account>>
      BY <2>2, FilledIsKept, FileAssumption
    <2>3. ASSUME NEW o \in OwnerRequests, NEW entries \in [Completable -> Entries],
                 OwnerCompletes(o, entries)
          PROVE  /\ profile'.active = profile.active
                 /\ \A f \in ProfileFields :
                        profile'.file[f] # profile.file[f] =>
                            profile.file[f] = Blank /\ f \in completed'
                 /\ UNCHANGED <<kyb, document, account>>
      BY <1>1, <2>3 DEF OwnerCompletes, LockedRow, Offered, FileTypeOK, Rows
    <2>4. CASE \E o \in OwnerRequests, entries \in [Completable -> Entries] :
                  OwnerCompletes(o, entries)
      BY <2>3, <2>4, FilledIsKept, FileAssumption
    <2> QED  BY <2>1, <2>2, <2>4 DEF FileOwner, OwnerReads, OwnerFails
  <1> QED  BY <1>1, FileTypes, PTL DEF FileSpec, OwnersOnlyComplete
=============================================================================
