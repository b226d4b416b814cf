---------------------------- MODULE ThreadProofs -----------------------------
(* What the threads of a server process promise about the objects and cache *)
(* entries they share, and the sync commands about the rows they copy: for   *)
(* any threads, limits, windows, lives of a token and margins.              *)
EXTENDS GatewayToken, CircuitBreaker, RateLimiter, FiduciarySync, TLAPS

(* The stages a thread is in while it holds the lock.                      *)
Locked == {"login", "store", "stamp"}

Stages == Locked \cup {"idle", "forget", "look", "wait", "take", "send"}

TokenTypes ==
    /\ clock \in Nat /\ issued \in Seq(Nat)
    /\ token \in 0 .. Len(issued)
    /\ expiresAt \in Nat
    /\ user \in [Users -> [at : Stages, try : {"first", "second", "test"}, holds : Nat]]

(* One thread at most logs in, up to the last assignment.                   *)
OneLogsIn == \A u \in Users : user[u].at \in Locked => holder = {u}

(* Later logins have later deadlines, and the newest is no further away     *)
(* than a token's life.                                                    *)
DeadlinesGrow ==
    /\ \A i, j \in 1 .. Len(issued) : i <= j => issued[i] <= issued[j]
    /\ \A i \in 1 .. Len(issued) : issued[i] <= clock + TokenLife

(* What is stored: the expiry is never later than the deadline of the token  *)
(* that is stored, and never later than the newest token's, as long as the   *)
(* tokens up to that one were stated with their zone.                       *)
ExpiryLags ==
    /\ token # 0 /\ 1 .. token \subseteq zoned => expiresAt <= issued[token]
    /\ expiresAt # 0 => Len(issued) > 0
    /\ expiresAt # 0 /\ 1 .. Len(issued) \subseteq zoned =>
           expiresAt <= issued[Len(issued)]

(* A thread between login and the last assignment has the newest token in   *)
(* hand; once it is stored, others can only drop it.                       *)
NewestInHand ==
    \A u \in Users :
        /\ user[u].at \in {"store", "stamp"} =>
               user[u].holds = Len(issued) /\ Len(issued) > 0
        /\ user[u].at = "stamp" => token \in {0, Len(issued)}

TokenInv ==
    /\ TokenTypes
    /\ OneLogsIn
    /\ DeadlinesGrow
    /\ ExpiryLags
    /\ NewestInHand

LEMMA TokenInitially == TokenInit => TokenInv
<1> SUFFICES ASSUME TokenInit PROVE TokenInv
  OBVIOUS
<1> USE DEF TokenInit
<1>1. issued \in Seq(Nat) /\ Len(issued) = 0
  OBVIOUS
<1>2. \A u \in Users : user[u] = NoUse /\ NoUse.at = "idle"
  BY DEF NoUse
<1>3. TokenTypes
  BY <1>1 DEF TokenTypes, NoUse, Stages
<1>4. OneLogsIn /\ NewestInHand
  BY <1>2 DEF OneLogsIn, NewestInHand, Locked
<1>5. DeadlinesGrow /\ ExpiryLags
  BY <1>1 DEF DeadlinesGrow, ExpiryLags
<1> QED
  BY <1>3, <1>4, <1>5 DEF TokenInv

-----------------------------------------------------------------------------
(* Steps that leave the login alone: rail and deadlines unchanged, at most   *)
(* the token or its expiry dropped, the thread not inside the lock after.   *)
LEMMA QuietStepKeeps ==
    ASSUME TokenInv, NEW u \in Users,
           UNCHANGED railSide,
           token' \in {token, 0}, expiresAt' \in {expiresAt, 0},
           holder' \in {holder, holder \ {u}},
           NEW e \in [at : Stages \ Locked, try : {"first", "second", "test"},
                      holds : Nat],
           user' = [user EXCEPT ![u] = e]
    PROVE  TokenInv'
<1> USE DEF TokenInv
<1>1. /\ clock' = clock /\ issued' = issued /\ zoned' = zoned
      /\ Len(issued) \in Nat
  BY DEF railSide, TokenTypes
<1>2. /\ user'[u] = e
      /\ \A v \in Users : v # u => user'[v] = user[v]
      /\ e.at \notin Locked
  BY DEF TokenTypes
<1>3. TokenTypes'
  BY <1>1 DEF TokenTypes
<1>4. OneLogsIn'
  BY <1>2 DEF OneLogsIn
<1>5. DeadlinesGrow'
  BY <1>1 DEF DeadlinesGrow
<1>6. ExpiryLags'
  <2>1. token' # 0 => token' = token /\ token \in 1 .. Len(issued)
    BY <1>1 DEF TokenTypes
  <2>2. token' # 0 => issued[token] \in Nat
    BY <2>1 DEF TokenTypes
  <2> QED
    BY <1>1, <2>1, <2>2 DEF ExpiryLags, TokenTypes
<1>7. NewestInHand'
  BY <1>1, <1>2 DEF NewestInHand, Locked
<1> QED
  BY <1>3, <1>4, <1>5, <1>6, <1>7

(* The lock, and the second look.                                          *)
LEMMA LockedStepKeeps ==
    ASSUME TokenInv, NEW u \in Users, EnterLock(u)
    PROVE  TokenInv'
<1> USE DEF TokenInv
<1>1. UNCHANGED <<clock, issued, zoned, revoked, token, expiresAt>>
  BY DEF EnterLock, railSide
<1>2. PICK s \in {"take", "login"} :
          user' = [user EXCEPT ![u].at = s] /\ holder = {} /\ holder' = {u}
  BY DEF EnterLock, Step
<1>3. \A v \in Users : v # u => user'[v] = user[v]
  BY <1>2 DEF TokenTypes
<1>4. user'[u] = [user[u] EXCEPT !.at = s] /\ user[u] \in [at : Stages, try : {"first", "second", "test"}, holds : Nat]
  BY <1>2 DEF TokenTypes
<1>5. user'[u].at = s /\ user'[u] \in [at : Stages, try : {"first", "second", "test"}, holds : Nat]
  BY <1>4 DEF Stages, Locked
<1>6. TokenTypes'
  BY <1>1, <1>2, <1>5 DEF TokenTypes
<1>7. OneLogsIn'
  <2>1. \A v \in Users : user[v].at \notin Locked
    BY <1>2 DEF OneLogsIn
  <2> QED
    BY <1>2, <1>3, <2>1 DEF OneLogsIn
<1>8. DeadlinesGrow' /\ ExpiryLags'
  BY <1>1 DEF DeadlinesGrow, ExpiryLags
<1>9. NewestInHand'
  BY <1>1, <1>3, <1>5 DEF NewestInHand
<1> QED
  BY <1>6, <1>7, <1>8, <1>9

(* A login: the rail's deadline is the latest so far, so whatever is stored  *)
(* is older; the token in hand is the newest.                              *)
LEMMA LoginKeeps ==
    ASSUME TokenInv, NEW u \in Users, LoginAccepted(u)
    PROVE  TokenInv'
<1> USE DEF TokenInv
<1> DEFINE n == Len(issued)
<1> DEFINE deadline == clock + TokenLife
<1>1. /\ n \in Nat /\ clock \in Nat /\ deadline \in Nat
      /\ \A i \in 1 .. n : issued[i] \in Nat
  BY TokenAssumption DEF TokenTypes
<1>2. /\ issued' \in Seq(Nat)
      /\ Len(issued') = n + 1
      /\ issued'[n + 1] = deadline
      /\ \A i \in 1 .. n : issued'[i] = issued[i]
  BY <1>1 DEF LoginAccepted, TokenTypes
<1>3. UNCHANGED <<clock, token, expiresAt, holder>>
      /\ zoned' \subseteq zoned \cup {n + 1}
  BY <1>2 DEF LoginAccepted
<1>4. user[u].at = "login" /\ holder = {u}
  BY DEF LoginAccepted, At, OneLogsIn, Locked
<1>5. /\ user' = [user EXCEPT ![u] = [user[u] EXCEPT !.at = "store", !.holds = n + 1]]
  BY <1>2 DEF LoginAccepted
<1>6. /\ user'[u].at = "store" /\ user'[u].holds = n + 1
      /\ user' \in [Users -> [at : Stages, try : {"first", "second", "test"}, holds : Nat]]
      /\ \A v \in Users : v # u => user'[v] = user[v]
  <2>1. user[u] \in [at : Stages, try : {"first", "second", "test"}, holds : Nat]
        /\ n + 1 \in Nat
    BY <1>1 DEF TokenTypes
  <2> HIDE DEF n
  <2>2. /\ [user[u] EXCEPT !.at = "store", !.holds = n + 1]
               \in [at : Stages, try : {"first", "second", "test"}, holds : Nat]
        /\ [user[u] EXCEPT !.at = "store", !.holds = n + 1].at = "store"
        /\ [user[u] EXCEPT !.at = "store", !.holds = n + 1].holds = n + 1
    BY <2>1 DEF Stages, Locked
  <2> QED
    BY <1>5, <2>2 DEF TokenTypes
<1>7. \A v \in Users : v # u => user[v].at \notin Locked
  BY <1>4 DEF OneLogsIn
<1> HIDE DEF n, deadline
<1>8. TokenTypes'
  <2>1. token \in 0 .. n
    BY DEF TokenTypes, n
  <2>2. token \in 0 .. (n + 1)
    BY <1>1, <2>1
  <2> QED
    BY <1>2, <1>3, <1>6, <2>2 DEF TokenTypes
<1>9. OneLogsIn'
  BY <1>3, <1>4, <1>6, <1>7 DEF OneLogsIn
<1>10. \A i \in 1 .. n : issued[i] <= deadline
  BY DEF DeadlinesGrow, n, deadline
<1>11. DeadlinesGrow'
  <2>1. \A i \in 1 .. (n + 1) : i = n + 1 \/ i \in 1 .. n
    BY <1>1
  <2>2. \A i \in 1 .. (n + 1) : issued'[i] <= deadline
    BY <1>1, <1>2, <1>10, <2>1
  <2>3. \A i, j \in 1 .. n : i <= j => issued[i] <= issued[j]
    BY DEF DeadlinesGrow, n
  <2>4. \A i, j \in 1 .. (n + 1) : i <= j => issued'[i] <= issued'[j]
    <3> SUFFICES ASSUME NEW i \in 1 .. (n + 1), NEW j \in 1 .. (n + 1), i <= j
                 PROVE  issued'[i] <= issued'[j]
      OBVIOUS
    <3>1. CASE j = n + 1
      BY <1>2, <2>2, <3>1
    <3>2. CASE j # n + 1
      BY <1>1, <1>2, <2>1, <2>3, <3>2
    <3> QED
      BY <3>1, <3>2
  <2> QED
    BY <1>2, <1>3, <2>2, <2>4 DEF DeadlinesGrow, deadline
<1>12. ExpiryLags'
  <2>1. token \in 0 .. n /\ expiresAt \in Nat
    BY DEF TokenTypes, n
  <2>2. \A i \in 0 .. n : 1 .. i \subseteq zoned' => 1 .. i \subseteq zoned
    BY <1>1, <1>3
  <2>3. token # 0 /\ 1 .. token \subseteq zoned' => expiresAt <= issued'[token]
    <3>1. token # 0 => token \in 1 .. n
      BY <1>1, <2>1
    <3> QED
      BY <1>2, <2>1, <2>2, <3>1 DEF ExpiryLags
  <2>4. ASSUME expiresAt # 0, 1 .. (n + 1) \subseteq zoned'
        PROVE  expiresAt <= deadline
    <3>1. n > 0 /\ 1 .. n \subseteq zoned'
      BY <1>1, <2>4 DEF ExpiryLags, n
    <3>2. n \in 1 .. n /\ 1 .. n \subseteq zoned
      BY <1>1, <2>2, <3>1
    <3>3. expiresAt <= issued[n]
      BY <2>4, <3>2 DEF ExpiryLags, n
    <3>4. issued[n] <= deadline /\ issued[n] \in Nat
      BY <1>1, <1>10, <3>2
    <3> QED
      BY <1>1, <2>1, <3>3, <3>4
  <2> QED
    BY <1>1, <1>2, <1>3, <2>3, <2>4 DEF ExpiryLags
<1>13. NewestInHand'
  <2> SUFFICES ASSUME NEW v \in Users
               PROVE  /\ user'[v].at \in {"store", "stamp"} =>
                             user'[v].holds = n + 1 /\ n + 1 > 0
                      /\ user'[v].at = "stamp" => token' \in {0, n + 1}
    BY <1>2 DEF NewestInHand
  <2>1. CASE v = u
    BY <1>1, <1>6, <2>1
  <2>2. CASE v # u
    BY <1>6, <1>7, <2>2 DEF Locked
  <2> QED
    BY <2>1, <2>2
<1> QED
  BY <1>8, <1>9, <1>11, <1>12, <1>13

(* The two assignments: the token with an expiry that is older, then its    *)
(* own.                                                                    *)
LEMMA StoreKeeps ==
    ASSUME TokenInv, NEW u \in Users, Store(u)
    PROVE  TokenInv'
<1> USE DEF TokenInv
<1> DEFINE n == Len(issued)
<1>1. user[u].at \in {"store", "stamp"} /\ user[u].at \in Locked
  BY DEF Store, At, Locked
<1>2. user[u].holds = n /\ n \in Nat \ {0} /\ issued[n] \in Nat
  <2>1. n \in Nat
    BY DEF TokenTypes
  <2>2. user[u].holds = n /\ n > 0
    BY <1>1 DEF NewestInHand
  <2>3. n \in 1 .. n
    BY <2>1, <2>2
  <2> QED
    BY <2>1, <2>2, <2>3 DEF TokenTypes
<1>3. holder = {u} /\ \A v \in Users : v # u => user[v].at \notin Locked
  BY <1>1 DEF OneLogsIn
<1>4. UNCHANGED <<clock, issued, zoned, holder>>
  BY DEF Store, railSide
<1>5. PICK s \in {"stamp", "take"}, h \in {n, 0} :
          /\ user' = [user EXCEPT ![u] = [user[u] EXCEPT !.at = s, !.holds = h]]
          /\ s = "stamp" <=> user[u].at = "store"
          /\ s = "stamp" => h = n
  <2>1. CASE user[u].at = "store"
    <3>1. user' = [user EXCEPT ![u] = [user[u] EXCEPT !.at = "stamp"]]
      BY <2>1 DEF Store, At
    <3>2. [user[u] EXCEPT !.at = "stamp"] = [user[u] EXCEPT !.at = "stamp", !.holds = n]
      BY <1>2 DEF TokenTypes
    <3> QED
      BY <2>1, <3>1, <3>2
  <2>2. CASE user[u].at = "stamp"
    BY <2>2 DEF Store, At
  <2> QED
    BY <1>1, <2>1, <2>2
<1>6. user[u] \in [at : Stages, try : {"first", "second", "test"}, holds : Nat]
  BY DEF TokenTypes
<1>7. /\ user'[u].at = s /\ user'[u].holds = h
      /\ user'[u] \in [at : Stages, try : {"first", "second", "test"}, holds : Nat]
      /\ \A v \in Users : v # u => user'[v] = user[v]
  <2>1. h \in Nat /\ s \in Stages
    BY <1>2, <1>5 DEF Stages, Locked
  <2>2. [user[u] EXCEPT !.at = s, !.holds = h]
            \in [at : Stages, try : {"first", "second", "test"}, holds : Nat]
    BY <1>6, <2>1
  <2>3. [user[u] EXCEPT !.at = s, !.holds = h].at = s
        /\ [user[u] EXCEPT !.at = s, !.holds = h].holds = h
    BY <1>6
  <2> QED
    BY <1>5, <2>2, <2>3 DEF TokenTypes
<1>8. user' \in [Users -> [at : Stages, try : {"first", "second", "test"}, holds : Nat]]
  BY <1>5, <1>7 DEF TokenTypes
<1>9. \/ s = "stamp" /\ token' = n /\ expiresAt' = expiresAt
      \/ s = "take" /\ token' = token /\ token \in {0, n} /\ expiresAt' \in ParsedExpiry(n)
  BY <1>1, <1>2, <1>5 DEF Store, Assigned, At, NewestInHand
<1>10. /\ expiresAt' \in Nat
       /\ 1 .. n \subseteq zoned => expiresAt' <= issued[n]
  <2>1. CASE expiresAt' = expiresAt
    BY <1>2, <2>1 DEF TokenTypes, ExpiryLags
  <2>2. CASE expiresAt' \in ParsedExpiry(n)
    <3>1. n \in 1 .. n
      BY <1>2
    <3> HIDE DEF n
    <3> QED
      BY <1>2, <2>2, <3>1, TokenAssumption DEF ParsedExpiry, TokenTypes
  <2> QED
    BY <1>9, <2>1, <2>2
<1> HIDE DEF n
<1>11. TokenTypes'
  <2>1. token' \in 0 .. n
    BY <1>2, <1>9
  <2> QED
    BY <1>2, <1>4, <1>8, <1>10, <2>1 DEF TokenTypes, n
<1>12. OneLogsIn'
  BY <1>3, <1>4, <1>7 DEF OneLogsIn
<1>13. DeadlinesGrow'
  BY <1>4 DEF DeadlinesGrow
<1>14. ExpiryLags'
  <2>1. n > 0 /\ (token' = n \/ token' = 0)
    BY <1>2, <1>9, <1>11, <1>5
  <2> QED
    BY <1>4, <1>10, <2>1 DEF ExpiryLags, n
<1>15. NewestInHand'
  <2>1. \A v \in Users : v # u => user'[v].at \notin Locked
    BY <1>3, <1>7
  <2>2. Len(issued') = n
    BY <1>4 DEF n
  <2> QED
    BY <1>2, <1>5, <1>7, <1>9, <2>1, <2>2 DEF NewestInHand, Locked
<1> QED
  BY <1>11, <1>12, <1>13, <1>14, <1>15

-----------------------------------------------------------------------------
(* Each remaining action of a thread is a quiet step.                      *)
LEMMA OtherStepKeeps ==
    ASSUME TokenInv, NEW u \in Users,
           \/ ForgetToken(u) \/ ForgetExpiry(u) \/ Look(u)
           \/ LoginFails(u) \/ Take(u)
           \/ Answered(u) \/ Refused401(u) \/ RequestFails(u)
    PROVE  TokenInv'
<1> DEFINE Rest == [at : Stages \ Locked, try : {"first", "second", "test"}, holds : Nat]
<1>1. user[u] \in [at : Stages, try : {"first", "second", "test"}, holds : Nat]
      /\ token \in Nat
  BY DEF TokenInv, TokenTypes
<1>2. NoUse \in Rest
  BY DEF NoUse, Stages, Locked
<1>3. UNCHANGED railSide
  BY DEF ForgetToken, ForgetExpiry, Look, LoginFails, Take,
         Answered, Refused401, RequestFails
<1>4. /\ token' \in {token, 0} /\ expiresAt' \in {expiresAt, 0}
      /\ holder' \in {holder, holder \ {u}}
  BY DEF ForgetToken, ForgetExpiry, Look, LoginFails, Take,
         Answered, Refused401, RequestFails
<1>5. \E e \in Rest : user' = [user EXCEPT ![u] = e]
  <2>1. CASE LoginFails(u) \/ Answered(u) \/ RequestFails(u)
    BY <1>2, <2>1 DEF LoginFails, Answered, RequestFails
  <2>2. CASE ForgetExpiry(u) \/ Look(u)
    <3>1. PICK s \in {"look", "take", "wait"} : user' = [user EXCEPT ![u].at = s]
      BY <2>2 DEF ForgetExpiry, Look, Step
    <3>2. [user[u] EXCEPT !.at = s] \in Rest
      BY <1>1 DEF Stages, Locked
    <3> QED
      BY <3>1, <3>2
  <2>3. CASE ForgetToken(u)
    <3>1. user' = [user EXCEPT ![u] = [user[u] EXCEPT !.at = "forget", !.try = "test"]]
      BY <2>3 DEF ForgetToken
    <3>2. [user[u] EXCEPT !.at = "forget", !.try = "test"] \in Rest
      BY <1>1 DEF Stages, Locked
    <3> QED
      BY <3>1, <3>2
  <2>4. CASE Take(u)
    <3>1. \/ user' = [user EXCEPT ![u] = NoUse]
          \/ user' = [user EXCEPT ![u] = [user[u] EXCEPT !.at = "send", !.holds = token]]
      BY <2>4 DEF Take
    <3>2. [user[u] EXCEPT !.at = "send", !.holds = token] \in Rest
      BY <1>1 DEF Stages, Locked
    <3> QED
      BY <1>2, <3>1, <3>2
  <2>5. CASE Refused401(u)
    <3>1. \/ user' = [user EXCEPT ![u] = NoUse]
          \/ user' = [user EXCEPT ![u] = [at |-> "look", try |-> "second", holds |-> 0]]
      BY <2>5 DEF Refused401
    <3>2. [at |-> "look", try |-> "second", holds |-> 0] \in Rest
      BY DEF Stages, Locked
    <3> QED
      BY <1>2, <3>1, <3>2
  <2> QED
    BY <2>1, <2>2, <2>3, <2>4, <2>5
<1> QED
  BY <1>3, <1>4, <1>5, QuietStepKeeps

LEMMA TokenStep == TokenInv /\ [TokenNext]_tokenVars => TokenInv'
<1> SUFFICES ASSUME TokenInv, [TokenNext]_tokenVars PROVE TokenInv'
  OBVIOUS
<1>1. CASE \E u \in Users : Use(u)
  <2>1. PICK u \in Users : Use(u)
    BY <1>1
  <2> QED
    BY <2>1, LockedStepKeeps, LoginKeeps, StoreKeeps, OtherStepKeeps DEF Use
<1>2. CASE Revoke
  BY <1>2 DEF Revoke, TokenInv, TokenTypes, OneLogsIn, DeadlinesGrow, ExpiryLags,
              NewestInHand
<1>3. CASE TokenTick
  <2>1. UNCHANGED <<issued, zoned, token, expiresAt, holder, user>> /\ clock' = clock + 1
    BY <1>3 DEF TokenTick
  <2>2. clock \in Nat /\ TokenLife \in Nat /\ \A i \in 1 .. Len(issued) : issued[i] \in Nat
    BY TokenAssumption DEF TokenInv, TokenTypes
  <2>3. \A i \in 1 .. Len(issued) : issued[i] <= clock' + TokenLife
    BY <2>1, <2>2 DEF TokenInv, DeadlinesGrow
  <2> QED
    BY <2>1, <2>2, <2>3
       DEF TokenInv, TokenTypes, OneLogsIn, DeadlinesGrow, ExpiryLags, NewestInHand
<1>4. CASE UNCHANGED tokenVars
  BY <1>4 DEF tokenVars, TokenInv, TokenTypes, OneLogsIn, DeadlinesGrow, ExpiryLags,
              NewestInHand
<1> QED
  BY <1>1, <1>2, <1>3, <1>4 DEF TokenNext

(* The strengthening: one login at a time, deadlines that grow, and a       *)
(* stored expiry that never runs ahead of the stored token, as long as the    *)
(* rail states expiries with their zone.  (apps/gateway/provider.py:50)     *)
THEOREM TokenInvariant == TokenSpec => []TokenInv
<1> QED
  BY TokenInitially, TokenStep, PTL DEF TokenSpec

(* While the rail states expiries with their zone, a token that looks usable *)
(* has its margin left at the rail, whatever the threads are doing and       *)
(* however the next token's expiry is stated.  (apps/gateway/provider.py:85) *)
THEOREM FreshTokensOnly == TokenSpec => []UsableTokensAreFresh
<1>1. TokenInv => UsableTokensAreFresh
  <2> SUFFICES ASSUME TokenInv, Usable, 1 .. token \subseteq zoned
               PROVE  clock < issued[token] - Margin
    BY DEF UsableTokensAreFresh
  <2>1. token # 0 /\ clock < expiresAt - Margin
    BY DEF Usable
  <2>2. expiresAt <= issued[token] /\ expiresAt \in Nat /\ clock \in Nat /\ Margin \in Nat
    BY <2>1, TokenAssumption DEF TokenInv, ExpiryLags, TokenTypes
  <2>3. issued[token] \in Nat
    <3>1. Len(issued) \in Nat /\ token \in 1 .. Len(issued)
      BY <2>1 DEF TokenInv, TokenTypes
    <3> QED
      BY <3>1 DEF TokenInv, TokenTypes
  <2> QED
    BY <2>1, <2>2, <2>3
<1> QED
  BY <1>1, TokenInvariant, PTL
-----------------------------------------------------------------------------
(* A counter in the cache and the history of what it counts: a counter that *)
(* is held was started no longer ago than its window, and as many events as *)
(* it says have happened since.                                            *)
Counts(counter, ages, top, window) ==
    /\ ages \in [1..top -> 0..window]
    /\ \/ counter = Absent
       \/ /\ counter \in [val : 1..top, left : 1..window]
          /\ \A i \in 1..counter.val : ages[i] <= window - counter.left

LEMMA CountOne ==
  ASSUME NEW top \in Nat \ {0}, NEW window \in Nat \ {0}, NEW counter, NEW ages,
         Counts(counter, ages, top, window)
  PROVE  Counts(Put(1, window), OneMore(ages, top), top, window)
BY DEF Counts, Put, OneMore

LEMMA CountNext ==
  ASSUME NEW top \in Nat \ {0}, NEW window \in Nat \ {0}, NEW counter, NEW ages,
         Counts(counter, ages, top, window), Held(counter)
  PROVE  Counts(Bumped(counter, top), OneMore(ages, top), top, window)
<1>1. /\ counter \in [val : 1..top, left : 1..window]
      /\ \A i \in 1..counter.val : ages[i] <= window - counter.left
      /\ ages \in [1..top -> 0..window]
  BY DEF Counts, Held, Absent
<1> DEFINE n == IF counter.val < top THEN counter.val + 1 ELSE top
           more == OneMore(ages, top)
<1>2. Bumped(counter, top) = [val |-> n, left |-> counter.left]
  BY <1>1 DEF Bumped
<1>3. n \in 1..top /\ n <= counter.val + 1
  BY <1>1
<1>4. more \in [1..top -> 0..window]
  BY <1>1 DEF OneMore
<1>5. ASSUME NEW i \in 1..n PROVE more[i] <= window - counter.left
  <2>1. CASE i = 1
    BY <1>1, <2>1 DEF OneMore
  <2>2. CASE i # 1
    <3>1. i \in 1..top /\ i - 1 \in 1..counter.val
      BY <1>1, <1>3, <2>2
    <3> QED
      BY <1>1, <2>2, <3>1 DEF OneMore
  <2> QED
    BY <2>1, <2>2
<1> HIDE DEF n, more
<1> QED
  BY <1>1, <1>2, <1>3, <1>4, <1>5 DEF Counts, more

LEMMA CountNone ==
  ASSUME NEW top \in Nat \ {0}, NEW window \in Nat \ {0}, NEW ages,
         ages \in [1..top -> 0..window]
  PROVE  Counts(Absent, ages, top, window)
BY DEF Counts

LEMMA CountOlder ==
  ASSUME NEW top \in Nat \ {0}, NEW window \in Nat \ {0}, NEW counter, NEW ages,
         Counts(counter, ages, top, window)
  PROVE  Counts(Aged(counter), Older(ages, window), top, window)
<1> DEFINE old == Older(ages, window)
<1>1. ages \in [1..top -> 0..window]
  BY DEF Counts
<1>2. old \in [1..top -> 0..window] /\ \A i \in 1..top : old[i] <= ages[i] + 1
  BY <1>1 DEF Older
<1>3. CASE counter = Absent
  <2>1. Aged(counter) = Absent
    BY <1>3 DEF Aged, Absent
  <2> QED
    BY <1>2, <2>1 DEF Counts
<1>4. CASE counter # Absent
  <2>1. /\ counter \in [val : 1..top, left : 1..window]
        /\ \A i \in 1..counter.val : ages[i] <= window - counter.left
    BY <1>4 DEF Counts
  <2>2. CASE counter.left = 1
    BY <1>2, <2>2 DEF Counts, Aged
  <2>3. CASE counter.left # 1
    <3>1. Aged(counter) = [val |-> counter.val, left |-> counter.left - 1]
      BY <2>1, <2>3 DEF Aged
    <3>2. counter.left - 1 \in 1..window
      BY <2>1, <2>3
    <3>3. ASSUME NEW i \in 1..counter.val
          PROVE  old[i] <= window - (counter.left - 1)
      <4>1. i \in 1..top
        BY <2>1
      <4>2. old[i] \in 0..window /\ ages[i] \in 0..window /\ counter.left \in 1..window
        BY <1>1, <1>2, <2>1, <4>1
      <4>3. old[i] <= ages[i] + 1 /\ ages[i] <= window - counter.left
        BY <1>2, <2>1, <4>1
      <4> HIDE DEF old
      <4> QED
        BY <4>2, <4>3
    <3> HIDE DEF old
    <3> QED
      BY <1>2, <2>1, <3>1, <3>2, <3>3 DEF Counts, old
  <2> QED
    BY <2>2, <2>3
<1> QED
  BY <1>3, <1>4

(* A counter at its top: that many events are younger than the window.      *)
LEMMA CountFull ==
  ASSUME NEW top \in Nat \ {0}, NEW window \in Nat \ {0}, NEW counter, NEW ages,
         Counts(counter, ages, top, window), Held(counter), counter.val >= top
  PROVE  ages[top] < window
<1>1. /\ counter \in [val : 1..top, left : 1..window]
      /\ \A i \in 1..counter.val : ages[i] <= window - counter.left
      /\ ages \in [1..top -> 0..window]
  BY DEF Counts, Held, Absent
<1>2. counter.val = top /\ top \in 1..top
  BY <1>1
<1>3. ages[top] <= window - counter.left /\ ages[top] \in 0..window
  BY <1>1, <1>2
<1> QED
  BY <1>1, <1>3

-----------------------------------------------------------------------------
(* The circuit breaker.                                                    *)
BreakerInv ==
    /\ serving = [t \in BreakerThreads |-> serving[t]]
    /\ Counts(failures, recent, FailureThreshold, FailureWindow)

(* A step in which thread t counts a failure, and decides by the count.     *)
CountsOne(t) == CountFailure(t) \/ StartCounter(t)

LEMMA BreakerSteps ==
  ASSUME BreakerInv, NEW t \in BreakerThreads, Serve(t)
  PROVE  BreakerInv'
<1> USE BreakerAssumption
<1>1. serving' = [u \in BreakerThreads |-> serving'[u]]
  BY DEF BreakerInv, Serve, Goes, ReadCircuit, Refuse, HalfOpen, Fails, Succeeds,
     CountFailure, NoCounter, StartCounter, Open, Stamp, Close, Clear
<1>2. CASE CountFailure(t)
  BY <1>1, <1>2, CountNext DEF BreakerInv, CountFailure
<1>3. CASE StartCounter(t)
  BY <1>1, <1>3, CountOne DEF BreakerInv, StartCounter
<1>4. CASE Clear(t)
  <2>1. NoFailure \in [1..FailureThreshold -> 0..FailureWindow]
    BY DEF NoFailure
  <2> QED
    BY <1>1, <1>4, <2>1, CountNone DEF BreakerInv, Clear, AfterSuccess
<1>5. CASE UNCHANGED <<failures, recent>>
  BY <1>1, <1>5 DEF BreakerInv
<1> QED
  BY <1>2, <1>3, <1>4, <1>5 DEF Serve, ReadCircuit, Refuse, HalfOpen, Fails,
     Succeeds, NoCounter, Open, Stamp, Close, breakerCache

(* A thread that turns to open the circuit has just counted.                *)
LEMMA OnlyCountersOpen ==
  ASSUME BreakerInv, NEW t \in BreakerThreads, NEW u \in BreakerThreads, Serve(t),
         serving[u] # "open", serving'[u] = "open"
  PROVE  CountsOne(t) /\ u = t
BY DEF BreakerInv, Serve, Goes, ReadCircuit, Refuse, HalfOpen, Fails, Succeeds,
   NoCounter, Open, Stamp, Close, Clear, CountsOne, CountFailure, StartCounter

LEMMA CountersHaveCause ==
  ASSUME BreakerInv, BreakerInv', NEW t \in BreakerThreads, CountsOne(t),
         serving'[t] = "open"
  PROVE  recent'[FailureThreshold] < FailureWindow
<1> USE BreakerAssumption
<1>1. Counts(failures', recent', FailureThreshold, FailureWindow)
  BY DEF BreakerInv
<1>2. failures'.val >= FailureThreshold
  BY DEF BreakerInv, CountsOne, CountFailure, StartCounter, Goes, Counted, Put
<1>3. Held(failures')
  BY DEF CountsOne, CountFailure, StartCounter, Held, Bumped, Put, BreakerInv,
     Counts, Absent
<1> QED
  BY <1>1, <1>2, <1>3, CountFull

(* The failure counter counts failures of the window and since the last     *)
(* success, however the threads' cache operations interleave.              *)
(* (apps/security/middleware.py:158 and 401)                               *)
THEOREM BreakerInvariant == BreakerSpec => []BreakerInv
<1>1. BreakerInit => BreakerInv
  BY BreakerAssumption, CountNone DEF BreakerInit, BreakerInv, NoFailure
<1>2. BreakerInv /\ [BreakerNext]_breakerVars => BreakerInv'
  <2>1. ASSUME BreakerInv, BreakerTick PROVE BreakerInv'
    BY <2>1, BreakerAssumption, CountOlder DEF BreakerInv, BreakerTick
  <2>2. ASSUME BreakerInv, UNCHANGED breakerVars PROVE BreakerInv'
    BY <2>2 DEF BreakerInv, breakerVars
  <2> QED
    BY <2>1, <2>2, BreakerSteps DEF BreakerNext
<1> QED
  BY <1>1, <1>2, PTL DEF BreakerSpec

(* The breaker opens for as many recent failures as its threshold says, in  *)
(* any race of the threads.  (apps/security/middleware.py:140)             *)
THEOREM BreakersHaveCause == BreakerSpec => BreakerHasCause
<1> DEFINE Cause == \A t \in BreakerThreads :
             serving[t] # "open" /\ serving'[t] = "open"
                 => recent'[FailureThreshold] < FailureWindow
<1>1. BreakerInv /\ BreakerInv' /\ [BreakerNext]_breakerVars => [Cause]_breakerVars
  <2> SUFFICES ASSUME BreakerInv, BreakerInv', BreakerNext,
                      NEW t \in BreakerThreads,
                      serving[t] # "open", serving'[t] = "open"
               PROVE  recent'[FailureThreshold] < FailureWindow
    OBVIOUS
  <2>1. PICK u \in BreakerThreads : Serve(u)
    BY DEF BreakerNext, BreakerTick
  <2>2. CountsOne(t)
    BY <2>1, OnlyCountersOpen
  <2> QED
    BY <2>2, CountersHaveCause
<1>2. BreakerHasCause <=> [][Cause]_breakerVars
  BY DEF BreakerHasCause
<1> HIDE DEF Cause
<1> QED
  BY <1>1, <1>2, BreakerInvariant, PTL DEF BreakerSpec
-----------------------------------------------------------------------------
(* The rate limit.                                                         *)
LimiterInv ==
    /\ handling = [t \in Clients |-> handling[t]]
    /\ Counts(requests, arrivals, RateLimit + 1, RateWindow)

(* A step in which thread t counts a request, and decides by the count.     *)
CountsRequest(t) == CountRequest(t) \/ FirstRequest(t)

LEMMA LimitPositive == RateLimit + 1 \in Nat \ {0} /\ RateWindow \in Nat \ {0}
BY RateAssumption

LEMMA LimiterSteps ==
  ASSUME LimiterInv, NEW t \in Clients, Handle(t)
  PROVE  LimiterInv'
<1>1. handling' = [u \in Clients |-> handling'[u]]
  BY DEF LimiterInv, Handle, Moves, LookUp, CheckBan, CountRequest, NoCount,
     FirstRequest, Ban, RecordBlock, BlockUnrecorded
<1>2. CASE CountRequest(t)
  BY <1>1, <1>2, LimitPositive, CountNext DEF LimiterInv, CountRequest
<1>3. CASE FirstRequest(t)
  BY <1>1, <1>3, LimitPositive, CountOne DEF LimiterInv, FirstRequest
<1>4. CASE UNCHANGED <<requests, arrivals>>
  BY <1>1, <1>4 DEF LimiterInv
<1> QED
  BY <1>2, <1>3, <1>4 DEF Handle, LookUp, CheckBan, NoCount, Ban, RecordBlock,
     BlockUnrecorded, rateCache

(* A thread that turns to ban the address has just counted.                 *)
LEMMA OnlyCountersBan ==
  ASSUME LimiterInv, NEW t \in Clients, NEW u \in Clients, Handle(t),
         handling[u] # "ban", handling'[u] = "ban"
  PROVE  CountsRequest(t) /\ u = t
BY DEF LimiterInv, Handle, Moves, LookUp, CheckBan, CountRequest, NoCount,
   FirstRequest, Ban, RecordBlock, BlockUnrecorded, CountsRequest

LEMMA VerdictsHaveCause ==
  ASSUME LimiterInv, LimiterInv', NEW t \in Clients, CountsRequest(t),
         handling'[t] = "ban"
  PROVE  arrivals'[RateLimit + 1] < RateWindow
<1> USE RateAssumption
<1>1. Counts(requests', arrivals', RateLimit + 1, RateWindow)
  BY DEF LimiterInv
<1>2. CASE CountRequest(t)
  <2>1. Held(requests')
    BY <1>2 DEF CountRequest, Held, Bumped, LimiterInv, Counts, Absent
  <2>2. requests'.val > RateLimit /\ requests'.val \in Nat
    BY <1>1, <1>2, <2>1
       DEF LimiterInv, CountRequest, Moves, Verdict, Counts, Held, Absent
  <2>3. requests'.val >= RateLimit + 1
    BY <2>2
  <2> QED
    BY <1>1, <2>1, <2>3, LimitPositive, CountFull
<1>3. CASE FirstRequest(t)
  BY <1>3 DEF LimiterInv, FirstRequest, Moves, Verdict
<1> QED
  BY <1>2, <1>3 DEF CountsRequest

(* The counter of an address counts requests of the window, however its     *)
(* requests race.  (apps/security/middleware.py:187 and 401)               *)
THEOREM LimiterInvariant == RateSpec => []LimiterInv
<1>1. RateInit => LimiterInv
  BY LimitPositive, CountNone DEF RateInit, LimiterInv
<1>2. LimiterInv /\ [RateNext]_rateVars => LimiterInv'
  <2>1. ASSUME LimiterInv, RateTick PROVE LimiterInv'
    BY <2>1, LimitPositive, CountOlder DEF LimiterInv, RateTick
  <2>2. ASSUME LimiterInv, StaffBlocks \/ StaffUnblocks PROVE LimiterInv'
    BY <2>2 DEF LimiterInv, StaffBlocks, StaffUnblocks, rateCache
  <2>3. ASSUME LimiterInv, UNCHANGED rateVars PROVE LimiterInv'
    BY <2>3 DEF LimiterInv, rateVars
  <2> QED
    BY <2>1, <2>2, <2>3, LimiterSteps DEF RateNext
<1> QED
  BY <1>1, <1>2, PTL DEF RateSpec

(* An address is banned only for more requests than the limit within the    *)
(* window, in any race of them with each other and with its end.           *)
(* (apps/security/middleware.py:188)                                       *)
THEOREM BansAreDeserved == RateSpec => BansHaveCause
<1> DEFINE Deserved == \A t \in Clients :
             handling[t] # "ban" /\ handling'[t] = "ban"
                 => arrivals'[RateLimit + 1] < RateWindow
<1>1. LimiterInv /\ LimiterInv' /\ [RateNext]_rateVars => [Deserved]_rateVars
  <2> SUFFICES ASSUME LimiterInv, LimiterInv', RateNext, NEW t \in Clients,
                      handling[t] # "ban", handling'[t] = "ban"
               PROVE  arrivals'[RateLimit + 1] < RateWindow
    OBVIOUS
  <2>1. PICK u \in Clients : Handle(u)
    BY DEF RateNext, RateTick, StaffBlocks, StaffUnblocks
  <2>2. CountsRequest(t)
    BY <2>1, OnlyCountersBan
  <2> QED
    BY <2>2, VerdictsHaveCause
<1>2. BansHaveCause <=> [][Deserved]_rateVars
  BY DEF BansHaveCause
<1> HIDE DEF Deserved
<1> QED
  BY <1>1, <1>2, LimiterInvariant, PTL DEF RateSpec

-----------------------------------------------------------------------------
(* The QR code and its extensions stay those of one scan, whichever sync    *)
(* writes last.  (apps/fiduciary/services.py:218)                          *)
THEOREM SnapshotsAreWhole == SyncSpec => []SnapshotIsOneScan
<1>1. SyncInit => SnapshotIsOneScan
  BY DEF SyncInit, SnapshotIsOneScan
<1>2. SnapshotIsOneScan /\ [SyncNext]_syncVars => SnapshotIsOneScan'
  <2>1. ASSUME NEW s \in Syncs, SaveQR(s) PROVE SnapshotIsOneScan'
    BY <2>1 DEF SaveQR, SyncedExtensions, SnapshotIsOneScan
  <2>2. ASSUME SnapshotIsOneScan, UNCHANGED <<qrRow, qrExtensions>>
        PROVE  SnapshotIsOneScan'
    BY <2>2 DEF SnapshotIsOneScan
  <2> QED
    BY <2>1, <2>2 DEF SyncNext, syncVars, Sync, ScanQR, VerifyAlias, Hears,
       SaveAccount, GiveUpSync, Rotate, ChangeAlias
<1> QED
  BY <1>1, <1>2, PTL DEF SyncSpec
=============================================================================
