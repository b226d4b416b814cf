---------------------------- MODULE GatewayToken ----------------------------
(* The session token of MobileCashGateway, one object that all threads of a *)
(* process use.  A request reads the token without the lock, a login holds   *)
(* it; a request that is answered 401 drops the token and tries once more.   *)
(* The rail may revoke a token before its time.                            *)
EXTENDS Integers, Sequences

CONSTANTS
    Users,          \* threads that use the gateway object
    Testers,        \* bound: those of them that test the connection
    TokenLife,      \* the life of a token, counted from the login
    LocalShift,     \* what a statement without its zone is off by
    MinLife,        \* 60 seconds: the least that is made of such a statement
    DefaultLife,    \* 3600 seconds: assumed when no statement can be read
    Margin,         \* 30 seconds: a token is replaced before it expires
    MaxLogins,      \* bound: tokens the rail issues
    MaxClock        \* bound: the clock stops here

ASSUME TokenAssumption ==
    /\ TokenLife \in Nat /\ Margin \in Nat
    /\ LocalShift \in Int /\ MinLife \in Nat /\ DefaultLife \in Nat
    /\ MaxLogins \in Nat /\ MaxClock \in Nat

VARIABLES
    clock,          \* time.time()
    issued,         \* at the rail: the deadline of each token issued
    zoned,          \* those whose jwtExpiresAt states it with its zone
    revoked,        \* at the rail: the tokens it has revoked
    token,          \* _token, 0 for None
    expiresAt,      \* _token_expires_at
    holder,         \* the threads inside _token_lock
    user            \* each thread: [at, try, holds]

tokenVars == <<clock, issued, zoned, revoked, token, expiresAt, holder, user>>
railSide  == <<clock, issued, zoned, revoked>>

NoUse == [at |-> "idle", try |-> "first", holds |-> 0]

TokenInit ==
    /\ clock = 0
    /\ issued = <<>> /\ zoned = {} /\ revoked = {}
    /\ token = 0 /\ expiresAt = 0
    /\ holder = {}
    /\ user = [u \in Users |-> NoUse]

At(u, stage) == user[u].at = stage

Step(u, stage) == user' = [user EXCEPT ![u].at = stage]

-----------------------------------------------------------------------------
(* The administrator's connection test forgets the token first.             *)
ForgetToken(u) ==
    /\ u \in Testers /\ At(u, "idle")
    /\ token' = 0
    /\ user' = [user EXCEPT ![u].at = "forget", ![u].try = "test"]
    /\ UNCHANGED <<railSide, expiresAt, holder>>

ForgetExpiry(u) ==
    /\ At(u, "forget")
    /\ expiresAt' = 0
    /\ Step(u, "look")
    /\ UNCHANGED <<railSide, token, holder>>

(* The token looks usable; it is read again by the statement that follows.  *)
Usable == token # 0 /\ clock < expiresAt - Margin

(* The first step of a request, of its second try and of the test.          *)
Look(u) ==
    /\ At(u, "idle") \/ At(u, "look")
    /\ Step(u, IF Usable THEN "take" ELSE "wait")
    /\ UNCHANGED <<railSide, token, expiresAt, holder>>

(* Inside the lock the thread looks again.                                 *)
EnterLock(u) ==
    /\ At(u, "wait")
    /\ holder = {}
    /\ holder' = {u}
    /\ Step(u, IF Usable THEN "take" ELSE "login")
    /\ UNCHANGED <<railSide, token, expiresAt>>

LoginAccepted(u) ==
    /\ At(u, "login")
    /\ Len(issued) < MaxLogins
    /\ issued' = Append(issued, clock + TokenLife)
    /\ zoned' \in {zoned, zoned \cup {Len(issued')}}
    /\ user' = [user EXCEPT ![u].at = "store", ![u].holds = Len(issued')]
    /\ UNCHANGED <<clock, revoked, token, expiresAt, holder>>

(* The login fails: the request fails, and the lock is left.               *)
LoginFails(u) ==
    /\ At(u, "login")
    /\ holder' = holder \ {u}
    /\ user' = [user EXCEPT ![u] = NoUse]
    /\ UNCHANGED <<railSide, token, expiresAt>>

(* _parse_expiry: the deadline, if it is stated with its zone.  A statement  *)
(* without one, or with so many digits that the zone is cut off with them,   *)
(* is taken for local time; none, or one that cannot be read, for an hour.   *)
ParsedExpiry(n) ==
    LET local == issued[n] + LocalShift
        least == clock + MinLife
    IN  IF n \in zoned THEN {issued[n]}
        ELSE {clock + DefaultLife, IF local > least THEN local ELSE least}

(* Mutant: the expiry is stored before the token.                          *)
ExpiryFirst(u) ==
    IF At(u, "store") THEN [token : {token}, expiresAt : ParsedExpiry(user[u].holds)]
    ELSE [token : {user[u].holds}, expiresAt : {expiresAt}]

(* The login's two assignments: the token, then its expiry.                *)
Assigned(u) ==
    IF At(u, "store") THEN [token : {user[u].holds}, expiresAt : {expiresAt}]
    ELSE [token : {token}, expiresAt : ParsedExpiry(user[u].holds)]

Store(u) ==
    /\ At(u, "store") \/ At(u, "stamp")
    /\ \E a \in Assigned(u) : token' = a.token /\ expiresAt' = a.expiresAt
    /\ user' = IF At(u, "store") THEN [user EXCEPT ![u].at = "stamp"]
               ELSE [user EXCEPT ![u].at = "take", ![u].holds = 0]
    /\ UNCHANGED <<railSide, holder>>

(* return self._token, whatever it is by now; the test ends with it.        *)
Take(u) ==
    /\ At(u, "take")
    /\ holder' = holder \ {u}
    /\ user' = IF user[u].try = "test" THEN [user EXCEPT ![u] = NoUse]
               ELSE [user EXCEPT ![u].at = "send", ![u].holds = token]
    /\ UNCHANGED <<railSide, token, expiresAt>>

Honoured(n) == n # 0 /\ n \notin revoked /\ clock < issued[n]

Answered(u) ==
    /\ At(u, "send")
    /\ Honoured(user[u].holds)
    /\ user' = [user EXCEPT ![u] = NoUse]
    /\ UNCHANGED <<railSide, token, expiresAt, holder>>

(* 401: the first time the token is dropped, whosever it is by now.        *)
Refused401(u) ==
    /\ At(u, "send")
    /\ ~Honoured(user[u].holds)
    /\ IF user[u].try = "second"
       THEN user' = [user EXCEPT ![u] = NoUse] /\ UNCHANGED token
       ELSE /\ token' = 0
            /\ user' = [user EXCEPT ![u] = [at |-> "look", try |-> "second", holds |-> 0]]
    /\ UNCHANGED <<railSide, expiresAt, holder>>

(* No answer, or an answer that is no 401.                                 *)
RequestFails(u) ==
    /\ At(u, "send")
    /\ user' = [user EXCEPT ![u] = NoUse]
    /\ UNCHANGED <<railSide, token, expiresAt, holder>>

-----------------------------------------------------------------------------
Revoke ==
    /\ revoked' = DOMAIN issued
    /\ revoked' # revoked
    /\ UNCHANGED <<clock, issued, zoned, token, expiresAt, holder, user>>

TokenTick ==
    /\ clock < MaxClock
    /\ clock' = clock + 1
    /\ UNCHANGED <<issued, zoned, revoked, token, expiresAt, holder, user>>

Use(u) ==
    \/ ForgetToken(u) \/ ForgetExpiry(u)
    \/ Look(u) \/ EnterLock(u)
    \/ LoginAccepted(u) \/ LoginFails(u) \/ Store(u) \/ Take(u)
    \/ Answered(u) \/ Refused401(u) \/ RequestFails(u)

TokenNext == (\E u \in Users : Use(u)) \/ Revoke \/ TokenTick

TokenSpec == TokenInit /\ [][TokenNext]_tokenVars

-----------------------------------------------------------------------------
(* While the rail states expiries with their zone, a token that looks usable *)
(* has its margin left, between the two assignments of another thread's      *)
(* login and after a test of the connection as well: an old token never      *)
(* passes with the expiry of a new one, however that one's is stated.        *)
(* Otherwise what is parsed may lie beyond the token's deadline, and the    *)
(* next token passes with that expiry until its own is stored.              *)
(* (apps/gateway/provider.py:85)                                           *)
UsableTokensAreFresh ==
    Usable /\ 1 .. token \subseteq zoned => clock < issued[token] - Margin
=============================================================================
