---------------------------- MODULE RateLimiter -----------------------------
(* The limit on an address's requests to one endpoint in one server process *)
(* (RateLimitMiddleware), and the blocked addresses in the database, which   *)
(* SecurityTrackingMiddleware looks up first and the staff edit.            *)
EXTENDS ProcessCache

CONSTANTS
    Clients,        \* the threads that serve the address
    RateLimit,      \* requests per window
    RateWindow,     \* 60 seconds
    BlockTime       \* block_durations of the endpoint

ASSUME RateAssumption ==
    /\ RateLimit \in Nat \ {0} /\ RateWindow \in Nat \ {0}
    /\ BlockTime \in Nat \ {0}

VARIABLES
    requests,   \* cache entry: the address's requests in this window
    banned,     \* cache entry: security:rate:block of the address
    blocked,    \* BlockedIP: [by, active, left], left = -1 for ever
    handling,   \* what each thread does next
    arrivals    \* history: the ages of the last requests counted, newest first

rateVars == <<requests, banned, blocked, handling, arrivals>>
rateCache == <<requests, banned>>

NoRow == [by |-> Vacant, active |-> FALSE, left |-> 0]

RateInit ==
    /\ requests = Absent /\ banned = Absent
    /\ blocked = NoRow
    /\ handling = [t \in Clients |-> "idle"]
    /\ arrivals = [i \in 1 .. RateLimit + 1 |-> RateWindow]

Moves(t, from, to) ==
    /\ handling[t] = from
    /\ handling' = [handling EXCEPT ![t] = to]

-----------------------------------------------------------------------------
(* A blocked address: no expiry is permanent.                              *)
IsBlocked == blocked.active /\ blocked.left # 0

LookUp(t) ==
    /\ ~IsBlocked
    /\ Moves(t, "idle", "banned?")
    /\ UNCHANGED <<rateCache, blocked, arrivals>>

CheckBan(t) ==
    /\ Moves(t, "banned?",
             IF Held(banned) /\ WholeSeconds(banned) > 0 THEN "idle" ELSE "count")
    /\ UNCHANGED <<rateCache, blocked, arrivals>>

-----------------------------------------------------------------------------
(* The count; the request is let through up to the limit.                   *)

(* Mutant: the limit itself is too much.                                   *)
VerdictEarly(n) == IF n >= RateLimit THEN "ban" ELSE "idle"

Verdict(n) == IF n > RateLimit THEN "ban" ELSE "idle"

CountRequest(t) ==
    /\ Held(requests)
    /\ requests' = Bumped(requests, RateLimit + 1)
    /\ Moves(t, "count", Verdict(requests'.val))
    /\ arrivals' = OneMore(arrivals, RateLimit + 1)
    /\ UNCHANGED <<banned, blocked>>

NoCount(t) ==
    /\ ~Held(requests)
    /\ Moves(t, "count", "first")
    /\ UNCHANGED <<rateCache, blocked, arrivals>>

FirstRequest(t) ==
    /\ requests' = Put(1, RateWindow)
    /\ Moves(t, "first", Verdict(1))
    /\ arrivals' = OneMore(arrivals, RateLimit + 1)
    /\ UNCHANGED <<banned, blocked>>

(* Over the limit: the cache is told first, then the database.             *)
Ban(t) ==
    /\ Moves(t, "ban", "record")
    /\ banned' = Put(0, BlockTime)
    /\ UNCHANGED <<requests, blocked, arrivals>>

(* update_or_create: whatever row there is becomes a temporary block.      *)
RecordBlock(t) ==
    /\ Moves(t, "record", "idle")
    /\ blocked' = [by |-> "rate-limit", active |-> TRUE, left |-> BlockTime]
    /\ UNCHANGED <<rateCache, arrivals>>

(* The database fails: the block is in the cache only.                     *)
BlockUnrecorded(t) ==
    /\ Moves(t, "record", "idle")
    /\ UNCHANGED <<rateCache, blocked, arrivals>>

-----------------------------------------------------------------------------
(* The staff.                                                              *)

StaffBlocks ==
    /\ blocked' = [by |-> "staff", active |-> TRUE, left |-> -1]
    /\ UNCHANGED <<rateCache, handling, arrivals>>

StaffUnblocks ==
    /\ blocked # NoRow
    /\ blocked' = [blocked EXCEPT !.active = FALSE]
    /\ UNCHANGED <<rateCache, handling, arrivals>>

RateTick ==
    /\ requests' = Aged(requests)
    /\ banned' = Aged(banned)
    /\ blocked' = [blocked EXCEPT !.left = IF @ > 0 THEN @ - 1 ELSE @]
    /\ arrivals' = Older(arrivals, RateWindow)
    /\ UNCHANGED handling

Handle(t) ==
    \/ LookUp(t) \/ CheckBan(t)
    \/ CountRequest(t) \/ NoCount(t) \/ FirstRequest(t)
    \/ Ban(t) \/ RecordBlock(t) \/ BlockUnrecorded(t)

RateNext ==
    (\E t \in Clients : Handle(t)) \/ StaffBlocks \/ StaffUnblocks \/ RateTick

RateSpec == RateInit /\ [][RateNext]_rateVars

-----------------------------------------------------------------------------
(* An address is banned only when it sent more requests than the limit      *)
(* within the window, however its requests race with each other, with the   *)
(* end of the window and with a counter that two of them start.             *)
(* (apps/security/middleware.py:176)                                       *)
BansHaveCause ==
    [][\A t \in Clients :
           handling[t] # "ban" /\ handling'[t] = "ban"
               => arrivals'[RateLimit + 1] < RateWindow]_rateVars

(* apps/security/middleware.py:355: "expires_at is null -> permanent": a    *)
(* block the staff set stays until the staff lift it.                      *)
StaffBlocksStay ==
    [][IsBlocked /\ blocked.by = "staff" => blocked' = blocked \/ ~blocked'.active]_rateVars
=============================================================================
