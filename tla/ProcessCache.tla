---------------------------- MODULE ProcessCache ----------------------------
(* Entries of Django's cache, which each server process keeps in its own    *)
(* memory (no CACHES setting) and its threads share.  An entry is a value    *)
(* and the seconds it has left; it vanishes when they have run out.          *)
EXTENDS Integers

CONSTANT Vacant    \* no value

Absent == [val |-> Vacant, left |-> 0]

Held(entry) == entry.left # 0

Put(val, timeout) == [val |-> val, left |-> timeout]

(* A second passes.                                                        *)
Aged(entry) ==
    IF entry.left = 1 THEN Absent
    ELSE [entry EXCEPT !.left = IF @ > 0 THEN @ - 1 ELSE @]

(* cache.incr of a counter that is only compared with top: it keeps the     *)
(* time the counter has left.                                              *)
Bumped(entry, top) ==
    [entry EXCEPT !.val = IF @ < top THEN @ + 1 ELSE top]

(* History: the ages of the last n events, the newest first; an age is      *)
(* followed up to the window in which an event counts.  One more event      *)
(* happens; and a second passes.                                           *)
OneMore(ages, n) == [i \in 1..n |-> IF i = 1 THEN 0 ELSE ages[i - 1]]

Older(ages, window) ==
    [i \in DOMAIN ages |-> IF ages[i] < window THEN ages[i] + 1 ELSE window]

(* What remains of a deadline, cut off to whole seconds.                   *)
WholeSeconds(entry) == entry.left - 1
=============================================================================
