--------------------------- MODULE CircuitBreaker ---------------------------
(* CircuitBreakerMiddleware: one payment endpoint in one server process.    *)
(* What the layers below answer is left open.  The failures counted since    *)
(* the last success are remembered, to say when the breaker may open.       *)
EXTENDS ProcessCache

CONSTANTS
    BreakerThreads,     \* the threads that serve the endpoint
    FailureThreshold,   \* failure_threshold
    FailureWindow,      \* failure_window_seconds
    OpenTime,           \* open_seconds
    HalfOpenTime        \* half_open_seconds

ASSUME BreakerAssumption ==
    /\ FailureThreshold \in Nat \ {0} /\ FailureWindow \in Nat \ {0}
    /\ OpenTime \in Nat \ {0} /\ HalfOpenTime \in Nat \ {0}

VARIABLES
    circuit,    \* cache entry: the circuit's state
    openedAt,   \* cache entry: when the circuit was opened
    failures,   \* cache entry: the number of failures
    serving,    \* what each thread does next
    recent      \* history: the ages of the last failures, the newest first

breakerVars == <<circuit, openedAt, failures, serving, recent>>
breakerCache == <<circuit, openedAt, failures>>

(* No failure since the last success that is younger than the window.       *)
NoFailure == [i \in 1..FailureThreshold |-> FailureWindow]

BreakerInit ==
    /\ circuit = Absent /\ openedAt = Absent /\ failures = Absent
    /\ serving = [t \in BreakerThreads |-> "idle"]
    /\ recent = NoFailure

CircuitState == IF Held(circuit) THEN circuit.val ELSE "closed"

Goes(t, from, to) ==
    /\ serving[t] = from
    /\ serving' = [serving EXCEPT ![t] = to]

-----------------------------------------------------------------------------
(* Before the request is handled.                                          *)

ReadCircuit(t) ==
    /\ Goes(t, "idle", IF CircuitState = "open" THEN "refuse" ELSE "view")
    /\ UNCHANGED <<breakerCache, recent>>

(* Without the time of opening the circuit counts as opened just now.       *)
StillOpen == ~Held(openedAt) \/ WholeSeconds(openedAt) > 0

Refuse(t) ==
    /\ Goes(t, "refuse", IF StillOpen THEN "idle" ELSE "probe")
    /\ UNCHANGED <<breakerCache, recent>>

HalfOpen(t) ==
    /\ Goes(t, "probe", "view")
    /\ circuit' = Put("half-open", HalfOpenTime)
    /\ UNCHANGED <<openedAt, failures, recent>>

-----------------------------------------------------------------------------
(* After it: _record_result reads the state, then looks at the answer.      *)

Fails(t) ==
    /\ Goes(t, "view", "failed")
    /\ UNCHANGED <<breakerCache, recent>>

Succeeds(t) ==
    /\ Goes(t, "view", IF CircuitState = "half-open" THEN "close" ELSE "clear")
    /\ UNCHANGED <<breakerCache, recent>>

Counted(n) == IF n >= FailureThreshold THEN "open" ELSE "idle"

CountFailure(t) ==
    /\ Held(failures)
    /\ failures' = Bumped(failures, FailureThreshold)
    /\ Goes(t, "failed", Counted(failures'.val))
    /\ recent' = OneMore(recent, FailureThreshold)
    /\ UNCHANGED <<circuit, openedAt>>

(* No counter: incr fails, and the thread starts one afterwards.            *)
NoCounter(t) ==
    /\ ~Held(failures)
    /\ Goes(t, "failed", "start")
    /\ UNCHANGED <<breakerCache, recent>>

StartCounter(t) ==
    /\ failures' = Put(1, FailureWindow)
    /\ Goes(t, "start", Counted(1))
    /\ recent' = OneMore(recent, FailureThreshold)
    /\ UNCHANGED <<circuit, openedAt>>

(* Mutant: the state is stored without a timeout.                          *)
OpenForGood == Put("open", -1)

OpenEntry == Put("open", OpenTime)

Open(t) ==
    /\ Goes(t, "open", "stamp")
    /\ circuit' = OpenEntry
    /\ UNCHANGED <<openedAt, failures, recent>>

Stamp(t) ==
    /\ Goes(t, "stamp", "idle")
    /\ openedAt' = Put(0, OpenTime)
    /\ UNCHANGED <<circuit, failures, recent>>

Close(t) ==
    /\ Goes(t, "close", "clear")
    /\ circuit' = Put("closed", OpenTime)
    /\ UNCHANGED <<openedAt, failures, recent>>

(* Mutant: a success leaves the counter as it is.                          *)
KeptFailures == failures

AfterSuccess == Absent

Clear(t) ==
    /\ Goes(t, "clear", "idle")
    /\ failures' = AfterSuccess
    /\ recent' = NoFailure
    /\ UNCHANGED <<circuit, openedAt>>

BreakerTick ==
    /\ circuit' = Aged(circuit)
    /\ openedAt' = Aged(openedAt)
    /\ failures' = Aged(failures)
    /\ recent' = Older(recent, FailureWindow)
    /\ UNCHANGED serving

Serve(t) ==
    \/ ReadCircuit(t) \/ Refuse(t) \/ HalfOpen(t)
    \/ Fails(t) \/ Succeeds(t)
    \/ CountFailure(t) \/ NoCounter(t) \/ StartCounter(t)
    \/ Open(t) \/ Stamp(t) \/ Close(t) \/ Clear(t)

BreakerNext == (\E t \in BreakerThreads : Serve(t)) \/ BreakerTick

(* Only time is sure to pass: no request has to come, or to end.            *)
BreakerSpec ==
    BreakerInit /\ [][BreakerNext]_breakerVars /\ WF_breakerVars(BreakerTick)

-----------------------------------------------------------------------------
(* The breaker decides to open only when as many failures as the threshold  *)
(* says were counted within the window and since the last success, however   *)
(* the threads' cache operations interleave with each other and with expiry. *)
(* (apps/security/middleware.py:140)                                       *)
BreakerHasCause ==
    [][\A t \in BreakerThreads :
           serving[t] # "open" /\ serving'[t] = "open"
               => recent'[FailureThreshold] < FailureWindow]_breakerVars

(* An open endpoint is given back, also when no request ever comes to       *)
(* probe it or every request that comes fails.                             *)
(* (apps/security/middleware.py:143)                                       *)
BreakerRecovers == []<>(CircuitState # "open")
=============================================================================
