--------------------------------- MODULE Quota ---------------------------------
(******************************************************************************)
(* The quota windows of a RateLimitHandler (agent/rate_limit_handler.py) in   *)
(* front of its gate: _wait_if_needed before an attempt, _record_request      *)
(* after a call that succeeded.  Neither takes a lock, and between the two    *)
(* the caller may wait in the gate's queue.                                   *)
(*                                                                            *)
(* A request leaves the minute window at some time after it came in; a caller *)
(* that has to wait sleeps and looks again, so it passes when the limits let  *)
(* it.  The day's count is never taken back while the process lives.          *)
(******************************************************************************)
EXTENDS ConcurrencyGate

CONSTANTS
    Quotas,     \* settings: [rpm, tpm, rpd], 0 for none
    Tokens,     \* estimated_tokens of a call
    MaxCalls    \* bound: calls of a handler that has limits

VARIABLES
    limits,     \* rpm_limit, tpm_limit, rpd_limit
    cleared,    \* callers whose _wait_if_needed has returned, for this attempt
    recording,  \* callers that have a result and have not recorded it
    minute, day, \* recorded requests: in the window, of the day
    calls       \* calls so far, where MaxCalls bounds them

quota == <<limits, cleared, recording, minute, day, calls>>
qvars == <<vars, quota>>

ASSUME QuotaAssumption ==
    /\ Quotas \subseteq [{"rpm", "tpm", "rpd"} -> Nat]
    /\ Tokens \in Nat \ {0} /\ MaxCalls \in Nat

\* int(limit * safety_margin): a limit of 1 becomes 0, which is no limit.
SafetyMargin(limit) == (limit * 8) \div 10

QInit ==
    /\ Init
    /\ \E q \in Quotas : limits = [l \in DOMAIN q |-> SafetyMargin(q[l])]
    /\ cleared = {} /\ recording = {}
    /\ minute = 0 /\ day = 0 /\ calls = 0

Limited == \E l \in DOMAIN limits : limits[l] # 0

-----------------------------------------------------------------------------
Start(c) ==
    /\ c \notin recording
    /\ CallWithRetry(c)
    /\ IF Limited THEN calls < MaxCalls /\ calls' = calls + 1 ELSE UNCHANGED calls
    /\ UNCHANGED <<limits, cleared, recording, minute, day>>

DayFull == limits.rpd # 0 /\ day >= limits.rpd

\* Mutant: the window is full only when it is over the limit.
MinuteFull_OffByOne ==
    \/ limits.rpm # 0 /\ minute > limits.rpm
    \/ limits.tpm # 0 /\ (minute + 1) * Tokens > limits.tpm /\ minute > 0

MinuteFull ==
    \/ limits.rpm # 0 /\ minute >= limits.rpm
    \/ limits.tpm # 0 /\ (minute + 1) * Tokens >= limits.tpm /\ minute > 0

WaitIfNeeded(c) ==
    /\ pc[c] = "tryAcquire" /\ c \notin cleared
    /\ ~DayFull /\ ~MinuteFull
    /\ cleared' = cleared \cup {c}
    /\ UNCHANGED <<vars, limits, recording, minute, day, calls>>

\* The gate, for callers that may go on.
Gated(c) ==
    /\ pc[c] = "tryAcquire" => c \in cleared
    /\ Acquire(c)
    /\ cleared' = IF pc[c] = "gaveUp" THEN cleared \ {c} ELSE cleared
    /\ UNCHANGED <<limits, recording, minute, day, calls>>

\* A result is recorded after its slot is given back; an error never is.
CallReturns(c) ==
    /\ CallEnds(c)
    /\ cleared' = cleared \ {c}
    /\ recording' = recording \cup {c}
    /\ UNCHANGED <<limits, minute, day, calls>>

CallFails(c) ==
    /\ CallEnds(c) \/ CallIsRetried(c) \/ ServerError(c)
    /\ cleared' = cleared \ {c}
    /\ UNCHANGED <<limits, recording, minute, day, calls>>

SleepEnds(c) == Wake(c) /\ UNCHANGED quota

RecordRequest(c) ==
    /\ c \in recording
    /\ recording' = recording \ {c}
    /\ IF Limited THEN minute' = minute + 1 /\ day' = day + 1 ELSE UNCHANGED <<minute, day>>
    /\ UNCHANGED <<vars, limits, cleared, calls>>

\* _cleanup_windows, a minute after the oldest request.
CleanupWindows ==
    /\ minute > 0
    /\ minute' = minute - 1
    /\ UNCHANGED <<vars, limits, cleared, recording, day, calls>>

QStep(c) ==
    \/ WaitIfNeeded(c) \/ Gated(c) \/ CallReturns(c) \/ CallFails(c)
    \/ SleepEnds(c) \/ RecordRequest(c)

QNext == CleanupWindows \/ \E c \in Callers : Start(c) \/ QStep(c)

\* The time passes and the threads run; nobody has to start a call.
QSpec ==
    /\ QInit /\ [][QNext]_qvars
    /\ WF_qvars(CleanupWindows)
    /\ \A c \in Callers : WF_qvars(QStep(c))

-----------------------------------------------------------------------------
\* The check and the record are apart, and the limit is overrun; but by no more
\* than the callers there are, also when they waited in the gate's queue
\* between the two, retried, or gave up (rate_limit_handler.py:479-531, 649-655).
OvershootBounded ==
    /\ limits.rpm # 0 => minute < limits.rpm + Cardinality(Callers)
    /\ limits.tpm # 0 =>
         \/ minute <= Cardinality(Callers)
         \/ minute * Tokens < limits.tpm + (Cardinality(Callers) - 1) * Tokens

\* Every call ends with a result or an error, or waits for the next day: the
\* minute window, the queue, the retries and the sleeps are all bounded, however
\* the callers overtake each other.
CallsEnd == \A c \in Callers : pc[c] # "idle" ~> pc[c] = "idle" \/ DayFull
===============================================================================
