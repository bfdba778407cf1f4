--------------------------- MODULE ConcurrencyGate ---------------------------
(****************************************************************************)
(* LLM calls through one RateLimitHandler (agent/rate_limit_handler.py):    *)
(* the ConcurrencyGate around each call and the retry loop around the gate. *)
(* Every query runs in a thread of its own, and the threads that use the    *)
(* same provider and model share the handler and its gate.                  *)
(*                                                                          *)
(* The gate is a semaphore with a counter of waiting callers beside it:     *)
(* two critical sections, so a caller is between them for a moment on its   *)
(* way in and on its way out.  Waiting ends with a slot or, after           *)
(* max_wait_seconds, with TimeoutError.                                     *)
(****************************************************************************)
EXTENDS Integers, FiniteSets

CONSTANTS
    Callers,     \* threads that call the model
    Limit,       \* concurrency_limit
    MaxRetries,  \* max_retries
    IsGoogle     \* the provider is "google": _call_google, else _call_generic

ASSUME ConstantsAssumption ==
    /\ IsFiniteSet(Callers)
    /\ Limit \in Nat \ {0}
    /\ MaxRetries \in Nat \ {0}
    /\ IsGoogle \in BOOLEAN

VARIABLES
    permits,       \* value of the semaphore
    waiting,       \* _waiting
    pc,
    attempt,       \* the loop variable of the retry loop
    serverAttempts \* server errors so far (_call_google)

loop == <<attempt, serverAttempts>>
vars == <<permits, waiting, pc, loop>>

PCs == {"idle", "tryAcquire", "countIn", "block", "gotSlot", "gaveUp", "call", "backoff"}

Init ==
    /\ permits = Limit
    /\ waiting = 0
    /\ pc = [c \in Callers |-> "idle"]
    /\ attempt = [c \in Callers |-> 0]
    /\ serverAttempts = [c \in Callers |-> 0]

GoTo(c, label) == pc' = [pc EXCEPT ![c] = label]

\* call_with_retry returned or raised.
End(c) ==
    /\ GoTo(c, "idle")
    /\ attempt' = [attempt EXCEPT ![c] = 0]
    /\ serverAttempts' = [serverAttempts EXCEPT ![c] = 0]

CallWithRetry(c) ==
    /\ pc[c] = "idle"
    /\ GoTo(c, "tryAcquire")
    /\ UNCHANGED <<permits, waiting, loop>>

-----------------------------------------------------------------------------
(* ConcurrencyGate.acquire and release. *)

FastPath(c) ==
    /\ pc[c] = "tryAcquire" /\ permits > 0
    /\ permits' = permits - 1
    /\ GoTo(c, "call")
    /\ UNCHANGED <<waiting, loop>>

NoFreeSlot(c) ==
    /\ pc[c] = "tryAcquire" /\ permits = 0
    /\ GoTo(c, "countIn")
    /\ UNCHANGED <<permits, waiting, loop>>

\* The counter goes up under its own lock; on_wait then reports it to the
\* stream of the query.
CountIn(c) ==
    /\ pc[c] = "countIn"
    /\ waiting' = waiting + 1
    /\ GoTo(c, "block")
    /\ UNCHANGED <<permits, loop>>

SlotFreed(c) ==
    /\ pc[c] = "block" /\ permits > 0
    /\ permits' = permits - 1
    /\ GoTo(c, "gotSlot")
    /\ UNCHANGED <<waiting, loop>>

\* threading.Semaphore looks at its value once more before it gives up.
WaitExpires(c) ==
    /\ pc[c] = "block" /\ permits = 0
    /\ GoTo(c, "gaveUp")
    /\ UNCHANGED <<permits, waiting, loop>>

\* Mutant: the counter goes down only for callers that got a slot.
CountOut_NotOnTimeout(c) ==
    \/ /\ pc[c] = "gotSlot"
       /\ GoTo(c, "call")
       /\ waiting' = waiting - 1
       /\ UNCHANGED <<permits, loop>>
    \/ /\ pc[c] = "gaveUp"
       /\ End(c)
       /\ UNCHANGED <<permits, waiting>>

\* Mutant: acquire moved into the try of _call_gated, so that its finally
\* gives back a slot that a timed-out caller never had.
CountOut_ReleaseOnTimeout(c) ==
    \/ /\ pc[c] = "gotSlot"
       /\ GoTo(c, "call")
       /\ waiting' = waiting - 1
       /\ UNCHANGED <<permits, loop>>
    \/ /\ pc[c] = "gaveUp"
       /\ End(c)
       /\ waiting' = waiting - 1
       /\ permits' = permits + 1

\* The finally of acquire, and TimeoutError for a caller that gave up, which
\* no retry loop catches.
CountOut(c) ==
    /\ waiting' = waiting - 1
    /\ \/ pc[c] = "gotSlot" /\ GoTo(c, "call") /\ UNCHANGED loop
       \/ pc[c] = "gaveUp" /\ End(c)
    /\ UNCHANGED permits

-----------------------------------------------------------------------------
(* The call itself: the slot is given back before the outcome is looked at. *)

Release == permits' = permits + 1

\* A result, or an error that is not retried: anything but rate and server
\* errors for Google, TimeoutError for the others.
CallEnds(c) ==
    /\ pc[c] = "call"
    /\ Release
    /\ End(c)
    /\ UNCHANGED waiting

\* Mutant: the slot is kept over the backoff sleep and acquired again.
CallIsRetried_KeepsSlot(c) ==
    /\ pc[c] = "call"
    /\ GoTo(c, "backoff")
    /\ UNCHANGED <<permits, waiting, loop>>

\* A rate error (Google), or any error (others): sleep, also after the last
\* attempt.
CallIsRetried(c) ==
    /\ pc[c] = "call"
    /\ Release
    /\ GoTo(c, "backoff")
    /\ UNCHANGED <<waiting, loop>>

\* A server error of Google: counted on its own, raised without a sleep when
\* every attempt ended so.
ServerError(c) ==
    /\ IsGoogle /\ pc[c] = "call"
    /\ Release
    /\ IF serverAttempts[c] + 1 >= MaxRetries
         THEN End(c)
         ELSE /\ serverAttempts' = [serverAttempts EXCEPT ![c] = @ + 1]
              /\ GoTo(c, "backoff")
              /\ UNCHANGED attempt
    /\ UNCHANGED waiting

\* Mutant: a while loop whose counter is not advanced.
Wake_NotCounted(c) ==
    /\ pc[c] = "backoff"
    /\ GoTo(c, "tryAcquire")
    /\ UNCHANGED <<permits, waiting, loop>>

\* The sleep is over: the next attempt, or the friendly error.
Wake(c) ==
    /\ pc[c] = "backoff"
    /\ IF attempt[c] + 1 < MaxRetries
         THEN /\ attempt' = [attempt EXCEPT ![c] = @ + 1]
              /\ GoTo(c, "tryAcquire")
              /\ UNCHANGED serverAttempts
         ELSE End(c)
    /\ UNCHANGED <<permits, waiting>>

-----------------------------------------------------------------------------

Acquire(c) ==
    \/ FastPath(c) \/ NoFreeSlot(c) \/ CountIn(c)
    \/ SlotFreed(c) \/ WaitExpires(c) \/ CountOut(c)

Attempt(c) == CallEnds(c) \/ CallIsRetried(c) \/ ServerError(c) \/ Wake(c)

Step(c) == Acquire(c) \/ Attempt(c)

Next == \E c \in Callers : CallWithRetry(c) \/ Step(c)

Spec == Init /\ [][Next]_vars

-----------------------------------------------------------------------------
(* Properties. *)

TypeOK ==
    /\ permits \in 0..Limit
    /\ waiting \in Nat
    /\ pc \in [Callers -> PCs]
    /\ attempt \in [Callers -> 0..(MaxRetries - 1)]
    /\ serverAttempts \in [Callers -> 0..(MaxRetries - 1)]

\* Who holds a slot, and who the counter stands for.
Holders == {c \in Callers : pc[c] \in {"gotSlot", "call"}}
Waiters == {c \in Callers : pc[c] \in {"block", "gotSlot", "gaveUp"}}

\* No slot is lost and none is made up: on every path out of a call (result,
\* retry, error, timeout in the queue) exactly the slots taken are given back.
SlotAccounting == permits + Cardinality(Holders) = Limit

\* waiting_count, which "N requests ahead of you" and the status page show,
\* is the number of callers in the queue, also when waits time out.
WaitingIsExact == waiting = Cardinality(Waiters)

\* The gate gives what a limit promises.
Abstract == INSTANCE Slots WITH inside <- Holders
ImplementsSlots == Abstract!Spec
=============================================================================
