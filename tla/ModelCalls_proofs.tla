--------------------------- MODULE ModelCalls_proofs ---------------------------
(***************************************************************************)
(* Proofs about the calls of the model: ConcurrencyGate and Quota for any  *)
(* number of callers, any limits and any number of retries, and AgentPool, *)
(* which takes the gate for what it is proved to be, for any number of     *)
(* queries, workspaces, models, agents, caps and changes.                  *)
(*                                                                         *)
(* The gate accounts for its slots and implements the abstract one, the    *)
(* quota windows leave it as it was proved, and the callers together       *)
(* overrun a limit by less than their number.  A query runs on its model,  *)
(* with settings no older than itself (both while no setting changes under *)
(* an agent that is being built), and the cap of a model holds across all  *)
(* agents.                                                                 *)
(***************************************************************************)
EXTENDS AgentPool, Quota, TLAPS, FiniteSetTheorems

-----------------------------------------------------------------------------
(* The gate. *)

\* The strengthening: types, and both counters tied to the callers they count.
GateInv ==
    /\ TypeOK
    /\ SlotAccounting
    /\ WaitingIsExact

\* Counting a caller in or out of a set of callers.
LEMMA OneMore ==
    ASSUME NEW S, IsFiniteSet(S), NEW c, c \notin S
    PROVE  IsFiniteSet(S \cup {c}) /\ Cardinality(S \cup {c}) = Cardinality(S) + 1
BY FS_AddElement

LEMMA OneLess ==
    ASSUME NEW S, IsFiniteSet(S), NEW c \in S
    PROVE  /\ IsFiniteSet(S \ {c})
           /\ Cardinality(S \ {c}) = Cardinality(S) - 1
           /\ Cardinality(S) > 0
<1>1. Cardinality(S \ {c}) = Cardinality(S) - 1
  BY FS_RemoveElement
<1>2. IsFiniteSet(S \ {c}) /\ Cardinality(S) \in Nat
  BY FS_RemoveElement, FS_CardinalityType
<1>3. Cardinality(S \ {c}) \in Nat
  BY <1>2, FS_CardinalityType
<1>4. QED
  BY <1>1, <1>2, <1>3

LEMMA Counts ==
    /\ IsFiniteSet(Holders) /\ Cardinality(Holders) \in Nat
    /\ IsFiniteSet(Waiters) /\ Cardinality(Waiters) \in Nat
<1>1. Holders \subseteq Callers /\ Waiters \subseteq Callers
  BY DEF Holders, Waiters
<1>2. QED
  BY <1>1, ConstantsAssumption, FS_Subset, FS_CardinalityType

LEMMA GateInit == Init => GateInv
<1> SUFFICES ASSUME Init PROVE GateInv
  OBVIOUS
<1>1. Holders = {} /\ Waiters = {}
  BY DEF Init, Holders, Waiters
<1>2. Cardinality({}) = 0
  BY FS_EmptySet
<1>3. TypeOK
  BY ConstantsAssumption DEF Init, TypeOK, PCs
<1>4. QED
  BY <1>1, <1>2, <1>3, ConstantsAssumption DEF Init, GateInv, SlotAccounting, WaitingIsExact

\* How a step moves its caller between the two sets.
LEMMA StepOfCaller ==
    ASSUME GateInv, NEW c \in Callers, CallWithRetry(c) \/ Step(c)
    PROVE  /\ pc' = [pc EXCEPT ![c] = pc'[c]]
           /\ pc'[c] \in PCs
           /\ attempt' \in [Callers -> 0..(MaxRetries - 1)]
           /\ serverAttempts' \in [Callers -> 0..(MaxRetries - 1)]
<1> USE DEF GateInv, TypeOK, GoTo, PCs, loop
<1>0. 0 \in 0..(MaxRetries - 1)
  BY ConstantsAssumption
<1>1. CASE CallWithRetry(c)
  BY <1>1 DEF CallWithRetry
<1>2. CASE FastPath(c) \/ NoFreeSlot(c) \/ CountIn(c) \/ SlotFreed(c) \/ WaitExpires(c)
  BY <1>2 DEF FastPath, NoFreeSlot, CountIn, SlotFreed, WaitExpires
<1>3. CASE CountOut(c)
  BY <1>0, <1>3 DEF CountOut, End
<1>4. CASE CallEnds(c) \/ CallIsRetried(c)
  BY <1>0, <1>4 DEF CallEnds, CallIsRetried, End
<1>5. CASE ServerError(c)
  BY <1>0, <1>5, ConstantsAssumption DEF ServerError, End
<1>6. CASE Wake(c)
  BY <1>0, <1>6, ConstantsAssumption DEF Wake, End
<1>7. QED
  BY <1>1, <1>2, <1>3, <1>4, <1>5, <1>6 DEF Step, Acquire, Attempt

\* A slot is taken and given back together with the permit.
LEMMA HoldersStep ==
    ASSUME GateInv, NEW c \in Callers, CallWithRetry(c) \/ Step(c)
    PROVE  \/ c \notin Holders /\ Holders' = Holders \cup {c} /\ permits' = permits - 1 /\ permits > 0
           \/ c \in Holders /\ Holders' = Holders \ {c} /\ permits' = permits + 1
           \/ Holders' = Holders /\ permits' = permits
<1>1. pc \in [Callers -> PCs] /\ pc' = [pc EXCEPT ![c] = pc'[c]]
  BY StepOfCaller DEF GateInv, TypeOK
<1>2. CASE CallWithRetry(c) \/ NoFreeSlot(c) \/ CountIn(c) \/ WaitExpires(c) \/ CountOut(c) \/ Wake(c)
  BY <1>1, <1>2
  DEF Holders, GoTo, End, CallWithRetry, NoFreeSlot, CountIn, WaitExpires, CountOut, Wake
<1>3. CASE FastPath(c) \/ SlotFreed(c)
  BY <1>1, <1>3 DEF Holders, GoTo, FastPath, SlotFreed
<1>4. CASE CallEnds(c) \/ CallIsRetried(c) \/ ServerError(c)
  BY <1>1, <1>4 DEF Holders, GoTo, End, Release, CallEnds, CallIsRetried, ServerError
<1>5. QED
  BY <1>2, <1>3, <1>4 DEF Step, Acquire, Attempt

\* So is a place in the queue with the counter.
LEMMA WaitersStep ==
    ASSUME GateInv, NEW c \in Callers, CallWithRetry(c) \/ Step(c)
    PROVE  \/ c \notin Waiters /\ Waiters' = Waiters \cup {c} /\ waiting' = waiting + 1
           \/ c \in Waiters /\ Waiters' = Waiters \ {c} /\ waiting' = waiting - 1
           \/ Waiters' = Waiters /\ waiting' = waiting
<1>1. pc \in [Callers -> PCs] /\ pc' = [pc EXCEPT ![c] = pc'[c]]
  BY StepOfCaller DEF GateInv, TypeOK
<1>2. CASE CountIn(c)
  BY <1>1, <1>2 DEF Waiters, GoTo, CountIn
<1>3. CASE CountOut(c)
  BY <1>1, <1>3 DEF Waiters, GoTo, End, CountOut
<1>4. CASE \/ CallWithRetry(c) \/ FastPath(c) \/ NoFreeSlot(c) \/ SlotFreed(c) \/ WaitExpires(c)
           \/ CallEnds(c) \/ CallIsRetried(c) \/ ServerError(c) \/ Wake(c)
  BY <1>1, <1>4
  DEF Waiters, GoTo, End, CallWithRetry, FastPath, NoFreeSlot, SlotFreed, WaitExpires,
      CallEnds, CallIsRetried, ServerError, Wake
<1>5. QED
  BY <1>2, <1>3, <1>4 DEF Step, Acquire, Attempt

LEMMA GateStep == GateInv /\ [Next]_vars => GateInv'
<1> SUFFICES ASSUME GateInv, [Next]_vars PROVE GateInv'
  OBVIOUS
<1>1. ASSUME NEW c \in Callers, CallWithRetry(c) \/ Step(c) PROVE GateInv'
  <2>1. /\ permits \in 0..Limit /\ permits + Cardinality(Holders) = Limit
        /\ waiting = Cardinality(Waiters) /\ Limit \in Nat
    BY ConstantsAssumption DEF GateInv, TypeOK, SlotAccounting, WaitingIsExact
  <2>2. SlotAccounting' /\ permits' \in 0..Limit
    <3>1. CASE c \notin Holders /\ Holders' = Holders \cup {c} /\ permits' = permits - 1 /\ permits > 0
      <4>1. Cardinality(Holders') = Cardinality(Holders) + 1
        BY <3>1, Counts, OneMore
      <4>2. QED
        BY <2>1, <3>1, <4>1, Counts DEF SlotAccounting
    <3>2. CASE c \in Holders /\ Holders' = Holders \ {c} /\ permits' = permits + 1
      <4>1. Cardinality(Holders') = Cardinality(Holders) - 1 /\ Cardinality(Holders) > 0
        BY <3>2, Counts, OneLess
      <4>2. QED
        BY <2>1, <3>2, <4>1, Counts DEF SlotAccounting
    <3>3. CASE Holders' = Holders /\ permits' = permits
      BY <2>1, <3>3 DEF SlotAccounting
    <3>4. QED
      BY <1>1, <3>1, <3>2, <3>3, HoldersStep
  <2>3. WaitingIsExact' /\ waiting' \in Nat
    <3>1. CASE c \notin Waiters /\ Waiters' = Waiters \cup {c} /\ waiting' = waiting + 1
      <4>1. Cardinality(Waiters') = Cardinality(Waiters) + 1
        BY <3>1, Counts, OneMore
      <4>2. QED
        BY <2>1, <3>1, <4>1, Counts DEF WaitingIsExact
    <3>2. CASE c \in Waiters /\ Waiters' = Waiters \ {c} /\ waiting' = waiting - 1
      <4>1. Cardinality(Waiters') = Cardinality(Waiters) - 1 /\ Cardinality(Waiters) > 0
        BY <3>2, Counts, OneLess
      <4>2. QED
        BY <2>1, <3>2, <4>1, Counts DEF WaitingIsExact
    <3>3. CASE Waiters' = Waiters /\ waiting' = waiting
      BY <2>1, <3>3, Counts DEF WaitingIsExact
    <3>4. QED
      BY <1>1, <3>1, <3>2, <3>3, WaitersStep
  <2>4. TypeOK'
    BY <1>1, <2>2, <2>3, StepOfCaller DEF GateInv, TypeOK
  <2>5. QED
    BY <2>2, <2>3, <2>4 DEF GateInv
<1>2. CASE UNCHANGED vars
  BY <1>2 DEF vars, loop, GateInv, TypeOK, SlotAccounting, WaitingIsExact, Holders, Waiters
<1>3. QED
  BY <1>1, <1>2 DEF Next

THEOREM GateInvariant == Spec => []GateInv
BY GateInit, GateStep, PTL DEF Spec

\* Every slot that is taken is given back exactly once, whatever the call and
\* the queue come to.
THEOREM SlotsAreAccountedFor == Spec => []SlotAccounting
<1>1. GateInv => SlotAccounting
  BY DEF GateInv
<1>2. QED
  BY <1>1, GateInvariant, PTL

\* The reported queue length is the number of callers in the queue.
THEOREM QueueLengthIsExact == Spec => []WaitingIsExact
<1>1. GateInv => WaitingIsExact
  BY DEF GateInv
<1>2. QED
  BY <1>1, GateInvariant, PTL

\* The cardinality that Slots speaks of is the same operator.
LEMMA SameCardinality == \A S : Abstract!Cardinality(S) = Cardinality(S)
BY DEF Abstract!Cardinality, Cardinality

\* The gate implements the limit: a step of a caller enters, leaves or
\* stutters, and enters only below the limit.
THEOREM GateImplementsSlots == Spec => ImplementsSlots
<1>1. Init => Abstract!Init
  BY DEF Init, Abstract!Init, Holders
<1>2. GateInv /\ [Next]_vars => [Abstract!Next]_Holders
  <2> SUFFICES ASSUME GateInv, [Next]_vars PROVE [Abstract!Next]_Holders
    OBVIOUS
  <2>1. ASSUME NEW c \in Callers, CallWithRetry(c) \/ Step(c) PROVE [Abstract!Next]_Holders
    <3>1. CASE c \notin Holders /\ Holders' = Holders \cup {c} /\ permits' = permits - 1 /\ permits > 0
      <4>1. Cardinality(Holders) < Limit
        BY <3>1, Counts, ConstantsAssumption DEF GateInv, TypeOK, SlotAccounting
      <4>2. QED
        BY <3>1, <4>1, SameCardinality DEF Abstract!Next, Abstract!Enter
    <3>2. CASE c \in Holders /\ Holders' = Holders \ {c} /\ permits' = permits + 1
      BY <3>2 DEF Abstract!Next, Abstract!Leave
    <3>3. CASE Holders' = Holders /\ permits' = permits
      BY <3>3
    <3>4. QED
      BY <2>1, <3>1, <3>2, <3>3, HoldersStep
  <2>2. CASE UNCHANGED vars
    BY <2>2 DEF vars, Holders
  <2>3. QED
    BY <2>1, <2>2 DEF Next
<1>3. QED
  BY <1>1, <1>2, GateInvariant, PTL DEF Spec, ImplementsSlots, Abstract!Spec

-----------------------------------------------------------------------------
(* The quota windows in front of it. *)

\* Callers that have passed the check of the windows and not yet recorded a
\* request: each is one more request at the most.
Pending == cleared \cup recording

N == Cardinality(Callers)

QuotaTypeOK ==
    /\ limits \in [{"rpm", "tpm", "rpd"} -> Nat]
    /\ minute \in Nat
    /\ pc \in [Callers -> PCs]

\* Who has passed the check: nobody who is idle or sleeps before a retry, and
\* everybody at the gate.
ClearedAtGate ==
    /\ cleared \subseteq {c \in Callers : pc[c] \notin {"idle", "backoff"}}
    /\ \A c \in Callers : pc[c] \notin {"idle", "backoff", "tryAcquire"} => c \in cleared
    /\ recording \subseteq {c \in Callers : pc[c] = "idle"}

\* The requests counted and those still to be counted, against the limits.
\* The check looks only at the first, so the property itself is not inductive.
Bounded(total) ==
    /\ limits.rpm # 0 => total < limits.rpm + N
    /\ limits.tpm # 0 => \/ total <= N
                         \/ total * Tokens < limits.tpm + (N - 1) * Tokens

QuotaInv ==
    /\ QuotaTypeOK
    /\ ClearedAtGate
    /\ Bounded(minute + Cardinality(Pending))

LEMMA CallersCounted == N \in Nat
BY ConstantsAssumption, FS_CardinalityType DEF N

LEMMA SetsCounted ==
    ASSUME NEW S, S \subseteq Callers
    PROVE  IsFiniteSet(S) /\ Cardinality(S) \in Nat /\ Cardinality(S) <= N
BY ConstantsAssumption, FS_Subset, FS_CardinalityType DEF N

LEMMA TimesIsMonotonic ==
    ASSUME NEW a \in Nat, NEW b \in Nat, a <= b, NEW t \in Nat
    PROVE  a * t \in Nat /\ b * t \in Nat /\ a * t <= b * t
<1>1. PICK d \in Nat : b = a + d
  BY b - a \in Nat, b = a + (b - a)
<1>2. b * t = a * t + d * t
  BY <1>1
<1>3. a * t \in Nat /\ d * t \in Nat
  BY <1>1
<1>4. QED
  BY <1>2, <1>3

\* Fewer requests are bounded as well.
LEMMA BoundedBelow ==
    ASSUME QuotaTypeOK, NEW a \in Nat, NEW b \in Nat, a <= b, Bounded(b)
    PROVE  Bounded(a)
<1>1. a * Tokens \in Nat /\ b * Tokens \in Nat /\ a * Tokens <= b * Tokens
  BY TimesIsMonotonic, QuotaAssumption
<1>2. (N - 1) * Tokens \in Int /\ N \in Nat
  BY CallersCounted, QuotaAssumption
<1>3. limits.rpm \in Nat /\ limits.tpm \in Nat
  BY DEF QuotaTypeOK
<1>4. QED
  BY <1>1, <1>2, <1>3 DEF Bounded

\* What the check of the windows promises: whoever passes it leaves room for
\* all the others to have passed it too.
LEMMA ClearedIsBounded ==
    ASSUME QuotaTypeOK, ~MinuteFull, NEW k \in Nat, k <= N
    PROVE  Bounded(minute + k)
<1>0. /\ limits.rpm \in Nat /\ limits.tpm \in Nat /\ minute \in Nat /\ N \in Nat
      /\ Tokens \in Nat
  BY CallersCounted, QuotaAssumption DEF QuotaTypeOK
<1>1. limits.rpm # 0 => minute + k < limits.rpm + N
  BY <1>0 DEF MinuteFull
<1>2. CASE minute = 0
  BY <1>0, <1>1, <1>2 DEF Bounded
<1>3. CASE limits.tpm # 0 /\ minute > 0
  <2>1. (minute + 1) * Tokens < limits.tpm
    <3>1. (minute + 1) * Tokens \in Nat
      BY <1>0
    <3>2. QED
      BY <1>0, <1>3, <3>1 DEF MinuteFull
  <2>2. (minute + k) * Tokens <= (minute + N) * Tokens
    BY <1>0, TimesIsMonotonic
  <2>3. (minute + N) * Tokens = (minute + 1) * Tokens + (N - 1) * Tokens
    BY <1>0
  <2>4. /\ (minute + k) * Tokens \in Int /\ (minute + N) * Tokens \in Int
        /\ (minute + 1) * Tokens \in Int /\ (N - 1) * Tokens \in Int
    BY <1>0
  <2>5. QED
    BY <1>0, <1>1, <2>1, <2>2, <2>3, <2>4 DEF Bounded
<1>4. CASE limits.tpm = 0
  BY <1>1, <1>4 DEF Bounded
<1>5. QED
  BY <1>0, <1>2, <1>3, <1>4

LEMMA QuotaInit == QInit => QuotaInv
<1> SUFFICES ASSUME QInit PROVE QuotaInv
  OBVIOUS
<1>1. PICK q \in Quotas : limits = [l \in DOMAIN q |-> SafetyMargin(q[l])]
  BY DEF QInit
<1>2. q \in [{"rpm", "tpm", "rpd"} -> Nat]
  BY QuotaAssumption
<1>3. \A n \in Nat : SafetyMargin(n) \in Nat
  BY DEF SafetyMargin
<1>4. QuotaTypeOK
  BY <1>1, <1>2, <1>3 DEF QInit, Init, QuotaTypeOK, PCs
<1>5. ClearedAtGate
  BY DEF QInit, Init, ClearedAtGate
<1>6. Pending = {} /\ Cardinality({}) = 0
  BY FS_EmptySet DEF QInit, Pending
<1>7. Bounded(minute + Cardinality(Pending))
  BY <1>4, <1>6, CallersCounted DEF QInit, Bounded, QuotaTypeOK
<1>8. QED
  BY <1>4, <1>5, <1>7 DEF QuotaInv

\* A step that adds no request and nobody who will make one.
LEMMA NothingPends ==
    ASSUME QuotaInv, QuotaTypeOK', ClearedAtGate', limits' = limits,
           minute' <= minute, Pending' \subseteq Pending
    PROVE  QuotaInv'
<1>1. Pending \subseteq Callers /\ Pending' \subseteq Callers
  BY DEF QuotaInv, ClearedAtGate, Pending
<1>2. Cardinality(Pending') <= Cardinality(Pending)
  BY <1>1, SetsCounted, FS_Subset
<1>3. Cardinality(Pending) \in Nat /\ Cardinality(Pending') \in Nat
  BY <1>1, SetsCounted
<1>4. minute \in Nat /\ minute' \in Nat
  BY DEF QuotaInv, QuotaTypeOK
<1>5. Bounded(minute' + Cardinality(Pending'))
  BY <1>2, <1>3, <1>4, BoundedBelow DEF QuotaInv
<1>6. QED
  BY <1>5 DEF QuotaInv, Bounded

LEMMA QuotaStep == QuotaInv /\ [QNext]_qvars => QuotaInv'
<1> SUFFICES ASSUME QuotaInv, [QNext]_qvars PROVE QuotaInv'
  OBVIOUS
<1> USE DEF QuotaInv, QuotaTypeOK, ClearedAtGate, PCs
<1>1. ASSUME NEW c \in Callers, Start(c) PROVE QuotaInv'
  <2>1. QuotaTypeOK' /\ ClearedAtGate'
    BY <1>1 DEF Start, CallWithRetry, GoTo
  <2>2. QED
    BY <1>1, <2>1, NothingPends DEF Start, Pending
<1>2. ASSUME NEW c \in Callers, WaitIfNeeded(c) PROVE QuotaInv'
  <2>1. QuotaTypeOK' /\ ClearedAtGate'
    BY <1>2 DEF WaitIfNeeded, vars
  <2>2. Pending' \subseteq Callers
    BY <2>1 DEF Pending
  <2>3. Cardinality(Pending') \in Nat /\ Cardinality(Pending') <= N
    BY <2>2, SetsCounted
  <2>4. Bounded(minute + Cardinality(Pending'))
    BY <1>2, <2>3, ClearedIsBounded DEF WaitIfNeeded
  <2>5. QED
    BY <1>2, <2>1, <2>4 DEF WaitIfNeeded, Bounded
<1>3. ASSUME NEW c \in Callers, Gated(c) PROVE QuotaInv'
  <2>1. QuotaTypeOK' /\ ClearedAtGate'
    BY <1>3 DEF Gated, Acquire, FastPath, NoFreeSlot, CountIn, SlotFreed, WaitExpires,
                CountOut, End, GoTo
  <2>2. QED
    BY <1>3, <2>1, NothingPends DEF Gated, Pending
<1>4. ASSUME NEW c \in Callers, CallReturns(c) PROVE QuotaInv'
  <2>1. QuotaTypeOK' /\ ClearedAtGate'
    BY <1>4 DEF CallReturns, CallEnds, End, GoTo
  <2>2. c \in cleared
    BY <1>4 DEF CallReturns, CallEnds
  <2>3. QED
    BY <1>4, <2>1, <2>2, NothingPends DEF CallReturns, Pending
<1>5. ASSUME NEW c \in Callers, CallFails(c) PROVE QuotaInv'
  <2>1. QuotaTypeOK' /\ ClearedAtGate'
    BY <1>5 DEF CallFails, CallEnds, CallIsRetried, ServerError, End, GoTo
  <2>2. QED
    BY <1>5, <2>1, NothingPends DEF CallFails, Pending
<1>6. ASSUME NEW c \in Callers, SleepEnds(c) PROVE QuotaInv'
  <2>1. QuotaTypeOK' /\ ClearedAtGate'
    BY <1>6 DEF SleepEnds, Wake, End, GoTo, quota
  <2>2. QED
    BY <1>6, <2>1, NothingPends DEF SleepEnds, quota, Pending
<1>7. ASSUME NEW c \in Callers, RecordRequest(c) PROVE QuotaInv'
  <2>1. QuotaTypeOK' /\ ClearedAtGate'
    BY <1>7 DEF RecordRequest, vars
  <2>2. CASE Limited
    <3>1. c \in Pending /\ Pending' = Pending \ {c}
      BY <1>7 DEF RecordRequest, Pending
    <3>2. IsFiniteSet(Pending) /\ Cardinality(Pending) \in Nat
      BY SetsCounted DEF Pending
    <3>3. Cardinality(Pending') = Cardinality(Pending) - 1
      BY <3>1, <3>2, OneLess
    <3>4. minute' + Cardinality(Pending') = minute + Cardinality(Pending)
      BY <1>7, <2>2, <3>2, <3>3 DEF RecordRequest
    <3>5. QED
      BY <1>7, <2>1, <3>4 DEF RecordRequest, Bounded
  <2>3. CASE ~Limited
    BY <1>7, <2>1, <2>3, NothingPends DEF RecordRequest, Pending
  <2>4. QED
    BY <2>2, <2>3
<1>8. CASE CleanupWindows
  <2>1. QuotaTypeOK' /\ ClearedAtGate'
    BY <1>8 DEF CleanupWindows, vars
  <2>2. QED
    BY <1>8, <2>1, NothingPends DEF CleanupWindows, Pending
<1>9. CASE UNCHANGED qvars
  <2>1. QuotaTypeOK' /\ ClearedAtGate'
    BY <1>9 DEF qvars, quota, vars
  <2>2. QED
    BY <1>9, <2>1, NothingPends DEF qvars, quota, Pending
<1>10. QED
  BY <1>1, <1>2, <1>3, <1>4, <1>5, <1>6, <1>7, <1>8, <1>9 DEF QNext, QStep

LEMMA QuotaInvImpliesBound == QuotaInv => OvershootBounded
<1> SUFFICES ASSUME QuotaInv PROVE OvershootBounded
  OBVIOUS
<1>1. Pending \subseteq Callers
  BY DEF QuotaInv, ClearedAtGate, Pending
<1>2. Cardinality(Pending) \in Nat /\ minute \in Nat
  BY <1>1, SetsCounted DEF QuotaInv, QuotaTypeOK
<1>3. Bounded(minute)
  BY <1>2, BoundedBelow DEF QuotaInv
<1>4. QED
  BY <1>3 DEF Bounded, OvershootBounded, N

\* However many threads share a handler, and however they interleave between
\* the check of the windows and the record of the request, the minute's count
\* exceeds a limit by less than their number.
THEOREM OvershootIsBounded == QSpec => []OvershootBounded
<1>1. QInit /\ [][QNext]_qvars => []QuotaInv
  BY QuotaInit, QuotaStep, PTL
<1>2. QED
  BY <1>1, QuotaInvImpliesBound, PTL DEF QSpec

\* With the windows in front of it the gate makes the steps it makes alone, so
\* what is proved of the gate holds behind them.
THEOREM QuotaKeepsTheGate == QSpec => Spec
<1>1. QInit => Init
  BY DEF QInit
<1>2. [QNext]_qvars => [Next]_vars
  <2> SUFFICES ASSUME [QNext]_qvars PROVE [Next]_vars
    OBVIOUS
  <2>1. ASSUME NEW c \in Callers, Start(c) \/ QStep(c) PROVE [Next]_vars
    BY <2>1 DEF Start, QStep, WaitIfNeeded, Gated, CallReturns, CallFails, SleepEnds,
                RecordRequest, Next, Step, Attempt
  <2>2. CASE CleanupWindows
    BY <2>2 DEF CleanupWindows
  <2>3. CASE UNCHANGED qvars
    BY <2>3 DEF qvars
  <2>4. QED
    BY <2>1, <2>2, <2>3 DEF QNext
<1>3. QED
  BY <1>1, <1>2, PTL DEF QSpec, Spec

\* The gate promises the limit of concurrent calls also behind the windows.
COROLLARY LimitHoldsBehindTheWindows == QSpec => ImplementsSlots
BY QuotaKeepsTheGate, GateImplementsSlots, PTL

-----------------------------------------------------------------------------
(* The agents. *)

Running == {"graph", "enter", "call"}

PoolTypes ==
    /\ setting \in 0..MaxChanges
    /\ default \in Models
    /\ provider \in BOOLEAN
    /\ limitVersion \in 0..MaxLimits
    /\ request \in {"none", "invalidate", "reset"}
    /\ cache \in [Keys -> AgentIds \cup {NoAgent}]
    /\ agents \in [AgentIds -> Agent]
    /\ registry \in [Models \X BOOLEAN -> Handler \cup {NoHandler}]
    /\ built \in Nat
    /\ query \in [Queries -> Query]

\* Where a query with the locals x stands, and what it has in its hands by then.
Good(x) ==
    /\ x.agent # NoAgent <=> x.step \in Running
    /\ x.step \notin {"idle", "lookup"} => x.model \in Models
    /\ x.step \in {"restore", "store"} => x.copy.model \in Models /\ x.copy.handler = NoHandler
    /\ x.step \in Running => agents[x.agent].model \in Models
    /\ x.step \in {"enter", "call"} => agents[x.agent].handler # NoHandler
    /\ ~MultiTenant => x.saved = FALSE /\ x.copy.tenant = FALSE

Wants(x) == IF x.wanted = NoModel THEN default ELSE x.wanted

\* While agents are built in peace: the copy is of the settings in force, and
\* the cache has no agent that is older than a query about to look.
Quiet(x) ==
    /\ x.asked <= setting
    /\ x.step \in Building => Wants(x) = x.model
    /\ x.step \in {"restore", "store"} => x.copy.model = x.model /\ x.copy.setting = setting
    /\ x.step \in Running => agents[x.agent].model = x.model /\ agents[x.agent].setting >= x.asked
    /\ x.step = "lookup" => \A k \in Keys : cache[k] # NoAgent => agents[cache[k]].setting >= x.asked

CacheGood == \A k \in Keys : cache[k] # NoAgent => agents[cache[k]].model \in Models

CacheQuiet ==
    \A k \in Keys : cache[k] # NoAgent =>
        /\ agents[cache[k]].model = k[2]
        /\ request # "invalidate" => agents[cache[k]].setting = setting

\* Without tenants and while the limit is the first one, there is one handler
\* for each model.
SingleTenant == ~MultiTenant => provider = FALSE /\ \A a \in AgentIds : agents[a].tenant = FALSE

Capped == limitVersion = 0 /\ ~MultiTenant

OneHandler ==
    /\ request # "reset"
    /\ \A a \in AgentIds : agents[a].handler # NoHandler =>
          /\ agents[a].model \in Models
          /\ agents[a].handler = registry[<<agents[a].model, FALSE>>]
    /\ \A m \in Models : registry[<<m, FALSE>>] # NoHandler =>
          /\ registry[<<m, FALSE>>].model = m
          /\ registry[<<m, FALSE>>].limits = 0
          /\ registry[<<m, FALSE>>].tenant = FALSE

CallingOn(m) == {q \in Calling : agents[query[q].agent].model = m}

PoolInv ==
    /\ PoolTypes
    /\ \A q \in Queries : Good(query[q])
    /\ CacheGood
    /\ SingleTenant
    /\ QuietSettings => CacheQuiet /\ \A q \in Queries : Quiet(query[q])
    /\ Capped => OneHandler
    /\ CapPerModel

LEMMA IdleTyped ==
    /\ NoConfig \in Agent /\ NoConfig.tenant = FALSE /\ NoConfig.handler = NoHandler
    /\ Idle \in Query /\ Idle.step = "idle" /\ Idle.agent = NoAgent
    /\ Idle.saved = FALSE /\ Idle.copy = NoConfig /\ Idle.asked = 0
<1>1. NoConfig \in Agent /\ NoConfig.tenant = FALSE /\ NoConfig.handler = NoHandler
  BY PoolAssumption DEF NoConfig, Agent
<1>2. (CHOOSE w \in Workspaces : TRUE) \in Workspaces
  BY PoolAssumption
<1>3. QED
  BY <1>1, <1>2, PoolAssumption DEF Idle, Query

LEMMA PoolInitially == PoolInit => PoolInv
<1> SUFFICES ASSUME PoolInit PROVE PoolInv
  OBVIOUS
<1>1. PoolTypes
  BY IdleTyped, PoolAssumption DEF PoolInit, PoolTypes
<1>2. \A q \in Queries : Good(query[q]) /\ Quiet(query[q])
  BY IdleTyped DEF PoolInit, Good, Quiet, Running, Building
<1>3. CacheGood /\ CacheQuiet
  BY DEF PoolInit, CacheGood, CacheQuiet
<1>4. SingleTenant
  BY IdleTyped DEF PoolInit, SingleTenant
<1>5. \A a \in AgentIds : agents[a].handler = NoHandler
  BY IdleTyped DEF PoolInit
<1>6. \A m \in Models : registry[<<m, FALSE>>] = NoHandler
  BY DEF PoolInit
<1>7. OneHandler
  BY <1>5, <1>6 DEF PoolInit, OneHandler
<1>8. ASSUME NEW m \in Models PROVE Cardinality(CallingOn(m)) <= Caps[0]
  <2>1. CallingOn(m) = {}
    BY IdleTyped DEF PoolInit, CallingOn, Calling
  <2>2. Caps[0] \in Nat
    BY PoolAssumption
  <2>3. QED
    BY <2>1, <2>2, FS_EmptySet
<1>9. CapPerModel
  BY <1>8 DEF CapPerModel, CallingOn
<1>10. QED
  BY <1>1, <1>2, <1>3, <1>4, <1>7, <1>9 DEF PoolInv

\* Fewer callers keep the cap.
LEMMA CapKept ==
    ASSUME PoolInv, limitVersion' = 0 => limitVersion = 0,
           \A m \in Models : CallingOn(m)' \subseteq CallingOn(m)
    PROVE  CapPerModel'
<1>1. ASSUME NEW m \in Models, Capped'
      PROVE  Cardinality(CallingOn(m)') <= Caps[0]
  <2>1. Cardinality(CallingOn(m)) <= Caps[0]
    BY <1>1 DEF PoolInv, CapPerModel, CallingOn, Capped
  <2>2. CallingOn(m) \subseteq Queries
    BY DEF CallingOn, Calling
  <2>3. IsFiniteSet(CallingOn(m)) /\ Cardinality(CallingOn(m)) \in Nat
    BY <2>2, PoolAssumption, FS_Subset, FS_CardinalityType
  <2>4. /\ Cardinality(CallingOn(m)') <= Cardinality(CallingOn(m))
        /\ Cardinality(CallingOn(m)') \in Nat
    BY <2>3, FS_Subset, FS_CardinalityType
  <2>5. Caps[0] \in Nat
    BY PoolAssumption
  <2>6. QED
    BY <2>1, <2>3, <2>4, <2>5
<1>2. QED
  BY <1>1 DEF CapPerModel, CallingOn, Capped

\* A step that changes the locals of one query, and perhaps the provider.
LEMMA LocalStep ==
    ASSUME PoolInv, NEW q \in Queries, NEW new \in Query,
           query' = [query EXCEPT ![q] = new],
           UNCHANGED <<config, request, cache, agents, registry, built>>,
           provider' \in BOOLEAN, ~MultiTenant => provider' = FALSE,
           Good(new), QuietSettings => Quiet(new), new.step # "call"
    PROVE  PoolInv'
<1>1. query' \in [Queries -> Query] /\ \A p \in Queries : query'[p] = IF p = q THEN new ELSE query[p]
  BY DEF PoolInv, PoolTypes
<1>2. PoolTypes'
  BY <1>1 DEF PoolInv, PoolTypes, config
<1>3. \A p \in Queries : Good(query[p])'
  BY <1>1 DEF PoolInv, Good
<1>4. CacheGood' /\ SingleTenant'
  BY DEF PoolInv, CacheGood, SingleTenant
<1>5. QuietSettings => CacheQuiet' /\ \A p \in Queries : Quiet(query[p])'
  BY <1>1 DEF PoolInv, CacheQuiet, Quiet, Wants, config
<1>6. Capped' => OneHandler'
  BY DEF PoolInv, OneHandler, Capped, config
<1>7. \A m \in Models : CallingOn(m)' \subseteq CallingOn(m)
  BY <1>1 DEF CallingOn, Calling
<1>8. CapPerModel'
  BY <1>7, CapKept DEF config
<1>9. QED
  BY <1>2, <1>3, <1>4, <1>5, <1>6, <1>8 DEF PoolInv

LEMMA StartQueryStep ==
    ASSUME PoolInv, NEW q \in Queries, NEW w \in Workspaces, NEW m \in Models \cup {NoModel},
           StartQuery(q, w, m)
    PROVE  PoolInv'
<1> DEFINE new == [Idle EXCEPT !.step = "lookup", !.ws = w, !.wanted = m,
                               !.asked = setting, !.askedLimits = limitVersion]
<1>1. setting \in 0..MaxChanges /\ limitVersion \in 0..MaxLimits /\ provider \in BOOLEAN
  BY DEF PoolInv, PoolTypes
<1>2. /\ new \in Query /\ new.step = "lookup" /\ new.agent = NoAgent /\ new.asked = setting
      /\ new.saved = FALSE /\ new.copy = NoConfig
  BY <1>1, IdleTyped DEF Query
<1>3. /\ query' = [query EXCEPT ![q] = new] /\ request = "none"
      /\ UNCHANGED <<config, provider, request, cache, agents, registry, built>>
  BY DEF StartQuery, Local
<1> HIDE DEF new
<1>4. Good(new)
  BY <1>2, IdleTyped DEF Good, Running
<1>5. QuietSettings => Quiet(new)
  BY <1>1, <1>2, <1>3, PoolAssumption DEF PoolInv, CacheQuiet, Quiet, Running, Building
<1>6. ~MultiTenant => provider' = FALSE
  BY <1>3 DEF PoolInv, SingleTenant
<1>7. QED
  BY <1>1, <1>2, <1>3, <1>4, <1>5, <1>6, LocalStep

LEMMA EffectiveTyped ==
    ASSUME PoolInv, NEW q \in Queries
    PROVE  Effective(q) = Wants(query[q]) /\ Effective(q) \in Models
BY DEF PoolInv, PoolTypes, Effective, Wants, Query

LEMMA GotTyped ==
    ASSUME PoolInv, NEW q \in Queries, NEW a \in AgentIds
    PROVE  /\ Got(q, a) \in Query
           /\ Got(q, a).step = "graph" /\ Got(q, a).agent = a /\ Got(q, a).model = Effective(q)
           /\ Got(q, a).saved = FALSE /\ Got(q, a).copy = NoConfig
           /\ Got(q, a).asked = query[q].asked /\ Got(q, a).ws = query[q].ws
           /\ Got(q, a).wanted = NoModel /\ Got(q, a).askedLimits = query[q].askedLimits
<1>1. query[q] \in Query /\ Effective(q) \in Models
  BY EffectiveTyped DEF PoolInv, PoolTypes
<1>2. QED
  BY <1>1, IdleTyped DEF Got, Query

LEMMA LookupStep ==
    ASSUME PoolInv, NEW q \in Queries, Lookup(q)
    PROVE  PoolInv'
<1> DEFINE k == SlotOf(query[q].ws, Effective(q))
           new == IF cache[k] = NoAgent
                    THEN [query[q] EXCEPT !.step = "save", !.model = Effective(q)]
                    ELSE Got(q, cache[k])
<1>1. /\ query' = [query EXCEPT ![q] = new] /\ query[q].step = "lookup"
      /\ UNCHANGED <<config, provider, request, cache, agents, registry, built>>
  BY DEF Lookup, Local
<1>2. query[q] \in Query /\ Good(query[q]) /\ provider \in BOOLEAN
  BY DEF PoolInv, PoolTypes
<1>3. Effective(q) \in Models /\ k \in Keys /\ k[2] = Effective(q)
  BY <1>2, EffectiveTyped DEF SlotOf, Keys, Query
<1>4. cache[k] \in AgentIds \cup {NoAgent}
  BY <1>3 DEF PoolInv, PoolTypes
<1>5. ~MultiTenant => provider' = FALSE
  BY <1>1 DEF PoolInv, SingleTenant
<1>6. new \in Query /\ Good(new) /\ (QuietSettings => Quiet(new)) /\ new.step # "call"
  <2>1. CASE cache[k] = NoAgent
    <3>1. /\ new \in Query /\ new.step = "save" /\ new.model = Effective(q)
          /\ new.wanted = query[q].wanted /\ new.asked = query[q].asked
          /\ new.agent = query[q].agent /\ new.saved = query[q].saved
          /\ new.copy = query[q].copy
      BY <2>1, <1>2, <1>3 DEF Query, Building
    <3> HIDE DEF new
    <3>2. Good(new)
      BY <3>1, <1>1, <1>2, <1>3 DEF Good, Running
    <3>3. QuietSettings => Quiet(new)
      BY <3>1, EffectiveTyped DEF PoolInv, Quiet, Running, Building, Wants
    <3>4. QED
      BY <3>1, <3>2, <3>3
  <2>2. CASE cache[k] # NoAgent
    <3> DEFINE a == cache[k]
    <3>1. a \in AgentIds /\ new = Got(q, a)
      BY <2>2, <1>4
    <3>2. agents[a].model \in Models
      BY <2>2, <1>3 DEF PoolInv, CacheGood
    <3>3. QuietSettings => agents[a].model = Effective(q) /\ agents[a].setting >= query[q].asked
      BY <2>2, <1>1, <1>3 DEF PoolInv, CacheQuiet, Quiet
    <3>4. QuietSettings => query[q].asked <= setting
      BY DEF PoolInv, Quiet
    <3> HIDE DEF new, a
    <3>5. /\ new \in Query /\ new.step = "graph" /\ new.agent = a /\ new.model = Effective(q)
          /\ new.saved = FALSE /\ new.copy = NoConfig /\ new.asked = query[q].asked
      BY <3>1, GotTyped
    <3>6. Good(new)
      BY <3>1, <3>5, <3>2, <1>3, IdleTyped, PoolAssumption DEF Good, Running
    <3>7. QuietSettings => Quiet(new)
      BY <3>5, <3>3, <3>4 DEF Quiet, Running, Building
    <3>8. QED
      BY <3>5, <3>6, <3>7
  <2>3. QED
    BY <2>1, <2>2
<1> HIDE DEF new
<1>7. QED
  BY <1>1, <1>2, <1>5, <1>6, LocalStep

\* The steps of _config_for_workspace: the agent's configuration is copied, and
\* the identity provider comes back as it was.
LEMMA CopyingStep ==
    ASSUME PoolInv, NEW q \in Queries,
           SaveProvider(q) \/ HideProvider(q) \/ CopyConfig(q) \/ RestoreProvider(q)
    PROVE  PoolInv'
<1>1. /\ query[q] \in Query /\ Good(query[q]) /\ (QuietSettings => Quiet(query[q]))
      /\ provider \in BOOLEAN /\ setting \in 0..MaxChanges /\ (~MultiTenant => provider = FALSE)
  BY DEF PoolInv, PoolTypes, SingleTenant
<1>2. Effective(q) \in Models /\ Effective(q) = Wants(query[q])
  BY EffectiveTyped
<1>3. CASE SaveProvider(q)
  <2> DEFINE new == [query[q] EXCEPT !.step = "hide", !.saved = provider]
  <2>1. /\ query' = [query EXCEPT ![q] = new] /\ query[q].step = "save"
        /\ UNCHANGED <<config, provider, request, cache, agents, registry, built>>
    BY <1>3 DEF SaveProvider, Local
  <2>2. /\ new \in Query /\ new.step = "hide" /\ new.saved = provider
        /\ new.model = query[q].model /\ new.wanted = query[q].wanted
        /\ new.asked = query[q].asked /\ new.agent = query[q].agent /\ new.copy = query[q].copy
    BY <1>1 DEF Query, Building
  <2> HIDE DEF new
  <2>3. Good(new)
    BY <2>1, <2>2, <1>1 DEF Good, Running
  <2>4. QuietSettings => Quiet(new)
    BY <2>1, <2>2, <1>1 DEF Quiet, Running, Building, Wants
  <2>5. QED
    BY <2>1, <2>2, <2>3, <2>4, <1>1, LocalStep
<1>4. CASE HideProvider(q)
  <2> DEFINE new == [query[q] EXCEPT !.step = "copy"]
  <2>1. /\ query' = [query EXCEPT ![q] = new] /\ query[q].step = "hide" /\ provider' = FALSE
        /\ UNCHANGED <<config, request, cache, agents, registry, built>>
    BY <1>4 DEF HideProvider, Local
  <2>2. /\ new \in Query /\ new.step = "copy" /\ new.saved = query[q].saved
        /\ new.model = query[q].model /\ new.wanted = query[q].wanted
        /\ new.asked = query[q].asked /\ new.agent = query[q].agent /\ new.copy = query[q].copy
    BY <1>1 DEF Query, Building
  <2> HIDE DEF new
  <2>3. Good(new)
    BY <2>1, <2>2, <1>1 DEF Good, Running
  <2>4. QuietSettings => Quiet(new)
    BY <2>1, <2>2, <1>1 DEF Quiet, Running, Building, Wants
  <2>5. QED
    BY <2>1, <2>2, <2>3, <2>4, <1>1, LocalStep
<1>5. CASE CopyConfig(q)
  <2> DEFINE c == [model |-> Effective(q), tenant |-> query[q].saved,
                   setting |-> setting, handler |-> NoHandler]
             new == [query[q] EXCEPT !.step = "restore", !.copy = c]
  <2>1. /\ query' = [query EXCEPT ![q] = new] /\ query[q].step = "copy"
        /\ UNCHANGED <<config, provider, request, cache, agents, registry, built>>
    BY <1>5 DEF CopyConfig, Local
  <2>2. c \in Agent
    BY <1>1, <1>2 DEF Agent, Query
  <2>3. /\ c.model = Effective(q) /\ c.tenant = query[q].saved /\ c.setting = setting
        /\ c.handler = NoHandler
    OBVIOUS
  <2> HIDE DEF c
  <2>4. /\ new \in Query /\ new.step = "restore" /\ new.saved = query[q].saved
        /\ new.model = query[q].model /\ new.wanted = query[q].wanted
        /\ new.asked = query[q].asked /\ new.agent = query[q].agent /\ new.copy = c
    BY <1>1, <2>2 DEF Query, Building
  <2> HIDE DEF new
  <2>5. Good(new)
    BY <2>1, <2>3, <2>4, <1>1, <1>2 DEF Good, Running
  <2>6. QuietSettings => Quiet(new)
    BY <2>1, <2>3, <2>4, <1>1, <1>2 DEF Quiet, Running, Building, Wants
  <2>7. QED
    BY <2>1, <2>4, <2>5, <2>6, <1>1, LocalStep
<1>6. CASE RestoreProvider(q)
  <2> DEFINE new == [query[q] EXCEPT !.step = "store"]
  <2>1. /\ query' = [query EXCEPT ![q] = new] /\ query[q].step = "restore"
        /\ provider' = query[q].saved
        /\ UNCHANGED <<config, request, cache, agents, registry, built>>
    BY <1>6 DEF RestoreProvider, Local
  <2>2. /\ new \in Query /\ new.step = "store" /\ new.saved = query[q].saved
        /\ new.model = query[q].model /\ new.wanted = query[q].wanted
        /\ new.asked = query[q].asked /\ new.agent = query[q].agent /\ new.copy = query[q].copy
    BY <1>1 DEF Query, Building
  <2>3. query[q].saved \in BOOLEAN /\ (~MultiTenant => query[q].saved = FALSE)
    BY <1>1 DEF Query, Good
  <2> HIDE DEF new
  <2>4. Good(new)
    BY <2>1, <2>2, <1>1 DEF Good, Running
  <2>5. QuietSettings => Quiet(new)
    BY <2>1, <2>2, <1>1 DEF Quiet, Running, Building, Wants
  <2>6. QED
    BY <2>1, <2>2, <2>3, <2>4, <2>5, <1>1, LocalStep
<1>7. QED
  BY <1>3, <1>4, <1>5, <1>6

LEMMA LeaveGateStep ==
    ASSUME PoolInv, NEW q \in Queries, LeaveGate(q)
    PROVE  PoolInv'
<1>1. /\ query[q] \in Query /\ Good(query[q]) /\ (QuietSettings => Quiet(query[q]))
      /\ provider \in BOOLEAN /\ setting \in 0..MaxChanges /\ (~MultiTenant => provider = FALSE)
  BY DEF PoolInv, PoolTypes, SingleTenant
<1>2. /\ query[q].step = "call"
      /\ UNCHANGED <<config, provider, request, cache, agents, registry, built>>
  BY DEF LeaveGate
<1>3. CASE Local(q, [query[q] EXCEPT !.step = "enter"])
  <2> DEFINE new == [query[q] EXCEPT !.step = "enter"]
  <2>1. query' = [query EXCEPT ![q] = new]
    BY <1>3 DEF Local
  <2>2. /\ new \in Query /\ new.step = "enter" /\ new.saved = query[q].saved
        /\ new.model = query[q].model /\ new.wanted = query[q].wanted
        /\ new.asked = query[q].asked /\ new.agent = query[q].agent /\ new.copy = query[q].copy
    BY <1>1 DEF Query, Building
  <2> HIDE DEF new
  <2>3. Good(new)
    BY <2>2, <1>1, <1>2 DEF Good, Running
  <2>4. QuietSettings => Quiet(new)
    BY <2>2, <1>1, <1>2 DEF Quiet, Running, Building, Wants
  <2>5. QED
    BY <2>1, <2>2, <2>3, <2>4, <1>1, <1>2, LocalStep
<1>4. CASE Local(q, Idle)
  <2>1. query' = [query EXCEPT ![q] = Idle]
    BY <1>4 DEF Local
  <2>2. Good(Idle) /\ Quiet(Idle)
    BY <1>1, IdleTyped, PoolAssumption DEF Good, Quiet, Running, Building
  <2>3. QED
    BY <2>1, <2>2, <1>1, <1>2, IdleTyped, LocalStep
<1>5. QED
  BY <1>3, <1>4 DEF LeaveGate

\* The settings endpoints: a change leaves the agents in use alone, and the
\* cache is emptied before anybody looks.
LEMMA SettingsStep ==
    ASSUME PoolInv, Settings
    PROVE  PoolInv'
<1>1. CASE ChangeSetting \/ \E m \in Models : ChangeDefault(m)
  <2>1. /\ UNCHANGED <<limitVersion, provider, cache, agents, registry, built, query>>
        /\ setting' = setting + 1 /\ setting < MaxChanges /\ default' \in Models
        /\ request' = "invalidate"
        /\ QuietSettings => \A q \in Queries : query[q].step \notin Building
    BY <1>1 DEF ChangeSetting, ChangeDefault, MayChange, PoolInv, PoolTypes
  <2>2. setting \in Nat /\ setting' \in 0..MaxChanges
    BY <2>1, PoolAssumption DEF PoolInv, PoolTypes
  <2>3. PoolTypes'
    BY <2>1, <2>2 DEF PoolInv, PoolTypes
  <2>4. \A q \in Queries : Good(query[q])'
    BY <2>1 DEF PoolInv, Good
  <2>5. CacheGood' /\ SingleTenant'
    BY <2>1 DEF PoolInv, CacheGood, SingleTenant
  <2>6. QuietSettings => CacheQuiet'
    BY <2>1 DEF PoolInv, CacheQuiet
  <2>7. ASSUME QuietSettings, NEW q \in Queries PROVE Quiet(query[q])'
    <3>1. Quiet(query[q]) /\ query[q].step \notin Building /\ query[q].asked \in Nat
      BY <2>1, <2>7 DEF PoolInv, PoolTypes, Query
    <3>2. query[q].asked <= setting'
      BY <2>1, <2>2, <3>1 DEF Quiet
    <3>3. QED
      BY <2>1, <3>1, <3>2 DEF Quiet, Building
  <2>8. Capped' => OneHandler'
    BY <2>1 DEF PoolInv, OneHandler, Capped
  <2>9. CapPerModel'
    BY <2>1, CapKept DEF CallingOn, Calling
  <2>10. QED
    BY <2>3, <2>4, <2>5, <2>6, <2>7, <2>8, <2>9 DEF PoolInv
<1>2. CASE Invalidate
  <2>1. /\ UNCHANGED <<setting, default, limitVersion, provider, agents, registry, built, query>>
        /\ cache' = [k \in Keys |-> NoAgent] /\ request = "invalidate" /\ request' = "none"
    BY <1>2 DEF Invalidate, config
  <2>2. PoolTypes'
    BY <2>1 DEF PoolInv, PoolTypes
  <2>3. \A q \in Queries : Good(query[q])'
    BY <2>1 DEF PoolInv, Good
  <2>4. CacheGood' /\ CacheQuiet' /\ \A k \in Keys : cache'[k] = NoAgent
    BY <2>1 DEF CacheGood, CacheQuiet
  <2>5. SingleTenant'
    BY <2>1 DEF PoolInv, SingleTenant
  <2>6. QuietSettings => \A q \in Queries : Quiet(query[q])'
    BY <2>1, <2>4 DEF PoolInv, Quiet, Wants
  <2>7. Capped' => OneHandler'
    BY <2>1 DEF PoolInv, OneHandler, Capped
  <2>8. CapPerModel'
    BY <2>1, CapKept DEF CallingOn, Calling
  <2>9. QED
    BY <2>2, <2>3, <2>4, <2>5, <2>6, <2>7, <2>8 DEF PoolInv
<1>3. CASE SetLimit
  <2>1. /\ UNCHANGED <<setting, default, provider, cache, agents, registry, built, query>>
        /\ request = "none" /\ request' = "reset"
        /\ limitVersion < MaxLimits /\ limitVersion' = IF provider = MultiTenant THEN limitVersion + 1 ELSE limitVersion
    BY <1>3 DEF SetLimit
  <2>2. limitVersion \in Nat /\ limitVersion' \in 0..MaxLimits /\ (~MultiTenant => limitVersion' # 0)
    BY <2>1, PoolAssumption DEF PoolInv, PoolTypes, SingleTenant
  <2>3. PoolTypes'
    BY <2>1, <2>2 DEF PoolInv, PoolTypes
  <2>4. \A q \in Queries : Good(query[q])'
    BY <2>1 DEF PoolInv, Good
  <2>5. CacheGood' /\ SingleTenant'
    BY <2>1 DEF PoolInv, CacheGood, SingleTenant
  <2>6. QuietSettings => CacheQuiet' /\ \A q \in Queries : Quiet(query[q])'
    BY <2>1 DEF PoolInv, CacheQuiet, Quiet, Wants
  <2>7. (Capped' => OneHandler') /\ CapPerModel'
    BY <2>2 DEF Capped, CapPerModel
  <2>8. QED
    BY <2>3, <2>4, <2>5, <2>6, <2>7 DEF PoolInv
<1>4. CASE ResetHandlers
  <2>1. /\ UNCHANGED <<setting, default, limitVersion, provider, cache, agents, built, query>>
        /\ request = "reset" /\ request' = "none"
        /\ registry' = [k \in Models \X BOOLEAN |-> NoHandler]
    BY <1>4 DEF ResetHandlers, config
  <2>2. PoolTypes'
    BY <2>1 DEF PoolInv, PoolTypes
  <2>3. \A q \in Queries : Good(query[q])'
    BY <2>1 DEF PoolInv, Good
  <2>4. CacheGood' /\ SingleTenant'
    BY <2>1 DEF PoolInv, CacheGood, SingleTenant
  <2>5. QuietSettings => CacheQuiet' /\ \A q \in Queries : Quiet(query[q])'
    BY <2>1 DEF PoolInv, CacheQuiet, Quiet, Wants
  <2>6. ~Capped'
    BY <2>1 DEF PoolInv, OneHandler, Capped
  <2>7. CapPerModel'
    BY <2>6 DEF Capped, CapPerModel
  <2>8. QED
    BY <2>2, <2>3, <2>4, <2>5, <2>6, <2>7 DEF PoolInv
<1>5. QED
  BY <1>1, <1>2, <1>3, <1>4 DEF Settings

\* A caller enters a gate that counts every caller on its model.
LEMMA EnterGateStep ==
    ASSUME PoolInv, NEW q \in Queries, EnterGate(q)
    PROVE  PoolInv'
<1> DEFINE new == [query[q] EXCEPT !.step = "call"]
<1>1. /\ query' = [query EXCEPT ![q] = new] /\ query[q].step = "enter"
      /\ UNCHANGED <<setting, default, limitVersion, provider, request, cache, agents, registry, built>>
  BY DEF EnterGate, Local, config
<1>2. /\ query[q] \in Query /\ Good(query[q]) /\ (QuietSettings => Quiet(query[q]))
      /\ query[q].agent \in AgentIds
  BY <1>1 DEF PoolInv, PoolTypes, Query, Good, Running
<1>3. /\ new \in Query /\ new.step = "call" /\ new.saved = query[q].saved
      /\ new.model = query[q].model /\ new.wanted = query[q].wanted
      /\ new.asked = query[q].asked /\ new.agent = query[q].agent /\ new.copy = query[q].copy
  BY <1>2 DEF Query, Building
<1> HIDE DEF new
<1>4. query' \in [Queries -> Query] /\ \A p \in Queries : query'[p] = IF p = q THEN new ELSE query[p]
  BY <1>1, <1>3 DEF PoolInv, PoolTypes
<1>5. PoolTypes'
  BY <1>1, <1>4 DEF PoolInv, PoolTypes
<1>6. \A p \in Queries : Good(query[p])'
  BY <1>1, <1>2, <1>3, <1>4 DEF PoolInv, Good, Running
<1>7. CacheGood' /\ SingleTenant'
  BY <1>1 DEF PoolInv, CacheGood, SingleTenant
<1>8. QuietSettings => CacheQuiet' /\ \A p \in Queries : Quiet(query[p])'
  BY <1>1, <1>2, <1>3, <1>4 DEF PoolInv, CacheQuiet, Quiet, Wants, Running, Building
<1>9. Capped' => OneHandler'
  BY <1>1 DEF PoolInv, OneHandler, Capped
<1>10. ASSUME Capped', NEW m \in Models
       PROVE  Cardinality(CallingOn(m)') <= Caps[0]
  <2> DEFINE h == HandlerOf(q)
             same == {p \in Calling : HandlerOf(p) = h}
  <2>1. Capped /\ OneHandler /\ Caps[0] \in Nat
    BY <1>1, <1>10, PoolAssumption DEF PoolInv, Capped
  <2>2. IsFiniteSet(CallingOn(m)) /\ Cardinality(CallingOn(m)) \in Nat
        /\ Cardinality(CallingOn(m)) <= Caps[0]
    <3>1. CallingOn(m) \subseteq Queries
      BY DEF CallingOn, Calling
    <3>2. QED
      BY <2>1, <3>1, PoolAssumption, FS_Subset, FS_CardinalityType
         DEF PoolInv, CapPerModel, CallingOn, Capped
  <2>3. CASE agents[query[q].agent].model # m
    <3>1. CallingOn(m)' = CallingOn(m)
      BY <2>3, <1>1, <1>3, <1>4 DEF CallingOn, Calling
    <3>2. QED
      BY <2>2, <3>1
  <2>4. CASE agents[query[q].agent].model = m
    <3>1. CallingOn(m)' = CallingOn(m) \cup {q} /\ q \notin CallingOn(m)
      BY <2>4, <1>1, <1>3, <1>4 DEF CallingOn, Calling
    <3>2. /\ h = registry[<<m, FALSE>>] /\ h # NoHandler
          /\ h.tenant = FALSE /\ h.limits = 0
      BY <2>1, <2>4, <1>1, <1>2 DEF OneHandler, Good, HandlerOf
    <3>3. Cardinality(same) < Caps[0]
      <4>1. h.tenant = MultiTenant
        BY <2>1, <3>2, PoolAssumption DEF Capped
      <4>2. Cardinality(same) < Caps[h.limits]
        BY <4>1 DEF EnterGate
      <4>3. QED
        BY <3>2, <4>2
    <3>4. CallingOn(m) \subseteq same
      <4>1. ASSUME NEW p \in CallingOn(m) PROVE HandlerOf(p) = registry[<<m, FALSE>>]
        <5>1. /\ p \in Queries /\ query[p].step = "call"
              /\ agents[query[p].agent].model = m
          BY DEF CallingOn, Calling
        <5>2. query[p] \in Query /\ Good(query[p])
          BY <5>1 DEF PoolInv, PoolTypes
        <5>3. query[p].agent \in AgentIds /\ agents[query[p].agent].handler # NoHandler
          BY <5>1, <5>2 DEF Good, Query, Running
        <5>4. QED
          BY <2>1, <5>1, <5>3 DEF OneHandler, HandlerOf
      <4>2. QED
        BY <3>2, <4>1 DEF CallingOn
    <3>5. IsFiniteSet(same) /\ Cardinality(same) \in Nat
      BY PoolAssumption, FS_Subset, FS_CardinalityType DEF Calling
    <3>6. Cardinality(CallingOn(m)) <= Cardinality(same)
      BY <3>4, <3>5, FS_Subset
    <3>7. Cardinality(CallingOn(m)') = Cardinality(CallingOn(m)) + 1
      BY <2>2, <3>1, FS_AddElement
    <3>8. QED
      BY <2>1, <2>2, <3>3, <3>5, <3>6, <3>7
  <2>5. QED
    BY <2>3, <2>4
<1>11. CapPerModel'
  BY <1>10 DEF CapPerModel, CallingOn, Capped
<1>12. QED
  BY <1>5, <1>6, <1>7, <1>8, <1>9, <1>11 DEF PoolInv

LEMMA SharedHandlerIsOne ==
    ASSUME PoolInv, NEW m \in Models, NEW tenant \in BOOLEAN
    PROVE  SharedHandler(m, tenant) \in Handler /\ SharedHandler(m, tenant) # NoHandler
<1>1. registry[<<m, tenant>>] \in Handler \cup {NoHandler} /\ limitVersion \in 0..MaxLimits /\ built + 1 \in Nat
  BY DEF PoolInv, PoolTypes
<1>2. [model |-> m, tenant |-> tenant, limits |-> limitVersion, id |-> built + 1] \in Handler
  BY <1>1 DEF Handler
<1>3. QED
  BY <1>1, <1>2, NoHandlerIsNone DEF SharedHandler

\* The graph of an agent is built once, with the handler of its model.
LEMMA GetGraphStep ==
    ASSUME PoolInv, NEW q \in Queries, GetGraph(q)
    PROVE  PoolInv'
<1> DEFINE a == query[q].agent
           h == SharedHandler(agents[a].model, agents[a].tenant)
           new == [query[q] EXCEPT !.step = "enter"]
<1>1. /\ query' = [query EXCEPT ![q] = new] /\ query[q].step = "graph"
      /\ UNCHANGED <<setting, default, limitVersion, provider, request, cache>>
  BY DEF GetGraph, Local, config
<1>2. /\ query[q] \in Query /\ Good(query[q]) /\ (QuietSettings => Quiet(query[q]))
      /\ a \in AgentIds
  BY <1>1 DEF PoolInv, PoolTypes, Query, Good, Running
<1>3. /\ new \in Query /\ new.step = "enter" /\ new.saved = query[q].saved
      /\ new.model = query[q].model /\ new.wanted = query[q].wanted
      /\ new.asked = query[q].asked /\ new.agent = query[q].agent /\ new.copy = query[q].copy
  BY <1>2 DEF Query, Building
<1>4. agents[a] \in Agent /\ agents[a].model \in Models /\ agents[a].tenant \in BOOLEAN
  BY <1>1, <1>2 DEF PoolInv, PoolTypes, Good, Running, Agent
<1>5. h \in Handler /\ h # NoHandler
  BY <1>4, SharedHandlerIsOne
<1>6. \/ /\ agents[a].handler # NoHandler /\ UNCHANGED <<agents, registry, built>>
      \/ /\ agents[a].handler = NoHandler
         /\ agents' = [agents EXCEPT ![a].handler = h]
         /\ registry' = [registry EXCEPT ![<<h.model, h.tenant>>] = h]
         /\ built' = IF h.id > built THEN h.id ELSE built
  BY DEF GetGraph
<1>7. h = registry[<<agents[a].model, agents[a].tenant>>]
      \/ /\ registry[<<agents[a].model, agents[a].tenant>>] = NoHandler
         /\ h.model = agents[a].model /\ h.tenant = agents[a].tenant /\ h.limits = limitVersion
  BY DEF SharedHandler
<1> HIDE DEF h, new
<1>8. query' \in [Queries -> Query] /\ \A p \in Queries : query'[p] = IF p = q THEN new ELSE query[p]
  BY <1>1, <1>3 DEF PoolInv, PoolTypes
<1>9. /\ agents' \in [AgentIds -> Agent]
      /\ \A b \in AgentIds :
           /\ agents'[b].model = agents[b].model /\ agents'[b].tenant = agents[b].tenant
           /\ agents'[b].setting = agents[b].setting
           /\ b # a => agents'[b].handler = agents[b].handler
           /\ agents[b].handler # NoHandler => agents'[b].handler = agents[b].handler
      /\ agents'[a].handler # NoHandler
      /\ agents[a].handler = NoHandler => agents'[a].handler = h
  <2>1. CASE UNCHANGED agents /\ agents[a].handler # NoHandler
    BY <2>1 DEF PoolInv, PoolTypes
  <2>2. CASE agents[a].handler = NoHandler /\ agents' = [agents EXCEPT ![a].handler = h]
    <3>1. agents \in [AgentIds -> Agent]
      BY DEF PoolInv, PoolTypes
    <3>2. [agents[a] EXCEPT !.handler = h] \in Agent
      BY <1>4, <1>5 DEF Agent
    <3>3. \A b \in AgentIds : agents'[b] = IF b = a THEN [agents[a] EXCEPT !.handler = h] ELSE agents[b]
      BY <2>2, <3>1
    <3>4. agents' \in [AgentIds -> Agent]
      BY <2>2, <3>1, <3>2
    <3>5. /\ agents'[a].handler = h /\ agents'[a].model = agents[a].model
          /\ agents'[a].tenant = agents[a].tenant /\ agents'[a].setting = agents[a].setting
      BY <3>3, <1>2, <1>4 DEF Agent
    <3>6. QED
      BY <2>2, <3>3, <3>4, <3>5, <1>5
  <2>3. QED
    BY <1>6, <2>1, <2>2
<1>10. registry' \in [Models \X BOOLEAN -> Handler \cup {NoHandler}] /\ built' \in Nat
  BY <1>5, <1>6 DEF PoolInv, PoolTypes, Handler
<1>11. PoolTypes'
  BY <1>1, <1>8, <1>9, <1>10 DEF PoolInv, PoolTypes
<1>12. ASSUME NEW p \in Queries PROVE Good(query[p])'
  <2>1. query[p] \in Query /\ Good(query[p])
    BY DEF PoolInv, PoolTypes
  <2>2. query[p].step \in Running => query[p].agent \in AgentIds
    BY <2>1 DEF Good, Query
  <2>3. CASE p = q
    BY <2>3, <1>1, <1>2, <1>3, <1>4, <1>8, <1>9 DEF Good, Running
  <2>4. CASE p # q
    BY <2>1, <2>2, <2>4, <1>8, <1>9 DEF Good, Running
  <2>5. QED
    BY <2>3, <2>4
<1>13. \A k \in Keys : cache[k] # NoAgent => cache[k] \in AgentIds
  BY DEF PoolInv, PoolTypes
<1>14. CacheGood' /\ SingleTenant'
  BY <1>1, <1>9, <1>13 DEF PoolInv, CacheGood, SingleTenant
<1>15. QuietSettings => CacheQuiet'
  BY <1>1, <1>9, <1>13 DEF PoolInv, CacheQuiet
<1>16. ASSUME QuietSettings, NEW p \in Queries PROVE Quiet(query[p])'
  <2>1. query[p] \in Query /\ Good(query[p]) /\ Quiet(query[p])
    BY <1>16 DEF PoolInv, PoolTypes
  <2>2. query[p].step \in Running => query[p].agent \in AgentIds
    BY <2>1 DEF Good, Query
  <2>3. CASE p = q
    BY <2>1, <2>2, <2>3, <1>1, <1>3, <1>8, <1>9 DEF Quiet, Running, Building
  <2>4. CASE p # q
    BY <2>1, <2>2, <2>4, <1>1, <1>8, <1>9, <1>13 DEF Quiet, Running, Building, Wants
  <2>5. QED
    BY <2>3, <2>4
<1>17. ASSUME Capped' PROVE OneHandler'
  <2> DEFINE m == agents[a].model
  <2>1. OneHandler /\ limitVersion = 0 /\ agents[a].tenant = FALSE
    BY <1>1, <1>2, <1>17 DEF PoolInv, Capped, SingleTenant
  <2>2. registry \in [Models \X BOOLEAN -> Handler \cup {NoHandler}] /\ <<m, FALSE>> \in Models \X BOOLEAN
    BY <1>4 DEF PoolInv, PoolTypes
  <2>3. h.model = m /\ h.limits = 0 /\ h.tenant = FALSE
    BY <1>4, <1>5, <1>7, <2>1 DEF OneHandler
  <2>4. h = registry[<<m, FALSE>>] \/ registry[<<m, FALSE>>] = NoHandler
    BY <1>7, <2>1
  <2>5. \/ agents[a].handler # NoHandler /\ registry' = registry
        \/ agents[a].handler = NoHandler /\ registry' = [registry EXCEPT ![<<m, FALSE>>] = h]
    BY <1>6, <2>3
  <2>6. \A n \in Models : registry[<<n, FALSE>>] # NoHandler =>
           registry'[<<n, FALSE>>] = registry[<<n, FALSE>>]
    BY <2>2, <2>4, <2>5
  <2>7. agents[a].handler = NoHandler => registry'[<<m, FALSE>>] = h
    BY <2>2, <2>5
  <2>8. ASSUME NEW b \in AgentIds, agents'[b].handler # NoHandler
        PROVE  agents'[b].model \in Models /\ agents'[b].handler = registry'[<<agents'[b].model, FALSE>>]
    <3>1. CASE agents[b].handler # NoHandler
      <4>1. agents[b].model \in Models /\ agents[b].handler = registry[<<agents[b].model, FALSE>>]
        BY <3>1, <2>1 DEF OneHandler
      <4>2. registry'[<<agents[b].model, FALSE>>] = agents[b].handler
        BY <3>1, <4>1, <2>6
      <4>3. agents'[b].model = agents[b].model /\ agents'[b].handler = agents[b].handler
        BY <3>1, <1>9
      <4>4. QED
        BY <4>1, <4>2, <4>3
    <3>2. CASE agents[b].handler = NoHandler
      <4>1. b = a
        BY <3>2, <2>8, <1>9
      <4>2. QED
        BY <4>1, <3>2, <2>7, <1>4, <1>9
    <3>3. QED
      BY <3>1, <3>2
  <2>9. ASSUME NEW n \in Models, registry'[<<n, FALSE>>] # NoHandler
        PROVE  /\ registry'[<<n, FALSE>>].model = n
               /\ registry'[<<n, FALSE>>].limits = 0
               /\ registry'[<<n, FALSE>>].tenant = FALSE
    <3>1. registry'[<<n, FALSE>>] = registry[<<n, FALSE>>] \/ (n = m /\ registry'[<<n, FALSE>>] = h)
      BY <2>2, <2>5
    <3>2. QED
      BY <3>1, <2>9, <2>1, <2>3 DEF OneHandler
  <2>10. QED
    BY <2>1, <2>8, <2>9, <1>1 DEF OneHandler
<1>18. ASSUME NEW m \in Models PROVE CallingOn(m)' \subseteq CallingOn(m)
  <2> SUFFICES ASSUME NEW p \in Queries, query'[p].step = "call", agents'[query'[p].agent].model = m
               PROVE  p \in CallingOn(m)
    BY DEF CallingOn, Calling
  <2>1. p # q /\ query'[p] = query[p]
    BY <1>3, <1>8
  <2>2. query[p].agent \in AgentIds
    BY <2>1 DEF PoolInv, PoolTypes, Query, Good, Running
  <2>3. QED
    BY <2>1, <2>2, <1>9 DEF CallingOn, Calling
<1>19. CapPerModel'
  BY <1>1, <1>18, CapKept
<1>20. QED
  BY <1>11, <1>12, <1>14, <1>15, <1>16, <1>17, <1>19 DEF PoolInv

\* An agent is stored under an id nobody uses, and the agents in use stay as
\* they are.
LEMMA StoreAgentStep ==
    ASSUME PoolInv, NEW q \in Queries, StoreAgent(q)
    PROVE  PoolInv'
<1> DEFINE a == CHOOSE a \in AgentIds \ InUse : TRUE
           k == SlotOf(query[q].ws, query[q].model)
           new == [Got(q, a) EXCEPT !.model = query[q].model]
<1>1. /\ query[q].step = "store" /\ AgentIds \ InUse # {}
      /\ query' = [query EXCEPT ![q] = new] /\ cache' = [cache EXCEPT ![k] = a]
      /\ agents' = [b \in AgentIds |->
                      IF b = a THEN query[q].copy ELSE IF b \in InUse THEN agents[b] ELSE NoConfig]
      /\ UNCHANGED <<setting, default, limitVersion, provider, request, registry, built>>
  BY DEF StoreAgent, Local, config
<1>2. a \in AgentIds /\ a \notin InUse
  BY <1>1
<1> HIDE DEF a
<1>3. /\ query[q] \in Query /\ Good(query[q]) /\ (QuietSettings => Quiet(query[q]))
  BY DEF PoolInv, PoolTypes
<1>4. query[q].model \in Models /\ query[q].copy \in Agent
  BY <1>1, <1>3 DEF Good, Query
<1>5. k \in Keys /\ k[2] = query[q].model
  BY <1>3, <1>4 DEF SlotOf, Keys, Query
<1>6. /\ new \in Query /\ new.step = "graph" /\ new.agent = a /\ new.model = query[q].model
      /\ new.saved = FALSE /\ new.copy = NoConfig /\ new.asked = query[q].asked
  <2> DEFINE g == Got(q, a)
  <2>1. /\ g \in Query /\ g.step = "graph" /\ g.agent = a /\ g.saved = FALSE
        /\ g.copy = NoConfig /\ g.asked = query[q].asked
    BY <1>2, GotTyped
  <2> HIDE DEF g
  <2>2. new = [g EXCEPT !.model = query[q].model]
    BY DEF g
  <2> HIDE DEF new
  <2>3. QED
    BY <2>1, <2>2, <1>4 DEF Query
<1> HIDE DEF new, k
<1>7. query' \in [Queries -> Query] /\ \A p \in Queries : query'[p] = IF p = q THEN new ELSE query[p]
  BY <1>1, <1>6 DEF PoolInv, PoolTypes
<1>8. /\ cache' \in [Keys -> AgentIds \cup {NoAgent}]
      /\ \A j \in Keys : cache'[j] = IF j = k THEN a ELSE cache[j]
  BY <1>1, <1>2, <1>5 DEF PoolInv, PoolTypes
<1>9. /\ agents' \in [AgentIds -> Agent] /\ agents'[a] = query[q].copy
      /\ \A b \in AgentIds \cap InUse : b # a /\ agents'[b] = agents[b]
      /\ \A b \in AgentIds : b # a => agents'[b] = agents[b] \/ agents'[b] = NoConfig
  BY <1>1, <1>2, <1>4, IdleTyped DEF PoolInv, PoolTypes
<1>10. PoolTypes'
  BY <1>1, <1>7, <1>8, <1>9 DEF PoolInv, PoolTypes
<1>11. \A j \in Keys : cache[j] # NoAgent => cache[j] \in AgentIds \cap InUse
  BY DEF InUse, PoolInv, PoolTypes
<1>12. \A p \in Queries : query[p].step \in Running => query[p].agent \in AgentIds \cap InUse
  BY DEF InUse, PoolInv, PoolTypes, Query, Good
<1>13. a # NoAgent
  BY <1>2, PoolAssumption
<1>14. ASSUME NEW p \in Queries PROVE Good(query[p])'
  <2>1. CASE p = q
    <3>1. agents'[a].model \in Models
      BY <1>1, <1>3, <1>9 DEF Good
    <3>2. query'[p] = new
      BY <2>1, <1>7
    <3>3. QED
      BY <3>1, <3>2, <1>4, <1>6, <1>13, IdleTyped DEF Good, Running
  <2>2. CASE p # q
    <3>1. Good(query[p]) /\ query'[p] = query[p]
      BY <2>2, <1>7 DEF PoolInv
    <3>2. QED
      BY <3>1, <1>9, <1>12 DEF Good, Running
  <2>3. QED
    BY <2>1, <2>2
<1>15. CacheGood'
  BY <1>1, <1>3, <1>8, <1>9, <1>11 DEF PoolInv, CacheGood, Good
<1>16. SingleTenant'
  <2>1. ASSUME ~MultiTenant, NEW b \in AgentIds PROVE agents'[b].tenant = FALSE
    BY <2>1, <1>3, <1>9, IdleTyped DEF PoolInv, SingleTenant, Good
  <2>2. QED
    BY <2>1, <1>1 DEF PoolInv, SingleTenant
<1>17. ASSUME QuietSettings PROVE CacheQuiet' /\ \A p \in Queries : Quiet(query[p])'
  <2>1. agents'[a].model = query[q].model /\ agents'[a].setting = setting /\ query[q].asked <= setting
    BY <1>1, <1>3, <1>9, <1>17 DEF Quiet
  <2>2. CacheQuiet'
    BY <2>1, <1>1, <1>5, <1>8, <1>9, <1>11, <1>17 DEF PoolInv, CacheQuiet
  <2>3. ASSUME NEW p \in Queries PROVE Quiet(query[p])'
    <3>0. setting \in Nat /\ \A r \in Queries : query[r].asked \in Nat
      BY DEF PoolInv, PoolTypes, Query
    <3>1. CASE p = q
      <4>1. query'[p] = new
        BY <3>1, <1>7
      <4>2. QED
        BY <3>0, <4>1, <2>1, <1>1, <1>6 DEF Quiet, Running, Building
    <3>2. CASE p # q
      <4>1. Quiet(query[p]) /\ query'[p] = query[p]
        BY <3>2, <1>7, <1>17 DEF PoolInv
      <4>2. query[p].step = "lookup" =>
              \A j \in Keys : cache'[j] # NoAgent => agents'[cache'[j]].setting >= query[p].asked
        BY <4>1, <3>0, <2>1, <1>8, <1>9, <1>11 DEF Quiet
      <4>3. QED
        BY <4>1, <4>2, <1>1, <1>9, <1>12 DEF Quiet, Wants, Running
    <3>3. QED
      BY <3>1, <3>2
  <2>4. QED
    BY <2>2, <2>3
<1>18. Capped' => OneHandler'
  <2>1. \A b \in AgentIds : agents'[b].handler # NoHandler => agents'[b] = agents[b]
    BY <1>1, <1>3, <1>9, IdleTyped DEF Good
  <2>2. QED
    BY <2>1, <1>1 DEF PoolInv, OneHandler, Capped
<1>19. ASSUME NEW m \in Models PROVE CallingOn(m)' \subseteq CallingOn(m)
  <2> SUFFICES ASSUME NEW p \in Queries, query'[p].step = "call", agents'[query'[p].agent].model = m
               PROVE  p \in CallingOn(m)
    BY DEF CallingOn, Calling
  <2>1. p # q /\ query'[p] = query[p]
    BY <1>6, <1>7
  <2>2. QED
    BY <2>1, <1>9, <1>12 DEF CallingOn, Calling, Running
<1>20. CapPerModel'
  BY <1>1, <1>19, CapKept
<1>21. QED
  BY <1>10, <1>14, <1>15, <1>16, <1>17, <1>18, <1>20 DEF PoolInv

LEMMA PoolStep == PoolInv /\ [PoolNext]_poolVars => PoolInv'
<1> SUFFICES ASSUME PoolInv, [PoolNext]_poolVars PROVE PoolInv'
  OBVIOUS
<1>1. CASE Settings
  BY <1>1, SettingsStep
<1>2. ASSUME NEW q \in Queries, NEW w \in Workspaces, NEW m \in Models \cup {NoModel}, StartQuery(q, w, m)
      PROVE  PoolInv'
  BY <1>2, StartQueryStep
<1>3. ASSUME NEW q \in Queries, GetAgent(q) PROVE PoolInv'
  BY <1>3, LookupStep, CopyingStep, StoreAgentStep DEF GetAgent
<1>4. ASSUME NEW q \in Queries, GetGraph(q) PROVE PoolInv'
  BY <1>4, GetGraphStep
<1>5. ASSUME NEW q \in Queries, EnterGate(q) PROVE PoolInv'
  BY <1>5, EnterGateStep
<1>6. ASSUME NEW q \in Queries, LeaveGate(q) PROVE PoolInv'
  BY <1>6, LeaveGateStep
<1>7. CASE UNCHANGED poolVars
  BY <1>7 DEF poolVars, config, PoolInv, PoolTypes, Good, Quiet, Wants, CacheGood, CacheQuiet, SingleTenant,
              Capped, OneHandler, CapPerModel, Calling
<1>8. QED
  BY <1>1, <1>2, <1>3, <1>4, <1>5, <1>6, <1>7 DEF PoolNext

LEMMA PoolInvariant == PoolSpec => []PoolInv
<1>1. QED
  BY PoolInitially, PoolStep, PTL DEF PoolSpec

\* The concurrency limit of a model holds across all agents that use it,
\* however many agents two threads or a change of settings left beside each
\* other, with any number of queries.
THEOREM CapHolds == PoolSpec => []CapPerModel
<1>1. PoolInv => CapPerModel
  BY DEF PoolInv
<1>2. QED
  BY <1>1, PoolInvariant, PTL

\* While no setting changes under an agent that is being built, get_agent gives
\* a query the model it asked for, whatever two threads store over each other.
THEOREM ModelIsRight == PoolSpec => [](QuietSettings => RightModel)
<1>1. PoolInv => (QuietSettings => RightModel)
  BY DEF PoolInv, PoolTypes, Query, RightModel, Good, Quiet, Running
<1>2. QED
  BY <1>1, PoolInvariant, PTL

\* Under the same condition no query runs with settings older than the ones in
\* force when it was made.
THEOREM AgentIsFresh == PoolSpec => [](QuietSettings => NoStaleAgent)
<1>1. PoolInv => (QuietSettings => NoStaleAgent)
  BY DEF PoolInv, PoolTypes, Query, NoStaleAgent, Good, Quiet, Running
<1>2. QED
  BY <1>1, PoolInvariant, PTL
================================================================================
