--------------------------- MODULE WatchMode_proofs ---------------------------
(***************************************************************************)
(* Proof about WatchMode for any number of workspaces, directories, timer  *)
(* threads, changes, failures, requests and restarts: what the dashboard   *)
(* shows as running has a sync.                                            *)
(***************************************************************************)
EXTENDS WatchMode, TLAPS

Sync == [ws : Workspaces \cup {NoWorkspace}, step : SyncSteps, found : [Dirs -> Nat]]

\* The part of the types that the proof rests on.
SyncTypes ==
    /\ version \in [Dirs -> Nat]
    /\ sync \in [Threads -> Sync]
    /\ status \in [Workspaces -> {"none", "idle", "running", "error"}]
    /\ registered \subseteq Workspaces

\* A request that is about a workspace names one.
RequestGood ==
    /\ request \in [op : {"none", "add", "remove", "trigger", "stop"},
                    ws : Workspaces \cup {NoWorkspace},
                    step : {"idle", "unschedule", "register", "schedule", "sync", "stopObserver"}]
    /\ request.step \in {"unschedule", "register", "schedule"} => request.ws \in Workspaces

\* The status alone is inductive: nothing but its sync sets it to running, the
\* end of any sync sets it back, and a registration begins with idle.
WatchInv == SyncTypes /\ RequestGood /\ RunningMeansSync

LEMMA NoSyncTyped == NoSync \in Sync /\ NoSync.step = "idle"
BY DEF NoSync, NothingFound, Sync, SyncSteps

LEMMA WatchInit == Init => WatchInv
BY NoSyncTyped
DEF Init, WatchInv, SyncTypes, RunningMeansSync, RequestGood, NoRequest

\* A step that leaves syncs and the status alone.
LEMMA NothingStarts ==
    ASSUME WatchInv, RequestGood', version' \in [Dirs -> Nat], sync' = sync, status' = status,
           registered' \subseteq registered
    PROVE  WatchInv'
BY DEF WatchInv, SyncTypes, RunningMeansSync

\* A thread begins a sync or goes on with one.
LEMMA ThreadGoesOn ==
    ASSUME WatchInv, RequestGood', NEW t \in Threads, NEW new \in Sync, new.step # "idle",
           sync[t].step = "idle" \/ new.ws = sync[t].ws,
           sync' = [sync EXCEPT ![t] = new],
           version' = version, registered' = registered,
           \/ status' = status
           \/ status' = [status EXCEPT ![new.ws] = IF @ = "none" THEN @ ELSE "running"]
    PROVE  WatchInv'
<1>1. /\ sync' \in [Threads -> Sync] /\ sync'[t] = new
      /\ \A u \in Threads : u # t => sync'[u] = sync[u]
  BY DEF WatchInv, SyncTypes
<1>2. status' \in [Workspaces -> {"none", "idle", "running", "error"}]
  BY DEF WatchInv, SyncTypes
<1>3. ASSUME NEW w \in registered, status'[w] = "running"
      PROVE  \E u \in Threads : sync'[u].ws = w /\ sync'[u].step # "idle"
  <2>1. CASE new.ws = w
    BY <1>1, <2>1
  <2>2. CASE new.ws # w
    <3>1. status[w] = "running"
      BY <1>3, <2>2 DEF WatchInv, SyncTypes
    <3>2. PICK u \in Threads : sync[u].ws = w /\ sync[u].step # "idle"
      BY <3>1 DEF WatchInv, RunningMeansSync
    <3>3. u # t
      BY <2>2, <3>2
    <3>4. QED
      BY <1>1, <3>2, <3>3
  <2>3. QED
    BY <2>1, <2>2
<1>4. QED
  BY <1>1, <1>2, <1>3 DEF WatchInv, SyncTypes, RunningMeansSync

LEMMA BeginGoesOn ==
    ASSUME WatchInv, RequestGood', NEW t \in Threads, NEW w \in Workspaces,
           sync[t].step = "idle", Begin(t, w),
           UNCHANGED <<version, registered, status>>
    PROVE  WatchInv'
<1> DEFINE new == [NoSync EXCEPT !.ws = w, !.step = "record"]
<1>1. new \in Sync /\ new.step = "record"
  BY NoSyncTyped DEF Sync, SyncSteps
<1>2. sync' = [sync EXCEPT ![t] = new]
  BY DEF Begin
<1> HIDE DEF new
<1>3. QED
  BY <1>1, <1>2, ThreadGoesOn

LEMMA StepGoesOn ==
    ASSUME WatchInv, RequestGood', NEW t \in Threads, NEW step \in SyncSteps \ {"idle"},
           SyncStep(t, step), version' = version, registered' = registered,
           \/ status' = status
           \/ status' = [status EXCEPT ![sync[t].ws] = IF @ = "none" THEN @ ELSE "running"]
    PROVE  WatchInv'
<1>1. sync[t] \in Sync
  BY DEF WatchInv, SyncTypes
<1> DEFINE new == [sync[t] EXCEPT !.step = step]
<1>2. new \in Sync /\ new.step = step /\ new.ws = sync[t].ws
  BY <1>1 DEF Sync
<1>3. sync' = [sync EXCEPT ![t] = new]
  BY DEF SyncStep
<1> HIDE DEF new
<1>4. new.step # "idle"
  BY <1>2
<1>5. QED
  BY <1>2, <1>3, <1>4, ThreadGoesOn

LEMMA WatchStep == WatchInv /\ [Next]_vars => WatchInv'
<1> SUFFICES ASSUME WatchInv, [Next]_vars PROVE WatchInv'
  OBVIOUS
<1>0. SyncTypes /\ RequestGood /\ RunningMeansSync
  BY DEF WatchInv
<1> USE DEF files, observer, timers, bounds, db
<1>1. ASSUME NEW d \in Dirs, Change(d) PROVE WatchInv'
  <2>1. version' \in [Dirs -> Nat]
    BY <1>0, <1>1 DEF Change, SyncTypes
  <2>2. RequestGood'
    BY <1>0, <1>1 DEF Change, RequestGood
  <2>3. QED
    BY <1>1, <2>1, <2>2, NothingStarts DEF Change
<1>2. ASSUME NEW d \in Dirs, Dispatch(d) PROVE WatchInv'
  BY <1>0, <1>2, NothingStarts DEF Dispatch, RequestGood, SyncTypes
<1>3. ASSUME NEW t \in Timers, NEW w \in Workspaces, Fire(t, w) PROVE WatchInv'
  <2>1. t \in Threads /\ RequestGood' /\ sync[t].step = "idle"
        /\ UNCHANGED <<version, registered, status>>
    BY <1>0, <1>3 DEF Threads, Fire, RequestGood
  <2>2. Begin(t, w) \/ sync' = sync
    BY <1>3 DEF Fire
  <2>3. QED
    BY <1>0, <2>1, <2>2, BeginGoesOn, NothingStarts DEF SyncTypes
<1>4. ASSUME NEW t \in Threads, SetRunning(t) PROVE WatchInv'
  BY <1>0, <1>4, StepGoesOn DEF SetRunning, RequestGood, SyncSteps
<1>5. ASSUME NEW t \in Threads, Walk(t) PROVE WatchInv'
  <2>1. sync[t] \in Sync /\ version \in [Dirs -> Nat]
    BY <1>0 DEF SyncTypes
  <2> DEFINE new == [sync[t] EXCEPT !.step = "index", !.found = version]
  <2>2. new \in Sync /\ new.step = "index" /\ new.ws = sync[t].ws
    BY <2>1 DEF Sync, SyncSteps
  <2>3. sync' = [sync EXCEPT ![t] = new]
    BY <1>5 DEF Walk
  <2> HIDE DEF new
  <2>4. RequestGood' /\ UNCHANGED <<version, registered, status>>
    BY <1>0, <1>5 DEF Walk, RequestGood
  <2>5. QED
    BY <2>2, <2>3, <2>4, ThreadGoesOn
<1>6. ASSUME NEW t \in Threads, Ingested(t) PROVE WatchInv'
  <2>1. RequestGood' /\ UNCHANGED <<version, registered, status>>
    BY <1>0, <1>6 DEF Ingested, RequestGood
  <2>2. SyncStep(t, "completed") \/ SyncStep(t, "failed")
    BY <1>6 DEF Ingested
  <2>3. QED
    BY <2>1, <2>2, StepGoesOn DEF SyncSteps
<1>7. ASSUME NEW t \in Threads, SetComplete(t) PROVE WatchInv'
  <2> DEFINE w == sync[t].ws
  <2>1. /\ sync' = [sync EXCEPT ![t] = NoSync]
        /\ status' = [status EXCEPT ![w] = IF @ = "none" THEN @
                          ELSE IF sync[t].step = "failed" THEN "error" ELSE "idle"]
        /\ UNCHANGED <<version, registered, request>>
    BY <1>7 DEF SetComplete
  <2>2. SyncTypes'
    BY <1>0, <2>1, NoSyncTyped DEF SyncTypes
  <2>3. ASSUME NEW v \in registered, status'[v] = "running"
        PROVE  \E u \in Threads : sync'[u].ws = v /\ sync'[u].step # "idle"
    <3>1. v \in Workspaces
      BY <1>0 DEF SyncTypes
    <3>2. v # w
      BY <1>0, <2>1, <2>3, <3>1 DEF SyncTypes
    <3>3. status[v] = "running"
      BY <1>0, <2>1, <2>3, <3>1, <3>2 DEF SyncTypes
    <3>4. PICK u \in Threads : sync[u].ws = v /\ sync[u].step # "idle"
      BY <1>0, <3>3 DEF RunningMeansSync
    <3>5. sync'[u] = sync[u]
      BY <1>0, <2>1, <3>2, <3>4 DEF SyncTypes
    <3>6. QED
      BY <3>4, <3>5
  <2>4. RunningMeansSync'
    BY <2>1, <2>3 DEF RunningMeansSync
  <2>5. QED
    BY <1>0, <2>1, <2>2, <2>4 DEF WatchInv, RequestGood
<1>8. ASSUME NEW w \in Workspaces, NEW op \in {"add", "remove"}, Remove(op, w) PROVE WatchInv'
  <2>1. RequestGood'
    BY <1>8 DEF Remove, Accept, RequestGood
  <2>2. QED
    BY <1>0, <1>8, <2>1, NothingStarts DEF Remove, SyncTypes
<1>9. ASSUME NEW w \in Workspaces, TriggerNow(w) PROVE WatchInv'
  <2>1. RequestGood'
    BY <1>9 DEF TriggerNow, Accept, RequestGood
  <2>2. sync[EventLoop].step = "idle" /\ EventLoop \in Threads
    BY <1>9, NoSyncTyped DEF TriggerNow, Accept, Threads
  <2>3. QED
    BY <1>9, <2>1, <2>2, BeginGoesOn DEF TriggerNow
<1>10. CASE CancelTimers
  <2>1. RequestGood'
    BY <1>10 DEF CancelTimers, Accept, RequestGood
  <2>2. QED
    BY <1>0, <1>10, <2>1, NothingStarts DEF CancelTimers, SyncTypes
<1>11. CASE Unschedule
  <2>1. RequestGood'
    BY <1>0, <1>11 DEF Unschedule, Proceed, RequestGood, NoRequest
  <2>2. QED
    BY <1>0, <1>11, <2>1, NothingStarts DEF Unschedule, SyncTypes
<1>12. CASE Register
  <2> DEFINE w == request.ws
  <2>1. /\ registered' = registered \cup {w} /\ status' = [status EXCEPT ![w] = "idle"]
        /\ UNCHANGED <<version, sync>> /\ w \in Workspaces
    BY <1>0, <1>12 DEF Register, RequestGood
  <2>2. SyncTypes'
    BY <1>0, <2>1 DEF SyncTypes
  <2>3. RunningMeansSync'
    BY <1>0, <2>1 DEF SyncTypes, RunningMeansSync
  <2>4. request' = [request EXCEPT !.step = "schedule"]
    BY <1>12 DEF Register, Proceed
  <2>5. QED
    BY <1>0, <2>1, <2>2, <2>3, <2>4 DEF WatchInv, RequestGood
<1>13. CASE Schedule \/ Triggered \/ StopObserver
  <2>1. request' = NoRequest /\ UNCHANGED <<version, sync, status>>
        /\ registered' \subseteq registered
    BY <1>13 DEF Schedule, Triggered, StopObserver
  <2>2. RequestGood'
    BY <2>1 DEF RequestGood, NoRequest
  <2>3. QED
    BY <1>0, <2>1, <2>2, NothingStarts DEF SyncTypes
<1>14. CASE Restart
  <2>1. /\ sync' = [t \in Threads |-> NoSync] /\ registered' = {} /\ request' = NoRequest
        /\ UNCHANGED <<version, status>>
    BY <1>14 DEF Restart
  <2>2. QED
    BY <1>0, <2>1, NoSyncTyped
    DEF WatchInv, SyncTypes, RequestGood, NoRequest, RunningMeansSync
<1>15. CASE UNCHANGED vars
  BY <1>0, <1>15, NothingStarts DEF vars, RequestGood, SyncTypes
<1>16. QED
  BY <1>1, <1>2, <1>3, <1>4, <1>5, <1>6, <1>7, <1>8, <1>9, <1>10, <1>11, <1>12, <1>13, <1>14,
     <1>15 DEF Next, RunSync, HandleRequest

\* What is shown as running has a sync, also after failures, overlapping syncs,
\* removals and restarts.
THEOREM RunningIsTrue == Spec => []RunningMeansSync
<1>1. WatchInv => RunningMeansSync
  BY DEF WatchInv
<1>2. QED
  BY <1>1, WatchInit, WatchStep, PTL DEF Spec
=============================================================================
