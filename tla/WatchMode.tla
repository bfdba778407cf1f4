------------------------------ MODULE WatchMode ------------------------------
(***************************************************************************)
(* Watch mode: scheduler/watch_mode.py as the dashboard drives it          *)
(* (ui/api_routes.py) and the framework's delete_workspace                 *)
(* (core/framework.py), and the sync state in workspace/metadata_db.py.    *)
(*                                                                         *)
(* File events go through the watchdog observer to a debouncer per         *)
(* workspace, whose timer thread runs the sync.  Four kinds of threads     *)
(* meet here: the observer, the timers that have fired, the event loop     *)
(* that executes the dashboard's requests one after the other, and the     *)
(* users who change files.  Nothing keeps two syncs of a workspace apart.  *)
(*                                                                         *)
(* What a sync does to the index is the subject of Ingestion; here it is   *)
(* the version of each directory that it found.                            *)
(***************************************************************************)
EXTENDS Naturals, FiniteSets

CONSTANTS
    Workspaces, Dirs,
    DirsOf,       \* [Workspaces -> SUBSET Dirs], document_dirs
    Timers,       \* timer threads that have fired and run a sync
    EventLoop,    \* the thread of the dashboard's requests
    Requests,     \* the requests made: "add", "remove", "trigger", "stop"
    MaxChanges,   \* bound: changes per directory
    MaxFailures,  \* bound: syncs that end with an exception or failed files
    MaxRequests,  \* bound: requests
    MaxRestarts,  \* bound: restarts of the process
    NoWorkspace

Threads == Timers \cup {EventLoop}

ASSUME ConstantsAssumption ==
    /\ DirsOf \in [Workspaces -> SUBSET Dirs]
    /\ EventLoop \notin Timers
    /\ Requests \subseteq {"add", "remove", "trigger", "stop"}
    /\ {MaxChanges, MaxFailures, MaxRequests, MaxRestarts} \subseteq Nat
    /\ NoWorkspace \notin Workspaces

VARIABLES
    version,    \* [Dirs -> Nat]: how often files of a directory changed
    indexed,    \* [Workspaces -> [Dirs -> Nat]]: the version the index has
    heard,      \* history: the last version of a directory that was made while
                \* its workspace was watched, since it was last added
    registered, \* workspaces in _workspace_configs
    handlers,   \* [Dirs -> SUBSET Workspaces]: handlers on the observer's watch
    watches,    \* _watches: [Workspaces -> SUBSET Dirs]
    queued,     \* directories with an event in the observer's queue
    timer,      \* [Workspaces -> "none", "armed", "fired"]: _timer of the debouncer
    orphans,    \* workspaces with an armed timer of a replaced debouncer
    leftovers,  \* workspaces with an armed timer of a stopped watcher
    request,    \* what the event loop is doing: [op, ws, step]
    sync,       \* [Threads -> [ws, step, found]]: the syncs that run
    status,     \* sync_jobs.sync_status, "none": no row
    failedRuns, \* workspaces with a row in sync_history that has failed > 0
    failures, requests, restarts

files    == <<version, indexed, heard>>
observer == <<handlers, watches, queued>>
timers   == <<timer, orphans, leftovers>>
bounds   == <<failures, requests, restarts>>
db       == <<status, failedRuns>>
vars     == <<files, registered, observer, timers, request, sync, db, bounds>>

NoRequest == [op |-> "none", ws |-> NoWorkspace, step |-> "idle"]
NothingFound == [d \in Dirs |-> 0]
NoSync == [ws |-> NoWorkspace, step |-> "idle", found |-> NothingFound]

Init ==
    /\ version = [d \in Dirs |-> 0]
    /\ indexed = [w \in Workspaces |-> NothingFound]
    /\ heard = [w \in Workspaces |-> NothingFound]
    /\ registered = {}
    /\ handlers = [d \in Dirs |-> {}]
    /\ watches = [w \in Workspaces |-> {}]
    /\ queued = {}
    /\ timer = [w \in Workspaces |-> "none"]
    /\ orphans = {}
    /\ leftovers = {}
    /\ request = NoRequest
    /\ sync = [t \in Threads |-> NoSync]
    /\ status = [w \in Workspaces |-> "none"]
    /\ failedRuns = {}
    /\ failures = 0
    /\ requests = 0
    /\ restarts = 0

-----------------------------------------------------------------------------
(* Files, the observer and the debouncers. *)

\* A file is created, modified, moved or deleted; the operating system tells
\* an observer that watches the directory.
Change(d) ==
    /\ version[d] < MaxChanges
    /\ version' = [version EXCEPT ![d] = @ + 1]
    /\ queued' = IF handlers[d] = {} THEN queued ELSE queued \cup {d}
    /\ heard' = [w \in Workspaces |->
                   IF w \in handlers[d] THEN [heard[w] EXCEPT ![d] = version'[d]] ELSE heard[w]]
    /\ UNCHANGED <<indexed, registered, handlers, watches, timers, request, sync, db, bounds>>

\* Mutant: a debouncer that only starts a timer if it has none; _timer is
\* never reset after it fired.
Dispatch_FirstOnly(d) ==
    /\ d \in queued
    /\ queued' = queued \ {d}
    /\ LET told == handlers[d] IN
       /\ timer' = [w \in Workspaces |->
                      IF w \in told \cap registered /\ timer[w] = "none" THEN "armed" ELSE timer[w]]
       /\ orphans' = orphans \cup (told \ registered)
    /\ UNCHANGED <<files, registered, handlers, watches, leftovers, request, sync, db, bounds>>

\* The observer looks the handlers up when it takes the event, and each one
\* restarts the timer of its debouncer.  A workspace that is being removed has
\* lost its debouncer already, while the handler still refers to it.
Dispatch(d) ==
    /\ d \in queued
    /\ queued' = queued \ {d}
    /\ LET told == handlers[d] IN
       /\ timer' = [w \in Workspaces |-> IF w \in told \cap registered THEN "armed" ELSE timer[w]]
       /\ orphans' = orphans \cup (told \ registered)
    /\ UNCHANGED <<files, registered, handlers, watches, leftovers, request, sync, db, bounds>>

-----------------------------------------------------------------------------
(* _run_sync: history row, status, pipeline, history row, status.  Each    *)
(* access to the database is a transaction of its own.                     *)

Begin(t, w) == sync' = [sync EXCEPT ![t] = [NoSync EXCEPT !.ws = w, !.step = "record"]]
SyncStep(t, step) == sync' = [sync EXCEPT ![t].step = step]

\* A timer fires: the debounce period was quiet.
Fire(t, w) ==
    /\ sync[t].step = "idle"
    /\ \/ /\ timer[w] = "armed"
          /\ timer' = [timer EXCEPT ![w] = "fired"]
          /\ Begin(t, w)
          /\ UNCHANGED <<orphans, leftovers>>
       \/ /\ w \in orphans
          /\ orphans' = orphans \ {w}
          /\ IF w \in registered THEN Begin(t, w) ELSE UNCHANGED sync
          /\ UNCHANGED <<timer, leftovers>>
       \/ /\ w \in leftovers
          /\ leftovers' = leftovers \ {w}
          /\ Begin(t, w)
          /\ UNCHANGED <<timer, orphans>>
    /\ UNCHANGED <<files, registered, observer, request, db, bounds>>

\* record_sync_start, and set_sync_running, which updates a row if there is one.
SetRunning(t) ==
    LET w == sync[t].ws IN
    /\ sync[t].step = "record"
    /\ status' = [status EXCEPT ![w] = IF @ = "none" THEN @ ELSE "running"]
    /\ SyncStep(t, "walk")
    /\ UNCHANGED <<files, registered, observer, timers, request, failedRuns, bounds>>

\* IngestionPipeline.run looks at the directories ...
Walk(t) ==
    /\ sync[t].step = "walk"
    /\ sync' = [sync EXCEPT ![t].step = "index", ![t].found = version]
    /\ UNCHANGED <<files, registered, observer, timers, request, db, bounds>>

\* ... and brings what it found into the index, or fails.
Ingested(t) ==
    LET w == sync[t].ws IN
    /\ sync[t].step = "index"
    /\ \/ /\ indexed' = [indexed EXCEPT ![w] = [d \in Dirs |->
                           IF d \in DirsOf[w] /\ sync[t].found[d] > @[d]
                             THEN sync[t].found[d] ELSE @[d]]]
          /\ SyncStep(t, "completed")
          /\ UNCHANGED <<failedRuns, failures>>
       \/ /\ failures < MaxFailures
          /\ failures' = failures + 1
          /\ failedRuns' = failedRuns \cup {w}
          /\ SyncStep(t, "failed")
          /\ UNCHANGED indexed
    /\ UNCHANGED <<version, heard, registered, observer, timers, request, status, requests, restarts>>

\* Mutant: the error path of _run_sync forgets the status.
SetComplete_NotOnError(t) ==
    LET w == sync[t].ws IN
    /\ sync[t].step \in {"completed", "failed"}
    /\ status' = [status EXCEPT ![w] =
                    IF @ = "none" \/ sync[t].step = "failed" THEN @ ELSE "idle"]
    /\ sync' = [sync EXCEPT ![t] = NoSync]
    /\ UNCHANGED <<files, registered, observer, timers, request, failedRuns, bounds>>

\* set_sync_complete; record_sync_finish wrote the history row before it.
SetComplete(t) ==
    LET w == sync[t].ws IN
    /\ sync[t].step \in {"completed", "failed"}
    /\ status' = [status EXCEPT ![w] =
                    IF @ = "none" THEN @
                    ELSE IF sync[t].step = "failed" THEN "error" ELSE "idle"]
    /\ sync' = [sync EXCEPT ![t] = NoSync]
    /\ UNCHANGED <<files, registered, observer, timers, request, failedRuns, bounds>>

-----------------------------------------------------------------------------
(* The dashboard's requests.  They run on the event loop, one at a time,   *)
(* and their steps interleave with the observer and the timers.            *)

Accept(op, w, step) ==
    /\ request = NoRequest
    /\ sync[EventLoop] = NoSync
    /\ op \in Requests
    /\ requests < MaxRequests
    /\ requests' = requests + 1
    /\ request' = [op |-> op, ws |-> w, step |-> step]

Proceed(step) == request' = [request EXCEPT !.step = step]

\* remove_workspace, with which add_workspace begins and which the framework's
\* delete_workspace calls (the dashboard's deletion does not, and leaves the
\* workspace watched): forget the configuration, cancel the timer ...
Remove(op, w) ==
    /\ op = "remove" => w \in registered
    /\ Accept(op, w, "unschedule")
    /\ registered' = registered \ {w}
    /\ timer' = [timer EXCEPT ![w] = "none"]
    /\ UNCHANGED <<files, observer, orphans, leftovers, sync, db, failures, restarts>>

\* ... and take the watches down.  unschedule drops every handler of the
\* directory, also those of another workspace with the same directory.
Unschedule ==
    LET w == request.ws IN
    /\ request.step = "unschedule"
    /\ handlers' = [d \in Dirs |-> IF d \in watches[w] THEN {} ELSE handlers[d]]
    /\ watches' = [watches EXCEPT ![w] = {}]
    /\ IF request.op = "add" THEN Proceed("register") ELSE request' = NoRequest
    /\ UNCHANGED <<files, registered, queued, timers, sync, db, bounds>>

\* The new configuration, a new debouncer and the sync_jobs row, idle.
Register ==
    LET w == request.ws IN
    /\ request.step = "register"
    /\ registered' = registered \cup {w}
    /\ status' = [status EXCEPT ![w] = "idle"]
    /\ Proceed("schedule")
    /\ UNCHANGED <<files, observer, timers, sync, failedRuns, bounds>>

Schedule ==
    LET w == request.ws IN
    /\ request.step = "schedule"
    /\ handlers' = [d \in Dirs |-> IF d \in DirsOf[w] THEN handlers[d] \cup {w} ELSE handlers[d]]
    /\ watches' = [watches EXCEPT ![w] = DirsOf[w]]
    /\ heard' = [heard EXCEPT ![w] = NothingFound]
    /\ request' = NoRequest
    /\ UNCHANGED <<version, indexed, registered, queued, timers, sync, db, bounds>>

\* POST /watch/trigger: cancel the timer, then sync on the event loop itself,
\* which serves no other request until the sync is done.
TriggerNow(w) ==
    /\ w \in registered
    /\ Accept("trigger", w, "sync")
    /\ timer' = [timer EXCEPT ![w] = "none"]
    /\ Begin(EventLoop, w)
    /\ UNCHANGED <<files, registered, observer, orphans, leftovers, db, failures, restarts>>

\* The request is answered when the sync is over.
Triggered ==
    /\ request.step = "sync" /\ sync[EventLoop] = NoSync
    /\ request' = NoRequest
    /\ UNCHANGED <<files, registered, observer, timers, sync, db, bounds>>

\* DELETE /watch: the debouncers first ...
CancelTimers ==
    /\ registered # {}
    /\ Accept("stop", NoWorkspace, "stopObserver")
    /\ timer' = [w \in Workspaces |-> "none"]
    /\ UNCHANGED <<files, registered, observer, orphans, leftovers, sync, db, failures, restarts>>

\* ... then the observer, which drops its watches; the dashboard forgets the
\* watcher, and the next POST /watch makes a new one.
StopObserver ==
    /\ request.step = "stopObserver"
    /\ handlers' = [d \in Dirs |-> {}]
    /\ watches' = [w \in Workspaces |-> {}]
    /\ queued' = {}
    /\ leftovers' = leftovers \cup {w \in registered : timer[w] = "armed" \/ w \in orphans}
    /\ orphans' = {}
    /\ timer' = [w \in Workspaces |-> "none"]
    /\ registered' = {}
    /\ request' = NoRequest
    /\ UNCHANGED <<files, sync, db, bounds>>

\* The process dies and starts again; only the database and the index stay.
Restart ==
    /\ restarts < MaxRestarts
    /\ restarts' = restarts + 1
    /\ registered' = {}
    /\ handlers' = [d \in Dirs |-> {}]
    /\ watches' = [w \in Workspaces |-> {}]
    /\ queued' = {}
    /\ timer' = [w \in Workspaces |-> "none"]
    /\ orphans' = {} /\ leftovers' = {}
    /\ request' = NoRequest
    /\ sync' = [t \in Threads |-> NoSync]
    /\ UNCHANGED <<files, db, failures, requests>>

-----------------------------------------------------------------------------

RunSync(t) == SetRunning(t) \/ Walk(t) \/ Ingested(t) \/ SetComplete(t)

HandleRequest == Unschedule \/ Register \/ Schedule \/ Triggered \/ StopObserver

Next ==
    \/ \E d \in Dirs : Change(d) \/ Dispatch(d)
    \/ \E t \in Timers, w \in Workspaces : Fire(t, w)
    \/ \E t \in Threads : RunSync(t)
    \/ \E w \in Workspaces : Remove("add", w) \/ Remove("remove", w) \/ TriggerNow(w)
    \/ CancelTimers
    \/ HandleRequest
    \/ Restart

Spec == Init /\ [][Next]_vars

\* The observer and the timers run on, syncs and requests come to an end.
FairSpec ==
    /\ Spec
    /\ \A d \in Dirs : WF_vars(Dispatch(d))
    /\ \A w \in Workspaces : WF_vars(\E t \in Timers : Fire(t, w))
    /\ \A t \in Threads : WF_vars(RunSync(t))
    /\ WF_vars(HandleRequest)

-----------------------------------------------------------------------------
(* Properties. *)

SyncSteps == {"idle", "record", "walk", "index", "completed", "failed"}

\* Every variable stays in its type, and only a registered workspace has a
\* timer of its own.
TypeOK ==
    /\ version \in [Dirs -> 0..MaxChanges]
    /\ indexed \in [Workspaces -> [Dirs -> 0..MaxChanges]]
    /\ heard \in [Workspaces -> [Dirs -> 0..MaxChanges]]
    /\ registered \subseteq Workspaces
    /\ handlers \in [Dirs -> SUBSET Workspaces]
    /\ watches \in [Workspaces -> SUBSET Dirs]
    /\ queued \subseteq Dirs
    /\ timer \in [Workspaces -> {"none", "armed", "fired"}]
    /\ orphans \subseteq Workspaces
    /\ leftovers \subseteq Workspaces
    /\ request \in [op : {"none", "add", "remove", "trigger", "stop"},
                    ws : Workspaces \cup {NoWorkspace},
                    step : {"idle", "unschedule", "register", "schedule", "sync", "stopObserver"}]
    /\ sync \in [Threads -> [ws : Workspaces \cup {NoWorkspace}, step : SyncSteps,
                             found : [Dirs -> 0..MaxChanges]]]
    /\ status \in [Workspaces -> {"none", "idle", "running", "error"}]
    /\ failedRuns \subseteq Workspaces
    /\ failures \in 0..MaxFailures
    /\ requests \in 0..MaxRequests
    /\ restarts \in 0..MaxRestarts
    /\ \A w \in Workspaces : timer[w] # "none" => w \in registered

\* A registered workspace without a sync is not shown as running: not after a
\* sync that failed, not after two that overlapped, not after a restart that
\* cut one off.
RunningMeansSync ==
    \A w \in registered :
        status[w] = "running" => \E t \in Threads : sync[t].ws = w /\ sync[t].step # "idle"

Watched(w) == w \in registered /\ \A d \in DirsOf[w] : w \in handlers[d]

UpToDate(w) == \A d \in DirsOf[w] : indexed[w][d] >= heard[w][d]

\* When a workspace stays watched, every change made since it was added gets
\* into the index, or a failed run stands in the history: no debouncing, no
\* timer cancelled by a manual sync and no sync in progress swallows it.
EveryChangeSynced ==
    \A w \in Workspaces :
        (<>[]Watched(w)) => []<>(UpToDate(w) \/ w \in failedRuns)

\* "Stop the watcher and cancel any pending debounce timers": no timer of a
\* watcher that was stopped is left.
StopCancelsTimers == leftovers = {}
=============================================================================
