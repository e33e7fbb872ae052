------------------------ MODULE DiscoveryWorkspace -------------------------
(***************************************************************************)
(* DiscoveryWorkspace: discoveries started over HTTP, each with a worker   *)
(* thread, and a coroutine on the event loop of its own AsyncCoreRunner;   *)
(* the package a discovery stores; what clients are told of it; and        *)
(* replays of what is stored, also after the process died.                 *)
(*                                                                         *)
(* The worker waits for its coroutine up to the runner's time limit and    *)
(* then gives up, but the coroutine runs on.  Both write the run's status, *)
(* then its reason; clients read status and package without a lock.  A     *)
(* replay reads the store and its answer is ReplayEngine's: it is no step. *)
(***************************************************************************)
EXTENDS CapabilityStore, FiniteSets

CONSTANTS
    MaxRuns,        \* 8: runs a process keeps
    MaxCrashes      \* bound: how often the process dies

ASSUME WorkspaceAssumption == MaxRuns \in Nat /\ MaxCrashes \in Nat

Runs == Versions    \* capability_id is made of the run's identifier

VARIABLES
    runs,           \* the runs of this process
    summaries,      \* each run's summary.json
    discovered,     \* runs whose discovery succeeded
    told,           \* runs a client was told to have succeeded, and whether with a capability
    crashes

workspaceVars == <<storeVars, runs, summaries, discovered, told, crashes>>

WorkspaceInit ==
    /\ StoreInit
    /\ runs = << >>
    /\ summaries = << >>
    /\ discovered = {}
    /\ told = {}
    /\ crashes = 0

\* An entry made or replaced.
With(entries, key, value) ==
    [k \in DOMAIN entries \cup {key} |-> IF k = key THEN value ELSE entries[k]]

Known(r) == r \in DOMAIN runs
Core(r) == runs[r].core
Worker(r) == runs[r].worker

\* The coroutine before its result is out, and after its end.
Driving(r) == Core(r) \in {"opening", "discovering", "saving", "loading", "recording"}
Over(r) == Core(r) \in {"none", "returned", "raised"}

Change(r, new) == runs' = [runs EXCEPT ![r] = new]
Beside == UNCHANGED <<told, crashes>>

-----------------------------------------------------------------------------
(* start *)

\* Variant: only the number of runs is looked at.
AdmitsAnother(r) == ~ Known(r) /\ Cardinality(DOMAIN runs) < MaxRuns

\* Under the workspace's lock: no run is RUNNING, and there is room for one more.
Admits(r) ==
    /\ ~ Known(r)
    /\ \A s \in DOMAIN runs : runs[s].status # "RUNNING"
    /\ Cardinality(DOMAIN runs) < MaxRuns

Started == [status |-> "RUNNING", reason |-> "none", package |-> FALSE,
            worker |-> "starting", core |-> "none", late |-> FALSE]

\* A run's identifier is never used twice.
Start(r) ==
    /\ Admits(r)
    /\ disk[r]["directory"] = "absent" /\ r \notin discovered \cup DOMAIN summaries
    /\ runs' = With(runs, r, Started)
    /\ Beside /\ UNCHANGED <<storeVars, summaries, discovered>>

-----------------------------------------------------------------------------
(* The worker thread *)

WorkerStep(r) == Known(r) /\ Beside /\ UNCHANGED <<storeVars, discovered>>

CallsRunner(r) ==
    /\ WorkerStep(r)
    /\ Worker(r) = "starting"
    /\ Change(r, [runs[r] EXCEPT !.worker = "waiting", !.core = "opening"])
    /\ UNCHANGED summaries

\* The model client cannot be made.
CallFails(r) ==
    /\ WorkerStep(r)
    /\ Worker(r) = "starting"
    /\ Change(r, [runs[r] EXCEPT !.worker = "failing"])
    /\ UNCHANGED summaries

HearsResult(r) ==
    /\ WorkerStep(r)
    /\ Worker(r) = "waiting"
    /\ Over(r)
    /\ Change(r, [runs[r] EXCEPT !.worker = IF Core(r) = "raised" THEN "failing" ELSE "closing"])
    /\ UNCHANGED summaries

\* AsyncCoreRunner.run: the caller's wait ends, the coroutine is not cancelled.
GivesUp(r) ==
    /\ WorkerStep(r)
    /\ Worker(r) = "waiting"
    /\ ~ Over(r)
    /\ Change(r, [runs[r] EXCEPT !.worker = "failing", !.late = TRUE])
    /\ UNCHANGED summaries

\* Variant: a worker that gave up leaves the status to its coroutine.
SetsFailedIfOver(r) ==
    /\ WorkerStep(r)
    /\ Worker(r) = "failing"
    /\ Change(r, [runs[r] EXCEPT !.worker = "explaining",
                                 !.status = IF runs[r].late THEN @ ELSE "FAILED"])
    /\ UNCHANGED summaries

SetsFailed(r) ==
    /\ WorkerStep(r)
    /\ Worker(r) = "failing"
    /\ Change(r, [runs[r] EXCEPT !.worker = "explaining", !.status = "FAILED"])
    /\ UNCHANGED summaries

Explains(r) ==
    /\ WorkerStep(r)
    /\ Worker(r) = "explaining"
    /\ Change(r, [runs[r] EXCEPT !.worker = "closing", !.reason = "ERROR"])
    /\ UNCHANGED summaries

\* Closing the model client fails silently; writing the summary kills the thread if it fails.
Summarises(r) ==
    /\ WorkerStep(r)
    /\ Worker(r) = "closing"
    /\ Change(r, [runs[r] EXCEPT !.worker = "done"])
    /\ summaries' \in {summaries,
                       With(summaries, r,
                            [status |-> runs[r].status, package |-> runs[r].package])}

-----------------------------------------------------------------------------
(* The coroutine _discover: stop_session, in its finally, waits for nothing and is part *)
(* of the step that ends it                                                             *)

CoreStep(r) == Known(r) /\ Beside /\ UNCHANGED summaries

GoesOn(r, from, to) ==
    /\ CoreStep(r)
    /\ Core(r) = from
    /\ Change(r, [runs[r] EXCEPT !.core = to])
    /\ UNCHANGED <<storeVars, discovered>>

Opens(r) == GoesOn(r, "opening", "discovering")
OpenRaises(r) == GoesOn(r, "opening", "raised")

\* An outcome other than SUCCESS is published at once.
Ends(r, outcome) ==
    /\ CoreStep(r)
    /\ Core(r) = "discovering"
    /\ Change(r, [runs[r] EXCEPT !.core = "reasoning", !.status = outcome])
    /\ UNCHANGED <<storeVars, discovered>>

GivesReason(r) ==
    /\ CoreStep(r)
    /\ Core(r) = "reasoning"
    /\ Change(r, [runs[r] EXCEPT !.core = "returned", !.reason = "OUTCOME"])
    /\ UNCHANGED <<storeVars, discovered>>

\* Variant: success is published when it is discovered, and the package stored then.
SucceedsAtOnce(r) ==
    /\ CoreStep(r)
    /\ Core(r) = "discovering"
    /\ Change(r, [runs[r] EXCEPT !.core = "saving", !.status = "SUCCESS", !.package = TRUE])
    /\ discovered' = discovered \cup {r}
    /\ UNCHANGED storeVars

Succeeds(r) ==
    /\ CoreStep(r)
    /\ Core(r) = "discovering"
    /\ Change(r, [runs[r] EXCEPT !.core = "saving"])
    /\ discovered' = discovered \cup {r}
    /\ UNCHANGED storeVars

Saves(r) ==
    /\ CoreStep(r)
    /\ Core(r) = "saving"
    /\ Creates(r) \/ Writes(r)
    /\ Change(r, [runs[r] EXCEPT !.core = IF saved'[r] = Len(SaveSteps) THEN "loading" ELSE @])
    /\ UNCHANGED discovered

SavingRaises(r) ==
    /\ CoreStep(r)
    /\ Core(r) = "saving"
    /\ SaveRaises(r)
    /\ Change(r, [runs[r] EXCEPT !.core = "raised"])
    /\ UNCHANGED discovered

Reloads(r) ==
    /\ CoreStep(r)
    /\ Core(r) = "loading"
    /\ Loads(r)
    /\ Change(r, [runs[r] EXCEPT !.core = "recording", !.package = TRUE])
    /\ UNCHANGED <<storeVars, discovered>>

\* Observing, discovering, reading the package back or recording evidence raises.
DiscoverRaises(r) ==
    \E from \in {"discovering", "loading", "recording"} : GoesOn(r, from, "raised")

Publishes(r) ==
    /\ CoreStep(r)
    /\ Core(r) = "recording"
    /\ Change(r, [runs[r] EXCEPT !.core = "completing", !.status = "SUCCESS"])
    /\ UNCHANGED <<storeVars, discovered>>

Completes(r) ==
    /\ CoreStep(r)
    /\ Core(r) = "completing"
    /\ Change(r, [runs[r] EXCEPT !.core = "returned", !.reason = "COMPLETED"])
    /\ UNCHANGED <<storeVars, discovered>>

-----------------------------------------------------------------------------
(* Clients, and the process *)

\* status reads the run's status first and its package, which is only ever set, later: the
\* two reads at once are the worst case.  Only a success is told with consequences.
Answers(r) ==
    /\ Known(r)
    /\ runs[r].status = "SUCCESS"
    /\ told' = told \cup {[run |-> r, ready |-> runs[r].package]}
    /\ UNCHANGED <<storeVars, runs, summaries, discovered, crashes>>

\* replay_stored: the version is found, and it loads; torn files are refused.
Replayable(v) == Listed(v) /\ Loads(v)

\* The process dies and is started again: what is on disk is all that is left.
Crash ==
    /\ crashes < MaxCrashes
    /\ crashes' = crashes + 1
    /\ runs' = << >>
    /\ UNCHANGED <<storeVars, summaries, discovered, told>>

-----------------------------------------------------------------------------
WorkerMoves(r) ==
    \/ CallsRunner(r)
    \/ CallFails(r)
    \/ HearsResult(r)
    \/ GivesUp(r)
    \/ SetsFailed(r)
    \/ Explains(r)
    \/ Summarises(r)

CoreMoves(r) ==
    \/ Opens(r)
    \/ OpenRaises(r)
    \/ \E outcome \in {"FAILED", "INTERVENTION_REQUIRED"} : Ends(r, outcome)
    \/ GivesReason(r)
    \/ Succeeds(r)
    \/ Saves(r)
    \/ SavingRaises(r)
    \/ Reloads(r)
    \/ DiscoverRaises(r)
    \/ Publishes(r)
    \/ Completes(r)

WorkspaceNext ==
    \/ \E r \in Runs : Start(r)
    \/ \E r \in Runs : WorkerMoves(r)
    \/ \E r \in Runs : CoreMoves(r)
    \/ \E r \in Runs : Answers(r)
    \/ Crash

\* The worker is an operating-system thread and its wait has a time limit; nothing bounds
\* the coroutine.
WorkspaceFairness == \A r \in Runs : WF_workspaceVars(WorkerMoves(r))

WorkspaceSpec == WorkspaceInit /\ [][WorkspaceNext]_workspaceVars
FairWorkspaceSpec == WorkspaceSpec /\ WorkspaceFairness

-----------------------------------------------------------------------------
(* Properties *)

\* Whoever was told SUCCESS was told of a capability, whose package loads then and after
\* the process has died; and only what a successful discovery found can be replayed,
\* whatever a failed or killed save left on disk.
SuccessIsReplayable ==
    /\ \A answer \in told : answer.ready /\ Replayable(answer.run)
    /\ \A v \in Versions : Replayable(v) => v \in discovered

\* At most one run is RUNNING.  A discovery that goes on although its run is not, a run
\* whose status, reason and summary do not agree after its worker's end: only a worker
\* that gave up at its time limit leaves these behind.
OnlyTheLateOverlap ==
    /\ \A r, s \in DOMAIN runs : runs[r].status = "RUNNING" /\ runs[s].status = "RUNNING" => r = s
    /\ \A r \in DOMAIN runs : ~ runs[r].late =>
           /\ Driving(r) => runs[r].status = "RUNNING"
           /\ Worker(r) = "done" =>
                  /\ Over(r)
                  /\ runs[r].status = "SUCCESS" <=> runs[r].reason = "COMPLETED"
                  /\ r \in DOMAIN summaries =>
                         summaries[r] = [status |-> runs[r].status, package |-> runs[r].package]

\* A discovery blocks the workspace for a bounded time, however long its coroutine hangs.
WorkspaceIsFreed ==
    \A r \in Runs : (Known(r) /\ runs[r].status = "RUNNING")
                        ~> ~ (Known(r) /\ runs[r].status = "RUNNING")
=============================================================================
