---------------------- MODULE DiscoveryWorkspaceProofs ----------------------
(***************************************************************************)
(* Proofs about the workspace of discoveries and its store, for any number *)
(* of runs, of live ones, and of crashes.                                  *)
(*                                                                         *)
(* The argument.  Saving goes through the files in their order, so that    *)
(* what a saver has passed is whole, what it has not come to is absent,    *)
(* and a version that loads was saved by a run that discovered it.  The    *)
(* coroutine says SUCCESS only behind the reload.  Unless the worker gave  *)
(* up, it writes status and reason only when its coroutine is over, which  *)
(* then has written its own.                                               *)
(***************************************************************************)
EXTENDS DiscoveryWorkspace, TLAPS

Files == Packaged \cup Atomic \cup {"temporary"}

RunType == [status : {"RUNNING", "FAILED", "INTERVENTION_REQUIRED", "SUCCESS"},
            reason : {"none", "ERROR", "OUTCOME", "COMPLETED"},
            package : BOOLEAN,
            worker : {"starting", "waiting", "failing", "explaining", "closing", "done"},
            core : {"none", "opening", "discovering", "saving", "loading", "recording",
                    "reasoning", "completing", "returned", "raised"},
            late : BOOLEAN]

WorkspaceTyped ==
    /\ disk \in [Versions -> [Files -> {"absent", "torn", "whole"}]]
    /\ saved \in [Versions -> 0 .. 6]
    /\ DOMAIN runs \subseteq Runs
    /\ \A r \in DOMAIN runs : runs[r] \in RunType
    /\ told \subseteq [run : Runs, ready : BOOLEAN]

\* Saving goes through the files in their order, and only what was discovered is saved.
SavedInOrder(v) ==
    /\ saved[v] >= 1 => v \in discovered
    /\ saved[v] >= 2 <=> disk[v]["capability"] = "whole"
    /\ saved[v] >= 3 <=> disk[v]["profile"] = "whole"
    /\ saved[v] >= 4 <=> disk[v]["metadata"] = "whole"

\* What a run says of its package is so, and only a run at its end says SUCCESS.
PackageFits(r) ==
    /\ Core(r) = "saving" => r \in discovered
    /\ Core(r) = "loading" => saved[r] = 6
    /\ runs[r].package => saved[r] = 6
    /\ Core(r) \in {"recording", "completing"} => runs[r].package
    /\ runs[r].status = "SUCCESS" => runs[r].package

\* The coroutine of a worker that has not given up.
CoreFits(r) ==
    /\ Driving(r) => Worker(r) = "waiting" /\ runs[r].status = "RUNNING"
    /\ Core(r) \in {"reasoning", "completing"} => Worker(r) = "waiting"
    /\ Core(r) = "reasoning" => runs[r].status # "SUCCESS"
    /\ Core(r) = "completing" => runs[r].status = "SUCCESS"
    /\ Core(r) = "returned" => /\ runs[r].status = "SUCCESS" <=> runs[r].reason = "COMPLETED"
                               /\ Worker(r) \in {"waiting", "closing", "done"}
    /\ Core(r) \in {"none", "raised"} =>
           /\ Worker(r) \in {"explaining", "closing", "done"} => runs[r].status = "FAILED"
           /\ Worker(r) \in {"closing", "done"} => runs[r].reason = "ERROR"
    /\ Core(r) = "none" => Worker(r) # "waiting"
    /\ Worker(r) = "starting" => Core(r) = "none" /\ runs[r].status = "RUNNING"

SummaryFits(r) ==
    /\ Worker(r) # "done" => r \notin DOMAIN summaries
    /\ Worker(r) = "done" /\ ~ runs[r].late /\ r \in DOMAIN summaries =>
           summaries[r] = [status |-> runs[r].status, package |-> runs[r].package]

OneRunning ==
    \A r, s \in DOMAIN runs : runs[r].status = "RUNNING" /\ runs[s].status = "RUNNING" => r = s

ToldFits == \A answer \in told : answer.ready /\ saved[answer.run] = 6

\* The inductive invariant.
WorkspaceInv ==
    /\ WorkspaceTyped
    /\ \A v \in Versions : SavedInOrder(v)
    /\ \A r \in DOMAIN runs : PackageFits(r) /\ SummaryFits(r) /\ (~ runs[r].late => CoreFits(r))
    /\ OneRunning
    /\ ToldFits

-----------------------------------------------------------------------------
(* The store *)

\* The steps of a save, one by one.
LEMMA StepNames ==
    /\ Len(SaveSteps) = 6
    /\ SaveSteps[1] = "directory" /\ SaveSteps[2] = "capability" /\ SaveSteps[3] = "profile"
    /\ SaveSteps[4] = "metadata" /\ SaveSteps[5] = "temporary" /\ SaveSteps[6] = "definition"
  BY DEF SaveSteps

\* A step of a save keeps the order, and never undoes a save that is complete.
LEMMA SavingKeepsOrder ==
    ASSUME WorkspaceTyped, \A w \in Versions : SavedInOrder(w), discovered' = discovered,
           NEW v \in discovered, v \in Versions, Creates(v) \/ Writes(v) \/ SaveRaises(v)
    PROVE  /\ disk' \in [Versions -> [Files -> {"absent", "torn", "whole"}]]
           /\ saved' \in [Versions -> 0 .. 6]
           /\ \A w \in Versions : SavedInOrder(w)'
           /\ \A w \in Versions : saved[w] = 6 => saved'[w] = 6
<1>0. /\ disk \in [Versions -> [Files -> {"absent", "torn", "whole"}]]
      /\ saved \in [Versions -> 0 .. 6]
      /\ saved[v] \in 0 .. 6 /\ disk[v] \in [Files -> {"absent", "torn", "whole"}]
  BY DEF WorkspaceTyped
<1>1. saved[v] # 6 => Step(v) \in Files
  BY <1>0, StepNames DEF Step, Files, Packaged, Atomic
<1>2. CASE Creates(v)
  <2>1. saved[v] # 6 /\ saved' = saved /\ disk[v][Step(v)] = "absent"
    BY <1>2, StepNames DEF Creates, Saved
  <2>2. disk' = [disk EXCEPT ![v] = [disk[v] EXCEPT ![Step(v)] = "torn"]]
    BY <1>2 DEF Creates
  <2>3. disk'[v] = [disk[v] EXCEPT ![Step(v)] = "torn"]
    BY <1>0, <2>2
  <2>4. \A w \in Versions : SavedInOrder(w)'
    <3>1. SUFFICES ASSUME NEW w \in Versions PROVE SavedInOrder(w)'
      OBVIOUS
    <3>2. CASE w = v
      BY <1>0, <1>1, <2>1, <2>3, <3>2 DEF SavedInOrder, Files, Packaged, Atomic
    <3>3. CASE w # v
      BY <1>0, <2>1, <2>2, <3>3 DEF SavedInOrder
    <3>4. QED
      BY <3>2, <3>3
  <2>5. QED
    BY <1>0, <1>1, <2>1, <2>2, <2>4
<1>3. CASE Writes(v)
  <2>1. saved[v] # 6 /\ saved' = [saved EXCEPT ![v] = saved[v] + 1]
    BY <1>3, StepNames DEF Writes, Saved
  <2> DEFINE rest == IF Step(v) = "temporary" THEN "whole" ELSE "absent"
             new == [disk[v] EXCEPT ![Step(v)] = "whole", !["temporary"] = rest]
  <2>2. /\ disk' = [disk EXCEPT ![v] = new]
        /\ new \in [Files -> {"absent", "torn", "whole"}]
        /\ \A f \in Packaged : new[f] = IF f = Step(v) THEN "whole" ELSE disk[v][f]
    BY <1>0, <1>1, <1>3, <2>1 DEF Writes, Files, Packaged
  <2>3. /\ saved[v] = 0 => Step(v) = "directory"
        /\ saved[v] = 1 => Step(v) = "capability"
        /\ saved[v] = 2 => Step(v) = "profile"
        /\ saved[v] = 3 => Step(v) = "metadata"
        /\ saved[v] >= 4 => Step(v) \notin Packaged
    BY <1>0, <2>1, StepNames DEF Step, Packaged
  <2> HIDE DEF new
  <2>4. disk'[v] = new /\ saved'[v] = saved[v] + 1
    BY <1>0, <2>1, <2>2
  <2>5. \A w \in Versions : SavedInOrder(w)'
    <3>1. SUFFICES ASSUME NEW w \in Versions PROVE SavedInOrder(w)'
      OBVIOUS
    <3>2. CASE w = v
      BY <1>0, <2>1, <2>2, <2>3, <2>4, <3>2 DEF SavedInOrder, Packaged
    <3>3. CASE w # v
      BY <1>0, <2>1, <2>2, <3>3 DEF SavedInOrder
    <3>4. QED
      BY <3>2, <3>3
  <2>6. QED
    BY <1>0, <2>1, <2>2, <2>5
<1>4. CASE SaveRaises(v)
  <2>1. saved' = saved /\ disk' = [disk EXCEPT ![v] = [disk[v] EXCEPT !["temporary"] = "absent"]]
    BY <1>4 DEF SaveRaises
  <2>2. \A w \in Versions, f \in Packaged : disk'[w][f] = disk[w][f]
    BY <1>0, <2>1 DEF Packaged, Files
  <2>3. \A w \in Versions : SavedInOrder(w)'
    BY <2>1, <2>2 DEF SavedInOrder, Packaged
  <2>4. disk' \in [Versions -> [Files -> {"absent", "torn", "whole"}]]
    BY <1>0, <2>1 DEF Files
  <2>5. QED
    BY <1>0, <2>1, <2>3, <2>4
<1>5. QED
  BY <1>2, <1>3, <1>4

\* A complete save is a package that loads, and that was discovered.
LEMMA CompleteLoads ==
    ASSUME WorkspaceTyped, NEW v \in Versions, SavedInOrder(v)
    PROVE  /\ saved[v] = 6 => Replayable(v)
           /\ Replayable(v) => v \in discovered
<1>1. saved[v] \in 0 .. 6
  BY DEF WorkspaceTyped
<1>2. QED
  BY <1>1 DEF SavedInOrder, Replayable, Listed, Loads, Packaged

-----------------------------------------------------------------------------
(* A step of one run *)

RunInv(r) == PackageFits(r) /\ SummaryFits(r) /\ (~ runs[r].late => CoreFits(r))

\* A run that changes without becoming RUNNING leaves the other runs as they are.
LEMMA OneRunChanges ==
    ASSUME WorkspaceInv, NEW r \in DOMAIN runs, NEW new \in RunType, Change(r, new),
           new.status = "RUNNING" => runs[r].status = "RUNNING",
           \A v \in Versions : SavedInOrder(v)',
           disk' \in [Versions -> [Files -> {"absent", "torn", "whole"}]],
           saved' \in [Versions -> 0 .. 6],
           \A v \in Versions : saved[v] = 6 => saved'[v] = 6,
           discovered \subseteq discovered',
           \A s \in Runs \ {r} : /\ s \in DOMAIN summaries' <=> s \in DOMAIN summaries
                                 /\ s \in DOMAIN summaries => summaries'[s] = summaries[s],
           told' = told,
           runs'[r] = new => RunInv(r)'
    PROVE  WorkspaceInv'
<1>1. /\ DOMAIN runs' = DOMAIN runs /\ runs'[r] = new
      /\ \A s \in DOMAIN runs \ {r} : runs'[s] = runs[s]
      /\ DOMAIN runs \subseteq Runs
  BY DEF WorkspaceInv, WorkspaceTyped, Change
<1>2. WorkspaceTyped'
  BY <1>1 DEF WorkspaceInv, WorkspaceTyped
<1>3. \A s \in DOMAIN runs' : RunInv(s)'
  <2>1. SUFFICES ASSUME NEW s \in DOMAIN runs, s # r PROVE RunInv(s)'
    BY <1>1
  <2>2. runs'[s] = runs[s] /\ RunInv(s) /\ s \in Versions
    BY <1>1, <2>1 DEF WorkspaceInv, RunInv, Runs
  <2>3. saved[s] = 6 => saved'[s] = 6
    BY <2>2
  <2>4. s \in Runs \ {r}
    BY <2>1, <2>2 DEF Runs
  <2>5. QED
    BY <2>2, <2>3, <2>4 DEF RunInv, PackageFits, SummaryFits, CoreFits, Core, Worker, Driving
<1>4. OneRunning'
  BY <1>1 DEF WorkspaceInv, OneRunning
<1>5. ToldFits'
  BY DEF WorkspaceInv, WorkspaceTyped, ToldFits, Runs
<1>6. QED
  BY <1>2, <1>3, <1>4, <1>5 DEF WorkspaceInv, RunInv

\* What the worker does changes nothing on disk but its own run's summary.
LEMMA WorkerSafe ==
    ASSUME WorkspaceInv, NEW r \in Runs, WorkerMoves(r)
    PROVE  WorkspaceInv'
<1>0. /\ r \in DOMAIN runs /\ runs[r] \in RunType /\ RunInv(r)
      /\ UNCHANGED <<disk, saved, discovered, told>>
  BY DEF WorkerMoves, CallsRunner, CallFails, HearsResult, GivesUp, SetsFailed, Explains,
         Summarises, WorkerStep, Known, Beside, storeVars, WorkspaceInv, WorkspaceTyped, RunInv
<1>1. \A v \in Versions : SavedInOrder(v)'
  BY <1>0 DEF WorkspaceInv, SavedInOrder
<1>2. /\ disk' \in [Versions -> [Files -> {"absent", "torn", "whole"}]]
      /\ saved' \in [Versions -> 0 .. 6]
      /\ \A v \in Versions : saved[v] = 6 => saved'[v] = 6
      /\ discovered \subseteq discovered'
  BY <1>0 DEF WorkspaceInv, WorkspaceTyped
<1>3. ASSUME NEW new \in RunType, Change(r, new), UNCHANGED summaries,
             new.status = "RUNNING" => runs[r].status = "RUNNING",
             runs'[r] = new => RunInv(r)'
      PROVE  WorkspaceInv'
  BY <1>0, <1>1, <1>2, <1>3, OneRunChanges
<1>4. CASE CallsRunner(r)
  <2> DEFINE new == [runs[r] EXCEPT !.worker = "waiting", !.core = "opening"]
  <2>1. new \in RunType /\ Change(r, new) /\ UNCHANGED summaries
    BY <1>0, <1>4 DEF CallsRunner, RunType
  <2>2. runs'[r] = new => RunInv(r)'
    BY <1>0, <1>4, <2>1 DEF CallsRunner, RunType, RunInv, PackageFits, SummaryFits, CoreFits, Core,
                       Worker, Driving
  <2>3. QED
    BY <1>0, <1>3, <2>1, <2>2 DEF RunType
<1>5. CASE CallFails(r)
  <2> DEFINE new == [runs[r] EXCEPT !.worker = "failing"]
  <2>1. new \in RunType /\ Change(r, new) /\ UNCHANGED summaries
    BY <1>0, <1>5 DEF CallFails, RunType
  <2>2. runs'[r] = new => RunInv(r)'
    BY <1>0, <1>5, <2>1 DEF CallFails, RunType, RunInv, PackageFits, SummaryFits, CoreFits, Core,
                       Worker, Driving
  <2>3. QED
    BY <1>0, <1>3, <2>1, <2>2 DEF RunType
<1>6. CASE HearsResult(r)
  <2> DEFINE new == [runs[r] EXCEPT !.worker = IF Core(r) = "raised" THEN "failing" ELSE "closing"]
  <2>1. new \in RunType /\ Change(r, new) /\ UNCHANGED summaries
    BY <1>0, <1>6 DEF HearsResult, RunType
  <2>2. runs'[r] = new => RunInv(r)'
    BY <1>0, <1>6, <2>1 DEF HearsResult, Over, RunType, RunInv, PackageFits, SummaryFits, CoreFits,
                       Core, Worker, Driving
  <2>3. QED
    BY <1>0, <1>3, <2>1, <2>2 DEF RunType
<1>7. CASE GivesUp(r)
  <2> DEFINE new == [runs[r] EXCEPT !.worker = "failing", !.late = TRUE]
  <2>1. new \in RunType /\ Change(r, new) /\ UNCHANGED summaries
    BY <1>0, <1>7 DEF GivesUp, RunType
  <2>2. runs'[r] = new => RunInv(r)'
    BY <1>0, <1>7, <2>1 DEF GivesUp, RunType, RunInv, PackageFits, SummaryFits, Core, Worker
  <2>3. QED
    BY <1>0, <1>3, <2>1, <2>2 DEF RunType
<1>8. CASE SetsFailed(r)
  <2> DEFINE new == [runs[r] EXCEPT !.worker = "explaining", !.status = "FAILED"]
  <2>1. new \in RunType /\ Change(r, new) /\ UNCHANGED summaries
    BY <1>0, <1>8 DEF SetsFailed, RunType
  <2>2. runs'[r] = new => RunInv(r)'
    BY <1>0, <1>8, <2>1 DEF SetsFailed, RunType, RunInv, PackageFits, SummaryFits, CoreFits, Core,
                       Worker, Driving
  <2>3. QED
    BY <1>0, <1>3, <2>1, <2>2 DEF RunType
<1>9. CASE Explains(r)
  <2> DEFINE new == [runs[r] EXCEPT !.worker = "closing", !.reason = "ERROR"]
  <2>1. new \in RunType /\ Change(r, new) /\ UNCHANGED summaries
    BY <1>0, <1>9 DEF Explains, RunType
  <2>2. runs'[r] = new => RunInv(r)'
    BY <1>0, <1>9, <2>1 DEF Explains, RunType, RunInv, PackageFits, SummaryFits, CoreFits, Core,
                       Worker, Driving
  <2>3. QED
    BY <1>0, <1>3, <2>1, <2>2 DEF RunType
<1>10. CASE Summarises(r)
  <2> DEFINE new == [runs[r] EXCEPT !.worker = "done"]
             summary == [status |-> runs[r].status, package |-> runs[r].package]
  <2>1. /\ new \in RunType /\ Change(r, new) /\ Worker(r) = "closing"
        /\ new.status = "RUNNING" => runs[r].status = "RUNNING"
        /\ r \notin DOMAIN summaries
    BY <1>0, <1>10 DEF Summarises, RunType, RunInv, SummaryFits
  <2>2. summaries' = summaries \/ summaries' = With(summaries, r, summary)
    BY <1>10 DEF Summarises
  <2>3. \A s \in Runs \ {r} : /\ s \in DOMAIN summaries' <=> s \in DOMAIN summaries
                              /\ s \in DOMAIN summaries => summaries'[s] = summaries[s]
    BY <2>2 DEF With
  <2>4. r \in DOMAIN summaries' => summaries'[r] = summary
    BY <1>0, <2>1, <2>2 DEF With, RunInv, SummaryFits
  <2>5. runs'[r] = new => RunInv(r)'
    BY <1>0, <2>1, <2>4 DEF RunType, RunInv, PackageFits, SummaryFits, CoreFits, Core, Worker, Driving
  <2>6. told' = told
    BY <1>0
  <2> HIDE DEF new, summary
  <2>7. QED
    BY <1>0, <1>1, <1>2, <2>1, <2>3, <2>5, <2>6, OneRunChanges
<1>11. QED
  BY <1>4, <1>5, <1>6, <1>7, <1>8, <1>9, <1>10 DEF WorkerMoves

\* What the coroutine does, the save within it, changes no summary.
LEMMA CoreSafe ==
    ASSUME WorkspaceInv, NEW r \in Runs, CoreMoves(r)
    PROVE  WorkspaceInv'
<1>0. /\ r \in DOMAIN runs /\ runs[r] \in RunType /\ RunInv(r) /\ r \in Versions
      /\ \A v \in Versions : SavedInOrder(v)
      /\ WorkspaceTyped
      /\ UNCHANGED <<summaries, told>>
      /\ discovered \subseteq discovered'
  BY DEF CoreMoves, Opens, OpenRaises, GoesOn, Ends, GivesReason, Succeeds, Saves, SavingRaises,
         Reloads, DiscoverRaises, Publishes, Completes, CoreStep, Known, Beside, Runs,
         WorkspaceInv, WorkspaceTyped, RunInv
<1>1. ASSUME NEW new \in RunType, Change(r, new), UNCHANGED storeVars,
             new.status = "RUNNING" => runs[r].status = "RUNNING",
             runs'[r] = new => RunInv(r)'
      PROVE  WorkspaceInv'
  <2>1. \A v \in Versions : SavedInOrder(v)'
    BY <1>0, <1>1 DEF SavedInOrder, storeVars
  <2>2. /\ disk' \in [Versions -> [Files -> {"absent", "torn", "whole"}]]
        /\ saved' \in [Versions -> 0 .. 6]
        /\ \A v \in Versions : saved[v] = 6 => saved'[v] = 6
    BY <1>0, <1>1 DEF WorkspaceTyped, storeVars
  <2>3. QED
    BY <1>0, <1>1, <2>1, <2>2, OneRunChanges
<1>2. ASSUME NEW new \in RunType, Change(r, new), UNCHANGED discovered, r \in discovered,
             Creates(r) \/ Writes(r) \/ SaveRaises(r),
             new.status = "RUNNING" => runs[r].status = "RUNNING",
             runs'[r] = new => RunInv(r)'
      PROVE  WorkspaceInv'
  BY <1>0, <1>2, SavingKeepsOrder, OneRunChanges
<1>3. ASSUME NEW from, NEW to, GoesOn(r, from, to),
             \/ from = "opening" /\ to \in {"discovering", "raised"}
             \/ from \in {"discovering", "loading", "recording"} /\ to = "raised"
      PROVE  WorkspaceInv'
  <2> DEFINE new == [runs[r] EXCEPT !.core = to]
  <2>1. new \in RunType /\ Change(r, new) /\ UNCHANGED storeVars
    BY <1>0, <1>3 DEF GoesOn, RunType
  <2>2. runs'[r] = new => RunInv(r)'
    BY <1>0, <1>3, <2>1 DEF GoesOn, RunType, RunInv, PackageFits, SummaryFits, CoreFits, Core,
                       Worker, Driving, storeVars
  <2>3. QED
    BY <1>0, <1>1, <2>1, <2>2 DEF RunType
<1>4. CASE Opens(r) \/ OpenRaises(r) \/ DiscoverRaises(r)
  BY <1>3, <1>4 DEF Opens, OpenRaises, DiscoverRaises
<1>5. ASSUME NEW outcome \in {"FAILED", "INTERVENTION_REQUIRED"}, Ends(r, outcome)
      PROVE  WorkspaceInv'
  <2> DEFINE new == [runs[r] EXCEPT !.core = "reasoning", !.status = outcome]
  <2>1. new \in RunType /\ Change(r, new) /\ UNCHANGED storeVars
    BY <1>0, <1>5 DEF Ends, RunType
  <2>2. runs'[r] = new => RunInv(r)'
    BY <1>0, <1>5, <2>1 DEF Ends, RunType, RunInv, PackageFits, SummaryFits, CoreFits, Core,
                       Worker, Driving, storeVars
  <2>3. QED
    BY <1>0, <1>1, <1>5, <2>1, <2>2 DEF RunType
<1>6. CASE GivesReason(r)
  <2> DEFINE new == [runs[r] EXCEPT !.core = "returned", !.reason = "OUTCOME"]
  <2>1. new \in RunType /\ Change(r, new) /\ UNCHANGED storeVars
    BY <1>0, <1>6 DEF GivesReason, RunType
  <2>2. runs'[r] = new => RunInv(r)'
    BY <1>0, <1>6, <2>1 DEF GivesReason, RunType, RunInv, PackageFits, SummaryFits, CoreFits, Core,
                       Worker, Driving, storeVars
  <2>3. QED
    BY <1>0, <1>1, <2>1, <2>2 DEF RunType
<1>7. CASE Succeeds(r)
  <2> DEFINE new == [runs[r] EXCEPT !.core = "saving"]
  <2>1. new \in RunType /\ Change(r, new) /\ UNCHANGED storeVars
    BY <1>0, <1>7 DEF Succeeds, RunType
  <2>2. runs'[r] = new => RunInv(r)'
    BY <1>0, <1>7, <2>1 DEF Succeeds, RunType, RunInv, PackageFits, SummaryFits, CoreFits, Core,
                       Worker, Driving, storeVars
  <2>3. QED
    BY <1>0, <1>1, <2>1, <2>2 DEF RunType
<1>8. CASE Saves(r)
  <2> DEFINE new == [runs[r] EXCEPT !.core = IF saved'[r] = Len(SaveSteps) THEN "loading" ELSE @]
  <2>1. /\ new \in RunType /\ Change(r, new) /\ UNCHANGED discovered
        /\ Creates(r) \/ Writes(r)
        /\ Core(r) = "saving" /\ r \in discovered
    BY <1>0, <1>8 DEF Saves, RunType, RunInv, PackageFits
  <2>2. saved[r] # 6
    BY <1>8, StepNames DEF Saves, Creates, Writes, Saved
  <2>3. runs'[r] = new => RunInv(r)'
    BY <1>0, <2>1, <2>2, StepNames DEF RunType, RunInv, PackageFits, SummaryFits, CoreFits, Core,
                       Worker, Driving
  <2>4. QED
    BY <1>0, <1>2, <2>1, <2>3 DEF RunType
<1>9. CASE SavingRaises(r)
  <2> DEFINE new == [runs[r] EXCEPT !.core = "raised"]
  <2>1. /\ new \in RunType /\ Change(r, new) /\ UNCHANGED <<discovered, saved>>
        /\ SaveRaises(r)
        /\ Core(r) = "saving" /\ r \in discovered
    BY <1>0, <1>9 DEF SavingRaises, SaveRaises, RunType, RunInv, PackageFits
  <2>2. runs'[r] = new => RunInv(r)'
    BY <1>0, <2>1 DEF RunType, RunInv, PackageFits, SummaryFits, CoreFits, Core, Worker, Driving
  <2>3. QED
    BY <1>0, <1>2, <2>1, <2>2 DEF RunType
<1>10. CASE Reloads(r)
  <2> DEFINE new == [runs[r] EXCEPT !.core = "recording", !.package = TRUE]
  <2>1. new \in RunType /\ Change(r, new) /\ UNCHANGED storeVars
    BY <1>0, <1>10 DEF Reloads, RunType
  <2>2. runs'[r] = new => RunInv(r)'
    BY <1>0, <1>10, <2>1 DEF Reloads, RunType, RunInv, PackageFits, SummaryFits, CoreFits, Core,
                       Worker, Driving, storeVars
  <2>3. QED
    BY <1>0, <1>1, <2>1, <2>2 DEF RunType
<1>11. CASE Publishes(r)
  <2> DEFINE new == [runs[r] EXCEPT !.core = "completing", !.status = "SUCCESS"]
  <2>1. new \in RunType /\ Change(r, new) /\ UNCHANGED storeVars
    BY <1>0, <1>11 DEF Publishes, RunType
  <2>2. runs'[r] = new => RunInv(r)'
    BY <1>0, <1>11, <2>1 DEF Publishes, RunType, RunInv, PackageFits, SummaryFits, CoreFits, Core,
                       Worker, Driving, storeVars
  <2>3. QED
    BY <1>0, <1>1, <2>1, <2>2 DEF RunType
<1>12. CASE Completes(r)
  <2> DEFINE new == [runs[r] EXCEPT !.core = "returned", !.reason = "COMPLETED"]
  <2>1. new \in RunType /\ Change(r, new) /\ UNCHANGED storeVars
    BY <1>0, <1>12 DEF Completes, RunType
  <2>2. runs'[r] = new => RunInv(r)'
    BY <1>0, <1>12, <2>1 DEF Completes, RunType, RunInv, PackageFits, SummaryFits, CoreFits, Core,
                       Worker, Driving, storeVars
  <2>3. QED
    BY <1>0, <1>1, <2>1, <2>2 DEF RunType
<1>13. QED
  BY <1>4, <1>5, <1>6, <1>7, <1>8, <1>9, <1>10, <1>11, <1>12 DEF CoreMoves

\* A run is added only when none is RUNNING.
LEMMA StartSafe ==
    ASSUME WorkspaceInv, NEW r \in Runs, Start(r)
    PROVE  WorkspaceInv'
<1>0. /\ UNCHANGED <<disk, saved, summaries, discovered, told>>
      /\ runs' = With(runs, r, Started)
      /\ r \notin DOMAIN runs /\ r \notin DOMAIN summaries
      /\ \A s \in DOMAIN runs : runs[s].status # "RUNNING"
  BY DEF Start, Admits, Known, Beside, storeVars
<1>1. /\ DOMAIN runs' = DOMAIN runs \cup {r} /\ runs'[r] = Started
      /\ \A s \in DOMAIN runs : runs'[s] = runs[s]
  BY <1>0 DEF With
<1>2. WorkspaceTyped'
  <2>1. Started \in RunType
    BY DEF Started, RunType
  <2>2. QED
    BY <1>0, <1>1, <2>1 DEF WorkspaceInv, WorkspaceTyped
<1>3. \A s \in DOMAIN runs' : PackageFits(s)' /\ SummaryFits(s)' /\ (~ runs'[s].late => CoreFits(s)')
  <2>1. SUFFICES ASSUME NEW s \in DOMAIN runs \cup {r}
        PROVE  PackageFits(s)' /\ SummaryFits(s)' /\ (~ runs'[s].late => CoreFits(s)')
    BY <1>1
  <2>2. CASE s = r
    BY <1>0, <1>1, <2>2 DEF PackageFits, SummaryFits, CoreFits, Core, Worker, Driving, Started
  <2>3. CASE s \in DOMAIN runs
    BY <1>0, <1>1, <2>3 DEF WorkspaceInv, PackageFits, SummaryFits, CoreFits, Core, Worker, Driving
  <2>4. QED
    BY <2>1, <2>2, <2>3
<1>4. OneRunning'
  BY <1>0, <1>1 DEF OneRunning
<1>5. (\A v \in Versions : SavedInOrder(v)') /\ ToldFits'
  BY <1>0 DEF WorkspaceInv, SavedInOrder, ToldFits
<1>6. QED
  BY <1>2, <1>3, <1>4, <1>5 DEF WorkspaceInv

\* A client is told SUCCESS only with a package, which is complete.
LEMMA AnswerSafe ==
    ASSUME WorkspaceInv, NEW r \in Runs, Answers(r)
    PROVE  WorkspaceInv'
<1>0. /\ UNCHANGED <<disk, saved, runs, summaries, discovered>>
      /\ told' = told \cup {[run |-> r, ready |-> runs[r].package]}
      /\ r \in DOMAIN runs /\ runs[r].status = "SUCCESS"
  BY DEF Answers, Known, storeVars
<1>1. runs[r].package = TRUE /\ saved[r] = 6
  BY <1>0 DEF WorkspaceInv, WorkspaceTyped, PackageFits, RunType
<1>2. ToldFits' /\ WorkspaceTyped'
  <2>1. [run |-> r, ready |-> runs[r].package] \in [run : Runs, ready : BOOLEAN]
    BY <1>1
  <2>2. WorkspaceTyped'
    BY <1>0, <2>1 DEF WorkspaceInv, WorkspaceTyped
  <2>3. ToldFits'
    BY <1>0, <1>1 DEF WorkspaceInv, ToldFits
  <2>4. QED
    BY <2>2, <2>3
<1>3. QED
  BY <1>0, <1>2 DEF WorkspaceInv, SavedInOrder, PackageFits, SummaryFits, CoreFits, Core, Worker,
                    Driving, OneRunning

\* After the process died there are no runs.
LEMMA CrashSafe ==
    ASSUME WorkspaceInv, Crash
    PROVE  WorkspaceInv'
<1>1. /\ UNCHANGED <<disk, saved, summaries, discovered, told>>
      /\ DOMAIN runs' = {}
  BY DEF Crash, storeVars
<1>2. QED
  BY <1>1 DEF WorkspaceInv, WorkspaceTyped, SavedInOrder, OneRunning, ToldFits

-----------------------------------------------------------------------------
(* The invariant, and the theorems *)

\* The invariant holds at first.
LEMMA WorkspaceInitInv == WorkspaceInit => WorkspaceInv
<1>1. SUFFICES ASSUME WorkspaceInit PROVE WorkspaceInv
  OBVIOUS
<1>2. DOMAIN runs = {} /\ told = {}
  <2>1. DOMAIN << >> = {}
    OBVIOUS
  <2>2. QED
    BY <1>1, <2>1, Zenon DEF WorkspaceInit
<1>3. WorkspaceTyped
  BY <1>1, <1>2 DEF WorkspaceInit, StoreInit, WorkspaceTyped, Files
<1>4. \A v \in Versions : SavedInOrder(v)
  <2>1. \A v \in Versions : /\ saved[v] = 0
                            /\ disk[v]["capability"] = "absent"
                            /\ disk[v]["profile"] = "absent"
                            /\ disk[v]["metadata"] = "absent"
    BY <1>1 DEF WorkspaceInit, StoreInit, Packaged
  <2>2. ASSUME NEW v \in Versions PROVE SavedInOrder(v)
    BY <2>1 DEF SavedInOrder
  <2>3. QED
    BY <2>2
<1>5. QED
  BY <1>2, <1>3, <1>4 DEF WorkspaceInv, OneRunning, ToldFits

\* The invariant is inductive.
LEMMA WorkspaceStepInv == WorkspaceInv /\ [WorkspaceNext]_workspaceVars => WorkspaceInv'
<1>1. SUFFICES ASSUME WorkspaceInv, [WorkspaceNext]_workspaceVars PROVE WorkspaceInv'
  OBVIOUS
<1>2. CASE UNCHANGED workspaceVars
  BY <1>1, <1>2 DEF workspaceVars, storeVars, WorkspaceInv, WorkspaceTyped, SavedInOrder,
                    PackageFits, SummaryFits, CoreFits, Core, Worker, Driving, OneRunning, ToldFits
<1>3. QED
  BY <1>1, <1>2, WorkerSafe, CoreSafe, StartSafe, AnswerSafe, CrashSafe DEF WorkspaceNext

\* The invariant holds.
LEMMA WorkspaceInvariant == WorkspaceSpec => []WorkspaceInv
  BY WorkspaceInitInv, WorkspaceStepInv, PTL DEF WorkspaceSpec

\* Whoever was told of a success was told of a package that loads, also after a crash, and
\* nothing loads that no discovery found: DiscoveryWorkspace publishes behind save_package
\* and load_package, and metadata is written last.
THEOREM SuccessesReplayable == WorkspaceSpec => []SuccessIsReplayable
<1>1. WorkspaceInv => SuccessIsReplayable
  <2>1. SUFFICES ASSUME WorkspaceInv PROVE SuccessIsReplayable
    OBVIOUS
  <2>2. \A v \in Versions : /\ saved[v] = 6 => Replayable(v)
                            /\ Replayable(v) => v \in discovered
    BY <2>1, CompleteLoads DEF WorkspaceInv
  <2>3. \A answer \in told : answer.ready /\ Replayable(answer.run)
    BY <2>1, <2>2 DEF WorkspaceInv, WorkspaceTyped, ToldFits, Runs
  <2>4. QED
    BY <2>2, <2>3 DEF SuccessIsReplayable
<1>2. QED
  BY <1>1, WorkspaceInvariant, PTL

\* One run is RUNNING at most, and only a run whose worker gave up can still drive its
\* browser when it is not RUNNING, or end with status, reason and summary at odds.
THEOREM OnlyLateRunsOverlap == WorkspaceSpec => []OnlyTheLateOverlap
<1>1. WorkspaceInv => OnlyTheLateOverlap
  <2>1. SUFFICES ASSUME WorkspaceInv PROVE OnlyTheLateOverlap
    OBVIOUS
  <2>2. ASSUME NEW r \in DOMAIN runs, ~ runs[r].late
        PROVE  /\ Driving(r) => runs[r].status = "RUNNING"
               /\ Worker(r) = "done" =>
                      /\ Over(r)
                      /\ runs[r].status = "SUCCESS" <=> runs[r].reason = "COMPLETED"
                      /\ r \in DOMAIN summaries =>
                             summaries[r] = [status |-> runs[r].status,
                                             package |-> runs[r].package]
    BY <2>1, <2>2 DEF WorkspaceInv, WorkspaceTyped, RunType, SummaryFits, CoreFits, Core, Worker,
                      Driving, Over
  <2>3. QED
    BY <2>1, <2>2 DEF OnlyTheLateOverlap, WorkspaceInv, OneRunning
<1>2. QED
  BY <1>1, WorkspaceInvariant, PTL
=============================================================================
