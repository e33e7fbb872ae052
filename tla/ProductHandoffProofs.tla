------------------------ MODULE ProductHandoffProofs ------------------------
(***************************************************************************)
(* Proofs about the product's handoff, for every set of threads and every  *)
(* number of requests and steps.                                           *)
(*                                                                         *)
(* The argument.  The session goes through its states once, from a pause   *)
(* to a validated resume, and its generation tells where it is.  Until the *)
(* pause nothing is live; the one thread that prepares has the service's   *)
(* lock until the intervention is registered or lost.  From then on, a     *)
(* thread that takes or returns control has the transition lock, so that   *)
(* no return meets a capture whose caller still waits, and no second       *)
(* resume meets the first.  A closed runner stays closed and is given no   *)
(* replay; only what is registered, and so has its target, is closed.      *)
(***************************************************************************)
EXTENDS ProductHandoff, SessionControlProofs

Ops == Locking \cup {"none", "start", "exit"}

\* Where a thread has to have the transition lock.
Held == Locking \cup {"capturing", "returning", "resuming", "hearing", "halting"}

Closing == {"stopping", "surface", "runner", "target", "unregister"}
Places == {"idle", "called", "status", "preparing", "identifying", "waiting"} \cup Held \cup Closing
Verdicts == {"none", "SUCCESS", "FAILURE", "STOPPED"}

ThreadType ==
    {new \in [op : Ops, pc : Places, verdict : Verdicts] :
         new.pc = "waiting" => new.op \in Locking}

HandoffTyped ==
    /\ thread \in [Threads -> ThreadType]
    /\ target \in {"none", "up", "down"}
    /\ runner \in {"none", "open", "stuck", "closed"}
    /\ surface \in {"none", "open", "leaked", "closed"}
    /\ engine \in [pc : {"none", "validating", "replaying", "acting", "succeeded", "failed",
                         "cancelled"},
                   generation : Nat, steps : Nat]
    /\ capture \in [pc : {"none", "installing", "done"}, late : BOOLEAN]
    /\ registered \in BOOLEAN /\ sink \in BOOLEAN
    /\ report \in Verdicts

\* The generation tells how far the handoff is.
Staged ==
    \/ control_state = AUTOMATION /\ control_generation \in {0, 3}
    \/ control_state = PAUSING /\ control_generation = 1
    \/ control_state \in {HUMAN_CONTROL, RESUME_CHECK} /\ control_generation = 2
    \/ control_state = STOPPED

Unpaused == control_state = AUTOMATION /\ control_generation = 0

\* Before the pause nothing is live, and one thread at most prepares.
UnpausedFits ==
    /\ target = "none" => /\ Unpaused /\ runner = "none" /\ surface = "none"
                          /\ \A t \in Threads : ~ At(t, "preparing")
    /\ Unpaused => /\ capture.pc = "none" /\ ~ sink
                   /\ ~ registered /\ report = "none"
                   /\ \A t \in Threads : thread[t].pc \in {"idle", "called", "preparing"}
    /\ \A t \in Threads :
          /\ At(t, "preparing") => /\ Unpaused /\ service = t
                                   /\ target = "up" /\ runner = "open" /\ surface = "none"
          /\ At(t, "identifying") =>
                 /\ control_state = PAUSING /\ service = t
                 /\ ~ registered /\ target = "up" /\ runner = "open"
                 /\ \A u \in Threads \ {t} : thread[u].pc \in {"idle", "called"}

LocksFit ==
    \A t \in Threads : /\ thread[t].pc \in Held => transition = t
                       /\ At(t, "status") => service = t

RunnerFits ==
    /\ runner = "closed" => ~ EngineRuns
    /\ Acting(Automation) => engine.pc = "acting"
    /\ target = "down" \/ report # "none" => runner = "closed"
    /\ \A t \in Threads : /\ thread[t].pc \in {"target", "unregister"} => runner = "closed"
                          /\ At(t, "unregister") => target = "down"
    /\ registered => target # "none"
    /\ target = "up" /\ ~ registered =>
           \A t \in Threads : thread[t].pc \in {"idle", "called", "preparing", "identifying"}

EngineFits ==
    /\ Unpaused \/ control_state \in {PAUSING, HUMAN_CONTROL} => engine.pc = "none"
    /\ \A t \in Threads : At(t, "resuming") => /\ engine.pc = "none"
                                              /\ control_state \in {RESUME_CHECK, STOPPED}
    /\ engine.pc \in {"replaying", "acting", "succeeded"} => engine.generation = 3
    /\ engine.pc \in {"replaying", "acting"} => control_generation >= 3
    /\ \A t \in Threads : thread[t].verdict = "SUCCESS" => engine.pc = "succeeded"
    /\ report = "SUCCESS" => engine.pc = "succeeded"

CaptureFits ==
    /\ capture.pc = "installing" => capture.late \/ \E t \in Threads : At(t, "capturing")
    /\ \A t \in Threads : At(t, "capturing") => control_state \in {HUMAN_CONTROL, STOPPED}
    /\ \A t \in Threads : At(t, "returning") /\ sink => capture.late

\* The inductive invariant.
HandoffInv ==
    /\ TypeOK
    /\ HandoffTyped
    /\ Staged
    /\ UnpausedFits
    /\ LocksFit
    /\ RunnerFits
    /\ EngineFits
    /\ CaptureFits
    /\ TeardownIsFinal
    /\ OnlyHumansAreRecorded

\* Its parts but the session's type, which SessionControlProofs keeps.
Safe == HandoffTyped /\ Staged /\ UnpausedFits /\ LocksFit /\ RunnerFits /\ EngineFits
            /\ CaptureFits /\ TeardownIsFinal /\ OnlyHumansAreRecorded

-----------------------------------------------------------------------------
(* Threads *)

\* Thread t comes to pc with a verdict, the others stay where they are.
Steps(t, pc, verdict) ==
    /\ thread' \in [Threads -> ThreadType]
    /\ thread'[t].pc = pc /\ thread'[t].verdict = verdict
    /\ \A u \in Threads \ {t} : thread'[u] = thread[u]

\* A thread's record is replaced.
LEMMA ThreadMoves ==
    ASSUME HandoffTyped, NEW t \in Threads, NEW new \in ThreadType,
           thread' = [thread EXCEPT ![t] = new]
    PROVE  Steps(t, new.pc, new.verdict)
  BY DEF HandoffTyped, Steps

\* A thread goes to another place.
LEMMA GoSteps ==
    ASSUME HandoffTyped, NEW t \in Threads, NEW pc \in Places, Go(t, pc),
           pc = "waiting" => Op(t) \in Locking
    PROVE  Steps(t, pc, thread[t].verdict)
<1> DEFINE new == [thread[t] EXCEPT !.pc = pc]
<1>1. new \in ThreadType /\ new.pc = pc /\ new.verdict = thread[t].verdict
  BY DEF HandoffTyped, ThreadType, Op
<1>2. thread' = [thread EXCEPT ![t] = new]
  BY DEF Go
<1>3. QED
  BY <1>1, <1>2, ThreadMoves

\* A thread goes on with a verdict.
LEMMA VerdictSteps ==
    ASSUME HandoffTyped, NEW t \in Threads, NEW pc \in Places \ {"waiting"}, NEW verdict \in Verdicts,
           thread' = [thread EXCEPT ![t].pc = pc, ![t].verdict = verdict]
    PROVE  Steps(t, pc, verdict)
<1> DEFINE new == [thread[t] EXCEPT !.pc = pc, !.verdict = verdict]
<1>1. new \in ThreadType /\ new.pc = pc /\ new.verdict = verdict
  BY DEF HandoffTyped, ThreadType
<1>2. thread' = [thread EXCEPT ![t] = new]
  BY DEF HandoffTyped, ThreadType
<1>3. QED
  BY <1>1, <1>2, ThreadMoves

\* A second take becomes a focus.
LEMMA FocusSteps ==
    ASSUME HandoffTyped, NEW t \in Threads,
           thread' = [thread EXCEPT ![t].op = "focus", ![t].pc = "waiting"]
    PROVE  Steps(t, "waiting", thread[t].verdict)
<1> DEFINE new == [thread[t] EXCEPT !.op = "focus", !.pc = "waiting"]
<1>1. new \in ThreadType /\ new.pc = "waiting" /\ new.verdict = thread[t].verdict
  BY DEF HandoffTyped, ThreadType, Ops, Locking, Places
<1>2. thread' = [thread EXCEPT ![t] = new]
  BY DEF HandoffTyped, ThreadType
<1>3. QED
  BY <1>1, <1>2, ThreadMoves

\* A thread is answered.
LEMMA AnswerSteps ==
    ASSUME HandoffTyped, NEW t \in Threads, Answer(t)
    PROVE  Steps(t, "idle", "none")
<1>1. Free \in ThreadType /\ Free.pc = "idle" /\ Free.verdict = "none"
  BY DEF Free, ThreadType, Ops, Places, Verdicts
<1>2. QED
  BY <1>1, ThreadMoves DEF Answer

-----------------------------------------------------------------------------
(* Steps that only pass on *)

\* What such a step leaves alone, and what it does to the recording.
OthersRest == UNCHANGED <<resources, engine, capture, report>>
SameSink == UNCHANGED sink
SinkEnds == sink' = FALSE

\* A thread that leaves the resources and the coroutines as they are, except that it may end
\* the recording of what the human does, and may stop the session of a live intervention.
LEMMA PassSafe ==
    ASSUME HandoffInv, NEW t \in Threads, NEW pc, NEW verdict, Steps(t, pc, verdict),
           OthersRest, SameSink \/ SinkEnds,
           UNCHANGED vars \/ StopSession,
           UNCHANGED vars \/ registered \/ thread[t].pc \notin {"idle", "called"},
           pc \in {"idle", "called"} \/ registered \/ thread[t].pc \notin {"idle", "called"},
           thread[t].pc \notin {"preparing", "identifying", "capturing", "target", "unregister"},
           pc \notin {"preparing", "identifying", "capturing", "resuming", "target", "unregister"},
           pc = "returning" => SinkEnds,
           verdict = "SUCCESS" => engine.pc = "succeeded",
           pc \in Held => transition' = t,
           pc = "status" => service' = t,
           \A u \in Threads \ {t} : transition = u => transition' = u,
           \A u \in Threads \ {t} : service = u => service' = u
    PROVE  Safe'
<1>1. /\ UNCHANGED <<registered, target, runner, surface, engine, capture, report>>
      /\ UNCHANGED dispatch
      /\ \/ UNCHANGED <<control_state, control_generation>>
         \/ /\ control_state' = STOPPED /\ control_generation' = control_generation + 1
            /\ registered \/ thread[t].pc \notin {"idle", "called"}
  BY DEF OthersRest, resources, vars, session, lock, StopSession, NextGeneration
<1>2. \A u \in Threads \ {t} : thread'[u] = thread[u]
  BY DEF Steps
<1>0. sink' \in {sink, FALSE} /\ (pc = "returning" => sink' = FALSE)
  BY DEF SameSink, SinkEnds
<1>3. thread'[t].pc = pc /\ thread'[t].verdict = verdict
  BY DEF Steps
<1>4. HandoffTyped'
  <2>1. sink' \in BOOLEAN
    BY <1>0, Zenon DEF HandoffInv, HandoffTyped
  <2>2. QED
    BY <1>1, <2>1 DEF HandoffInv, HandoffTyped, Steps
<1>5. Staged' /\ LocksFit'
  BY <1>1, <1>2, <1>3 DEF HandoffInv, Staged, LocksFit, At
<1>6. UnpausedFits'
  <2>0. Unpaused' => Unpaused /\ pc \in {"idle", "called"}
    BY <1>1 DEF HandoffInv, UnpausedFits, Unpaused, STOPPED, AUTOMATION
  <2>1. (target = "none" => /\ Unpaused /\ runner = "none" /\ surface = "none"
                            /\ \A u \in Threads : ~ At(u, "preparing"))'
    <3>1. SUFFICES ASSUME target = "none"
                   PROVE  /\ Unpaused' /\ runner' = "none" /\ surface' = "none"
                          /\ \A u \in Threads : thread'[u].pc # "preparing"
      BY <1>1 DEF At
    <3>2. Unpaused /\ ~ registered /\ thread[t].pc \in {"idle", "called"}
      BY <3>1 DEF HandoffInv, UnpausedFits
    <3>3. QED
      BY <1>1, <1>2, <1>3, <3>1, <3>2 DEF HandoffInv, UnpausedFits, Unpaused, At
  <2>2. (Unpaused => /\ capture.pc = "none" /\ ~ sink
                     /\ ~ registered /\ report = "none"
                     /\ \A u \in Threads : thread[u].pc \in {"idle", "called", "preparing"})'
    BY <1>1, <1>2, <1>3, <1>0, <2>0 DEF HandoffInv, UnpausedFits
  <2>3. ASSUME NEW u \in Threads, At(u, "preparing")'
        PROVE  (/\ Unpaused /\ service = u
                /\ target = "up" /\ runner = "open" /\ surface = "none")'
    <3>1. u # t /\ At(u, "preparing")
      BY <1>2, <1>3, <2>3 DEF At
    <3>2. Unpaused /\ ~ registered /\ thread[t].pc \in {"idle", "called"}
      BY <3>1 DEF HandoffInv, UnpausedFits
    <3>3. QED
      BY <1>1, <3>1, <3>2 DEF HandoffInv, UnpausedFits, Unpaused
  <2>4. ASSUME NEW u \in Threads, At(u, "identifying")'
        PROVE  (/\ control_state = PAUSING /\ service = u
                /\ ~ registered /\ target = "up" /\ runner = "open"
                /\ \A v \in Threads \ {u} : thread[v].pc \in {"idle", "called"})'
    <3>1. u # t /\ At(u, "identifying")
      BY <1>2, <1>3, <2>4 DEF At
    <3>2. ~ registered /\ thread[t].pc \in {"idle", "called"}
      BY <3>1 DEF HandoffInv, UnpausedFits
    <3>3. QED
      BY <1>1, <1>2, <1>3, <3>1, <3>2 DEF HandoffInv, UnpausedFits
  <2>5. QED
    BY <2>1, <2>2, <2>3, <2>4 DEF UnpausedFits
<1>7. RunnerFits'
  BY <1>1, <1>2, <1>3 DEF HandoffInv, RunnerFits, EngineRuns, At, Acting, Phase
<1>8. EngineFits'
  <2>1. \A u \in Threads : At(u, "resuming")' => At(u, "resuming")
    BY <1>2, <1>3 DEF At
  <2>2. \A u \in Threads : thread'[u].verdict = "SUCCESS" => engine.pc = "succeeded"
    BY <1>2, <1>3 DEF HandoffInv, EngineFits
  <2>3. control_generation \in Nat
    BY DEF HandoffInv, TypeOK, Generations
  <2>4. QED
    BY <1>1, <2>1, <2>2, <2>3 DEF HandoffInv, EngineFits, Unpaused, STOPPED, AUTOMATION, PAUSING,
                                  HUMAN_CONTROL
<1>9. CaptureFits'
  <2>1. \A u \in Threads : At(u, "capturing")' <=> At(u, "capturing")
    BY <1>2, <1>3 DEF At
  <2>2. \A u \in Threads : At(u, "returning")' /\ sink' => At(u, "returning") /\ sink
    BY <1>2, <1>3, <1>0 DEF At, HandoffInv, HandoffTyped
  <2>3. QED
    BY <1>1, <2>1, <2>2 DEF HandoffInv, CaptureFits
<1>10. TeardownIsFinal'
  <2>1. \A u \in Threads, at \in {"preparing", "identifying", "target", "unregister"} :
            At(u, at)' <=> At(u, at)
    BY <1>2, <1>3 DEF At
  <2>2. InFlight' = InFlight
    BY <1>1 DEF InFlight, Acting, Phase
  <2>3. QED
    BY <1>1, <2>1, <2>2 DEF HandoffInv, TeardownIsFinal, EngineRuns
<1>11. OnlyHumansAreRecorded'
  BY <1>1, <1>0 DEF HandoffInv, HandoffTyped, OnlyHumansAreRecorded, STOPPED, RESUME_CHECK, AUTOMATION
<1>12. QED
  BY <1>4, <1>5, <1>6, <1>7, <1>8, <1>9, <1>10, <1>11 DEF Safe

\* A thread that leaves the transition lock held it.
LEMMA LeaveSteps ==
    ASSUME HandoffInv, NEW t \in Threads, Leave(t), thread[t].pc \in Held
    PROVE  /\ Steps(t, "idle", "none")
           /\ UNCHANGED service
           /\ \A u \in Threads \ {t} : transition # u
<1>1. HandoffTyped /\ transition = t
  BY DEF HandoffInv, LocksFit
<1>2. QED
  BY <1>1, AnswerSteps DEF Leave

\* A call that raises, or a request that is refused, under the transition lock.
LEMMA LeaveSafe ==
    ASSUME HandoffInv, NEW t \in Threads, Leave(t), thread[t].pc \in Held \ {"capturing"},
           OthersRest, SameSink \/ SinkEnds,
           UNCHANGED vars \/ StopSession
    PROVE  Safe'
<1>1. thread[t].pc \notin {"idle", "called", "preparing", "identifying", "capturing", "target",
                          "unregister"}
  BY DEF Held, Locking
<1>2. QED
  BY <1>1, LeaveSteps, PassSafe DEF Held, Locking

\* Answers, refusals, failures and the waits for the locks.
LEMMA PassingSafe ==
    ASSUME HandoffInv, NEW t \in Threads,
           \/ StartAnswers(t) \/ FindsLive(t) \/ Enters(t) \/ CallRaises(t) \/ Focuses(t)
           \/ TakesAgain(t) \/ GrantRefused(t) \/ ReturnFails(t) \/ Hears(t) \/ HaltRaises(t)
           \/ CloseRaises(t)
    PROVE  Safe'
<1>0. HandoffTyped /\ LocksFit /\ EngineFits /\ t # NoThread
  BY HandoffAssumption DEF HandoffInv
<1>1. CASE StartAnswers(t)
  <2>1. Steps(t, "idle", "none") /\ At(t, "status")
    BY <1>0, <1>1, AnswerSteps DEF StartAnswers
  <2>2. service = t
    BY <1>0, <2>1 DEF LocksFit
  <2>3. QED
    BY <1>0, <1>1, <2>1, <2>2, PassSafe DEF StartAnswers, At, Held, Locking, coroutines, OthersRest, SameSink
<1>2. CASE FindsLive(t)
  <2>1. \/ Steps(t, "waiting", thread[t].verdict) /\ registered
        \/ Steps(t, "idle", "none")
    BY <1>0, <1>2, GoSteps, AnswerSteps DEF FindsLive, Places
  <2>2. OthersRest /\ SameSink /\ UNCHANGED <<vars, service, transition>> /\ At(t, "called")
    BY <1>2 DEF FindsLive, coroutines, locks, OthersRest, SameSink
  <2>3. thread[t].verdict = "SUCCESS" => engine.pc = "succeeded"
    BY <1>0 DEF EngineFits
  <2>4. QED
    BY <1>0, <2>1, <2>2, <2>3, PassSafe DEF At, Held, Locking
<1>3. CASE Enters(t)
  <2>1. \/ /\ Op(t) \in Locking /\ Steps(t, Op(t), thread[t].verdict) /\ registered
           /\ transition' = t
        \/ Steps(t, "idle", "none")
    <3>1. Op(t) \in Locking /\ Op(t) # "waiting"
      BY <1>0, <1>3 DEF Enters, HandoffTyped, ThreadType, At, Op, Locking
    <3>2. QED
      BY <1>0, <1>3, <3>1, GoSteps, AnswerSteps DEF Enters, Places, Held, Locking
  <2>2. /\ OthersRest /\ SameSink /\ UNCHANGED <<vars, service>>
        /\ At(t, "waiting")
        /\ \A u \in Threads \ {t} : transition # u
    BY <1>0, <1>3, HandoffAssumption DEF Enters, MayEnter, coroutines, locks, OthersRest, SameSink
  <2>3. thread[t].verdict = "SUCCESS" => engine.pc = "succeeded"
    BY <1>0 DEF EngineFits
  <2>4. QED
    BY <1>0, <2>1, <2>2, <2>3, PassSafe DEF At, Held, Locking
<1>4. CASE CallRaises(t) \/ Focuses(t) \/ GrantRefused(t) \/ ReturnFails(t) \/ HaltRaises(t)
  <2>1. /\ Leave(t) /\ thread[t].pc \in Held \ {"capturing"}
        /\ OthersRest /\ SameSink /\ UNCHANGED vars
    BY <1>4 DEF CallRaises, Focuses, GrantRefused, ReturnFails, HaltRaises, Calls, At, Held,
                Locking, coroutines, locks, OthersRest, SameSink
  <2>2. QED
    BY <2>1, LeaveSafe
<1>5. CASE TakesAgain(t)
  <2>1. Steps(t, "waiting", thread[t].verdict) /\ At(t, "take")
    BY <1>0, <1>5, FocusSteps DEF TakesAgain, Calls
  <2>2. OthersRest /\ SameSink /\ UNCHANGED <<vars, service, transition>>
    BY <1>5 DEF TakesAgain, coroutines, locks, OthersRest, SameSink
  <2>3. thread[t].verdict = "SUCCESS" => engine.pc = "succeeded"
    BY <1>0 DEF EngineFits
  <2>4. QED
    BY <2>1, <2>2, <2>3, PassSafe DEF At, Held, Locking
<1>6. CASE Hears(t)
  <2>1. /\ \/ Steps(t, "stopping", "SUCCESS") /\ engine.pc = "succeeded"
           \/ Steps(t, "stopping", "FAILURE")
        /\ At(t, "hearing")
    BY <1>0, <1>6, VerdictSteps DEF Hears, Places, Closing, Verdicts
  <2>2. OthersRest /\ SameSink /\ UNCHANGED <<vars, service, transition>>
    BY <1>6 DEF Hears, coroutines, locks, OthersRest, SameSink
  <2>3. QED
    BY <2>1, <2>2, PassSafe DEF At, Held, Locking
<1>7. CASE CloseRaises(t)
  <2>1. Steps(t, "runner", "none") /\ thread[t].pc \in {"stopping", "surface"}
    BY <1>0, <1>7, VerdictSteps DEF CloseRaises, Places, Closing, Verdicts, At
  <2>2. OthersRest /\ SameSink /\ UNCHANGED <<vars, service, transition>>
    BY <1>7 DEF CloseRaises, coroutines, locks, OthersRest, SameSink
  <2>3. QED
    BY <2>1, <2>2, PassSafe DEF Held, Locking
<1>8. QED
  BY <1>1, <1>2, <1>3, <1>4, <1>5, <1>6, <1>7

\* The end of the recording, and the stops.
LEMMA StoppingSafe ==
    ASSUME HandoffInv, NEW t \in Threads,
           ReturnBegins(t) \/ StopBegins(t) \/ Halts(t) \/ ExitBegins(t) \/ CloseStops(t)
    PROVE  Safe'
<1>0. /\ HandoffTyped
      /\ thread[t].verdict = "SUCCESS" => engine.pc = "succeeded"
      /\ thread[t].pc \in Held => transition = t
  BY DEF HandoffInv, EngineFits, LocksFit
<1>1. CASE ReturnBegins(t)
  <2>1. /\ At(t, "return") /\ OthersRest /\ UNCHANGED <<vars, service>>
        /\ \/ /\ Go(t, "returning") /\ SinkEnds
              /\ UNCHANGED transition
           \/ Leave(t) /\ SameSink
    BY <1>1 DEF ReturnBegins, Calls, locks, Leave, OthersRest, SameSink, SinkEnds
  <2>2. CASE Leave(t)
    BY <2>1, <2>2, LeaveSafe DEF At, Held, Locking
  <2>3. CASE ~ Leave(t)
    <3>1. Steps(t, "returning", thread[t].verdict)
      BY <1>0, <2>1, <2>3, GoSteps DEF Places, Held
    <3>2. QED
      BY <1>0, <2>1, <2>3, <3>1, PassSafe DEF At, Held, Locking
  <2>4. QED
    BY <2>2, <2>3
<1>2. CASE StopBegins(t)
  <2>1. Steps(t, "halting", thread[t].verdict) /\ At(t, "stop")
    BY <1>0, <1>2, GoSteps DEF StopBegins, Calls, Places, Held
  <2>2. OthersRest /\ SinkEnds /\ UNCHANGED <<vars, service, transition>>
    BY <1>2 DEF StopBegins, locks, OthersRest, SinkEnds
  <2>3. QED
    BY <1>0, <2>1, <2>2, PassSafe DEF At, Held, Locking
<1>3. CASE Halts(t)
  <2>1. /\ At(t, "halting") /\ OthersRest /\ SameSink
        /\ UNCHANGED vars \/ StopSession
        /\ \/ /\ thread' = [thread EXCEPT ![t].pc = "stopping", ![t].verdict = "STOPPED"]
              /\ UNCHANGED <<service, transition>>
           \/ Leave(t)
    BY <1>3 DEF Halts, Calls, Halted, coroutines, locks, OthersRest, SameSink
  <2>2. CASE Leave(t)
    BY <2>1, <2>2, LeaveSafe DEF At, Held, Locking
  <2>3. CASE ~ Leave(t)
    <3>1. Steps(t, "stopping", "STOPPED")
      BY <1>0, <2>1, <2>3, VerdictSteps DEF Places, Closing, Verdicts
    <3>2. QED
      BY <1>0, <2>1, <2>3, <3>1, PassSafe DEF At, Held, Locking
  <2>4. QED
    BY <2>2, <2>3
<1>4. CASE ExitBegins(t)
  <2>1. /\ OthersRest /\ SameSink /\ UNCHANGED <<service, transition>> /\ At(t, "called")
        /\ \/ Go(t, "stopping") /\ registered /\ (UNCHANGED vars \/ StopSession)
           \/ Answer(t) /\ UNCHANGED vars
    BY <1>4 DEF ExitBegins, Halted, coroutines, locks, OthersRest, SameSink
  <2>2. \/ Steps(t, "stopping", thread[t].verdict) /\ registered /\ (UNCHANGED vars \/ StopSession)
        \/ Steps(t, "idle", "none") /\ UNCHANGED vars
    BY <1>0, <2>1, GoSteps, AnswerSteps DEF Places, Closing
  <2>3. QED
    BY <1>0, <2>1, <2>2, PassSafe DEF At, Held, Locking
<1>5. CASE CloseStops(t)
  <2>1. Steps(t, "surface", thread[t].verdict) /\ At(t, "stopping")
    BY <1>0, <1>5, GoSteps DEF CloseStops, Calls, Places, Closing
  <2>2. /\ OthersRest /\ SameSink /\ UNCHANGED <<service, transition>>
        /\ UNCHANGED vars \/ StopSession
    BY <1>5 DEF CloseStops, Halted, coroutines, locks, OthersRest, SameSink
  <2>3. QED
    BY <1>0, <2>1, <2>2, PassSafe DEF At, Held, Locking
<1>6. QED
  BY <1>1, <1>2, <1>3, <1>4, <1>5

-----------------------------------------------------------------------------
(* The start *)

\* While a thread prepares or identifies, the others are outside.
LEMMA StartsAlone ==
    ASSUME HandoffInv, NEW t \in Threads, At(t, "preparing") \/ At(t, "identifying")
    PROVE  /\ \A u \in Threads \ {t} : thread[u].pc \in {"idle", "called"}
           /\ service = t /\ ~ registered /\ report = "none"
           /\ target = "up" /\ runner = "open"
           /\ At(t, "identifying") \/ (engine.pc = "none" /\ capture.pc = "none")
<1>1. CASE At(t, "preparing")
  BY <1>1 DEF HandoffInv, UnpausedFits, At, EngineFits
<1>2. CASE At(t, "identifying")
  BY <1>2 DEF HandoffInv, UnpausedFits, At, EngineFits, RunnerFits
<1>3. QED
  BY <1>1, <1>2

\* The first to start makes the target and the runner, and prepares.
LEMMA StartBeginsSafe ==
    ASSUME HandoffInv, NEW t \in Threads, StartBegins(t)
    PROVE  Safe'
<1>0. /\ HandoffTyped /\ At(t, "called") /\ service = NoThread
      /\ thread[t].verdict = "SUCCESS" => engine.pc = "succeeded"
      /\ \A u \in Threads : service # u
  BY HandoffAssumption DEF HandoffInv, EngineFits, StartBegins
<1>1. CASE registered
  <2>1. Steps(t, "status", thread[t].verdict) /\ service' = t
    BY <1>0, <1>1, GoSteps DEF StartBegins, Places
  <2>2. OthersRest /\ SameSink /\ UNCHANGED <<vars, transition>>
    BY <1>1 DEF StartBegins, resources, coroutines, OthersRest, SameSink
  <2>3. QED
    BY <1>0, <1>1, <2>1, <2>2, PassSafe DEF At, Held, Locking
<1>2. CASE ~ registered /\ target # "none"
  <2>1. Steps(t, "idle", "none")
    BY <1>0, <1>2, AnswerSteps DEF StartBegins
  <2>2. OthersRest /\ SameSink /\ UNCHANGED <<vars, service, transition>>
    BY <1>2 DEF StartBegins, resources, coroutines, OthersRest, SameSink
  <2>3. QED
    BY <1>0, <2>1, <2>2, PassSafe DEF At, Held, Locking
<1>3. CASE ~ registered /\ target = "none"
  <2>1. Steps(t, "preparing", thread[t].verdict) /\ service' = t /\ target' = "up" /\ runner' = "open"
    BY <1>0, <1>3, GoSteps DEF StartBegins, Places
  <2>2. /\ UNCHANGED <<transition, registered, surface, engine, capture, sink, report>>
        /\ UNCHANGED <<control_state, control_generation, dispatch>>
    BY <1>3 DEF StartBegins, coroutines, vars, session, lock
  <2>3. /\ Unpaused /\ surface = "none"
        /\ \A u \in Threads : thread[u].pc \in {"idle", "called"}
    BY <1>3 DEF HandoffInv, UnpausedFits, At
  <2>4. /\ \A u \in Threads \ {t} : thread'[u] = thread[u]
        /\ thread'[t].pc = "preparing" /\ thread'[t].verdict = thread[t].verdict
    BY <2>1 DEF Steps
  <2>5. HandoffTyped' /\ Staged'
    BY <2>1, <2>2 DEF HandoffInv, HandoffTyped, Staged, Steps
  <2>6. UnpausedFits' /\ LocksFit'
    BY <1>0, <2>1, <2>2, <2>3, <2>4 DEF HandoffInv, UnpausedFits, Unpaused, LocksFit, At, Held, Locking
  <2>7. RunnerFits' /\ EngineFits' /\ CaptureFits'
    BY <2>1, <2>2, <2>3, <2>4 DEF HandoffInv, RunnerFits, EngineFits, CaptureFits, Unpaused, At,
                                  EngineRuns, Acting, Phase, UnpausedFits
  <2>8. TeardownIsFinal' /\ OnlyHumansAreRecorded'
    BY <1>3, <2>1, <2>2, <2>3, <2>4 DEF HandoffInv, UnpausedFits, TeardownIsFinal,
                                        OnlyHumansAreRecorded, At
  <2>9. QED
    BY <2>5, <2>6, <2>7, <2>8 DEF Safe
<1>4. QED
  BY <1>1, <1>2, <1>3

\* The first replay has stopped before the step that needs approval.
LEMMA PreparedSafe ==
    ASSUME HandoffInv, NEW t \in Threads, Prepared(t)
    PROVE  Safe'
<1>0. HandoffTyped /\ At(t, "preparing")
  BY DEF HandoffInv, Prepared
<1>1. /\ Steps(t, "identifying", thread[t].verdict) /\ surface' = "open"
      /\ UNCHANGED <<service, transition, registered, target, runner, engine, capture, sink, report>>
      /\ UNCHANGED dispatch
      /\ control_state' = PAUSING /\ control_generation' = control_generation + 1
  BY <1>0, GoSteps DEF Prepared, Places, locks, coroutines, RequestPause, NextGeneration, lock
<1>2. /\ Unpaused /\ ~ registered /\ target = "up" /\ runner = "open" /\ report = "none" /\ service = t
      /\ capture.pc = "none" /\ ~ sink /\ engine.pc = "none"
      /\ \A u \in Threads \ {t} : thread[u].pc \in {"idle", "called"}
  BY <1>0, StartsAlone DEF HandoffInv, UnpausedFits, EngineFits
<1>3. /\ \A u \in Threads \ {t} : thread'[u] = thread[u]
      /\ thread'[t].pc = "identifying" /\ thread'[t].verdict = thread[t].verdict
  BY <1>1 DEF Steps
<1>4. HandoffTyped' /\ Staged'
  BY <1>1, <1>2 DEF HandoffInv, HandoffTyped, Staged, Steps, Unpaused
<1>5. UnpausedFits' /\ LocksFit'
  BY <1>1, <1>2, <1>3 DEF UnpausedFits, Unpaused, LocksFit, At, Held, Locking, PAUSING, AUTOMATION
<1>6. RunnerFits' /\ EngineFits' /\ CaptureFits'
  BY <1>1, <1>2, <1>3 DEF HandoffInv, RunnerFits, EngineFits, CaptureFits, At, EngineRuns, Acting, Phase
<1>7. TeardownIsFinal' /\ OnlyHumansAreRecorded'
  BY <1>1, <1>2, <1>3 DEF HandoffInv, TeardownIsFinal, OnlyHumansAreRecorded, At
<1>8. QED
  BY <1>4, <1>5, <1>6, <1>7 DEF Safe

\* The preparation raises: nothing was paused, and there is no second start.
LEMMA PrepareRaisesSafe ==
    ASSUME HandoffInv, NEW t \in Threads, PrepareRaises(t)
    PROVE  Safe'
<1>0. HandoffTyped /\ At(t, "preparing")
  BY DEF HandoffInv, PrepareRaises
<1>1. /\ Steps(t, "idle", "none") /\ surface' \in {"none", "leaked"} /\ service' = NoThread
      /\ \/ runner' = "closed" /\ target' = "down"
         \/ runner' = "stuck" /\ target' = target
      /\ UNCHANGED <<transition, registered, engine, capture, sink, report>>
      /\ UNCHANGED <<control_state, control_generation, dispatch>>
  BY <1>0, AnswerSteps DEF PrepareRaises, coroutines, vars, session, lock
<1>2. /\ Unpaused /\ ~ registered /\ target = "up" /\ report = "none" /\ service = t
      /\ capture.pc = "none" /\ ~ sink /\ engine.pc = "none" /\ ~ Acting(Automation)
      /\ \A u \in Threads \ {t} : thread[u].pc \in {"idle", "called"}
  BY <1>0, StartsAlone DEF HandoffInv, UnpausedFits, EngineFits, RunnerFits
<1>3. /\ \A u \in Threads \ {t} : thread'[u] = thread[u]
      /\ thread'[t].pc = "idle" /\ thread'[t].verdict = "none"
  BY <1>1 DEF Steps
<1>4. HandoffTyped' /\ Staged'
  BY <1>1, <1>2 DEF HandoffInv, HandoffTyped, Staged, Steps
<1>5. UnpausedFits' /\ LocksFit'
  BY <1>1, <1>2, <1>3 DEF UnpausedFits, Unpaused, LocksFit, At, Held, Locking
<1>6. RunnerFits' /\ EngineFits' /\ CaptureFits'
  BY <1>1, <1>2, <1>3 DEF HandoffInv, RunnerFits, EngineFits, CaptureFits, At, EngineRuns, Acting, Phase
<1>7. TeardownIsFinal' /\ OnlyHumansAreRecorded'
  <2>1. InFlight' = {}
    BY <1>1, <1>2, HandoffAssumption DEF InFlight, Acting, Phase
  <2>2. QED
    BY <1>1, <1>2, <1>3, <2>1 DEF HandoffInv, TeardownIsFinal, OnlyHumansAreRecorded, At, EngineRuns
<1>8. QED
  BY <1>4, <1>5, <1>6, <1>7 DEF Safe

\* The intervention goes live, or is lost.
LEMMA IdentifiedSafe ==
    ASSUME HandoffInv, NEW t \in Threads, Registers(t) \/ StartLoses(t)
    PROVE  Safe'
<1>0. HandoffTyped /\ At(t, "identifying")
  BY DEF HandoffInv, Registers, StartLoses
<1>1. /\ Steps(t, "idle", "none") /\ service' = NoThread
      /\ \/ registered' = TRUE /\ surface' = surface
         \/ registered' = registered /\ surface' = "leaked"
      /\ UNCHANGED <<transition, target, runner, engine, capture, sink, report>>
      /\ UNCHANGED <<control_state, control_generation, dispatch>>
  BY <1>0, AnswerSteps DEF Registers, StartLoses, coroutines, vars, session, lock
<1>2. /\ control_state = PAUSING /\ ~ registered /\ target = "up" /\ runner = "open"
      /\ report = "none" /\ service = t
      /\ \A u \in Threads \ {t} : thread[u].pc \in {"idle", "called"}
  BY <1>0, StartsAlone DEF HandoffInv, UnpausedFits
<1>3. /\ \A u \in Threads \ {t} : thread'[u] = thread[u]
      /\ thread'[t].pc = "idle" /\ thread'[t].verdict = "none"
  BY <1>1 DEF Steps
<1>4. HandoffTyped' /\ Staged'
  BY <1>1, <1>2 DEF HandoffInv, HandoffTyped, Staged, Steps
<1>5. UnpausedFits' /\ LocksFit'
  BY <1>1, <1>2, <1>3 DEF UnpausedFits, Unpaused, LocksFit, At, Held, Locking, PAUSING, AUTOMATION
<1>6. RunnerFits' /\ EngineFits'
  BY <1>1, <1>2, <1>3 DEF HandoffInv, RunnerFits, EngineFits, Unpaused, At, EngineRuns, Acting, Phase
<1>7. CaptureFits'
  BY <1>0, <1>1, <1>2, <1>3 DEF HandoffInv, CaptureFits, At
<1>8. TeardownIsFinal' /\ OnlyHumansAreRecorded'
  BY <1>1, <1>2, <1>3 DEF HandoffInv, TeardownIsFinal, OnlyHumansAreRecorded, At
<1>9. QED
  BY <1>4, <1>5, <1>6, <1>7, <1>8 DEF Safe

-----------------------------------------------------------------------------
(* Control taken, and returned *)

\* A thread that is inside finds the session paused, and nobody preparing.
LEMMA Inside ==
    ASSUME HandoffInv, NEW t \in Threads,
           thread[t].pc \notin {"idle", "called", "preparing", "identifying"}
    PROVE  /\ ~ Unpaused /\ target # "none"
           /\ \A u \in Threads : ~ At(u, "preparing") /\ ~ At(u, "identifying")
  BY DEF HandoffInv, UnpausedFits, At

\* Then the invariant of the start says nothing any more.
LEMMA UnpausedOver ==
    ASSUME ~ Unpaused', target' # "none",
           \A u \in Threads : thread'[u].pc \notin {"preparing", "identifying"}
    PROVE  UnpausedFits'
  BY DEF UnpausedFits, At

\* Under the transition lock nobody else is.
LEMMA HeldAlone ==
    ASSUME HandoffInv, NEW t \in Threads, thread[t].pc \in Held
    PROVE  transition = t /\ \A u \in Threads \ {t} : thread[u].pc \notin Held
  BY DEF HandoffInv, LocksFit

\* Control is granted, and the capture begins unless the reply is late.
LEMMA GrantsSafe ==
    ASSUME HandoffInv, NEW t \in Threads, Grants(t)
    PROVE  Safe'
<1>0. HandoffTyped /\ At(t, "take") /\ thread[t].pc \in Held
  BY DEF HandoffInv, Grants, Calls, At, Held, Locking
<1>1. /\ \/ /\ Steps(t, "capturing", thread[t].verdict) /\ transition' = transition
            /\ capture' = [capture EXCEPT !.pc = "installing"]
         \/ Steps(t, "idle", "none") /\ transition' = NoThread /\ capture' = capture
      /\ UNCHANGED <<service, registered, target, runner, surface, engine, sink, report, dispatch>>
      /\ control_state = PAUSING /\ control_state' = HUMAN_CONTROL
      /\ control_generation' = control_generation + 1
  BY <1>0, GoSteps, AnswerSteps DEF Grants, Leave, Places, Held, locks, resources,
           GrantHumanControl, NextGeneration, lock
<1>2. /\ engine.pc = "none" /\ control_generation = 1
      /\ \A u \in Threads \ {t} : thread[u].pc \notin Held
      /\ \A u \in Threads : ~ At(u, "preparing") /\ ~ At(u, "identifying")
      /\ target # "none"
  BY <1>0, <1>1, HeldAlone, Inside DEF HandoffInv, EngineFits, Staged, At, AUTOMATION, PAUSING,
           HUMAN_CONTROL, RESUME_CHECK, STOPPED
<1>3. /\ \A u \in Threads \ {t} : thread'[u] = thread[u]
      /\ \/ /\ thread'[t].pc = "capturing" /\ thread'[t].verdict = thread[t].verdict
            /\ transition' = transition
         \/ /\ thread'[t].pc = "idle" /\ thread'[t].verdict = "none"
            /\ UNCHANGED capture
  BY <1>1 DEF Steps
<1>4. HandoffTyped' /\ Staged'
  BY <1>1, <1>2 DEF HandoffInv, HandoffTyped, Staged, Steps
<1>5. UnpausedFits'
  BY <1>1, <1>2, <1>3, UnpausedOver DEF Unpaused, At, HUMAN_CONTROL, AUTOMATION
<1>6. LocksFit'
  <2>1. \A u \in Threads \ {t} : thread'[u].pc \notin Held
    BY <1>2, <1>3
  <2>2. thread'[t].pc \in Held => transition' = t
    BY <1>0, <1>3, HeldAlone DEF Held, Locking
  <2>3. \A u \in Threads : At(u, "status")' => service' = u
    BY <1>1, <1>3 DEF HandoffInv, LocksFit, At
  <2>4. QED
    BY <2>1, <2>2, <2>3 DEF LocksFit
<1>7. RunnerFits' /\ EngineFits'
  BY <1>0, <1>1, <1>2, <1>3 DEF HandoffInv, RunnerFits, EngineFits, At, EngineRuns, Acting, Phase, Held
<1>8. CaptureFits'
  <2>1. ~ At(t, "returning")' /\ \A u \in Threads \ {t} : ~ At(u, "returning")'
    BY <1>2, <1>3 DEF At, Held
  <2>2. capture'.pc = "installing" => capture'.late \/ \E u \in Threads : At(u, "capturing")'
    <3>1. CASE thread'[t].pc = "capturing"
      BY <3>1 DEF At
    <3>2. CASE UNCHANGED capture
      <4>1. \A u \in Threads : At(u, "capturing") => u # t /\ At(u, "capturing")'
        BY <1>0, <1>3 DEF At
      <4>2. QED
        BY <3>2, <4>1 DEF HandoffInv, CaptureFits
    <3>3. QED
      BY <1>3, <3>1, <3>2
  <2>3. QED
    BY <1>1, <2>1, <2>2 DEF CaptureFits
<1>9. TeardownIsFinal' /\ OnlyHumansAreRecorded'
  <2>1. \A u \in Threads, at \in {"preparing", "identifying", "target", "unregister"} :
            At(u, at)' <=> At(u, at)
    BY <1>0, <1>3 DEF At
  <2>2. InFlight' = InFlight
    BY <1>1 DEF InFlight, Acting, Phase
  <2>3. QED
    BY <1>1, <2>1, <2>2 DEF HandoffInv, TeardownIsFinal, EngineRuns, OnlyHumansAreRecorded,
                            HUMAN_CONTROL, RESUME_CHECK, AUTOMATION
<1>10. QED
  BY <1>4, <1>5, <1>6, <1>7, <1>8, <1>9 DEF Safe

\* The caller goes on, with the capture installed or given up.
LEMMA CaptureAnsweredSafe ==
    ASSUME HandoffInv, NEW t \in Threads, CaptureAnswered(t)
    PROVE  Safe'
<1>0. HandoffTyped /\ At(t, "capturing") /\ thread[t].pc \in Held
  BY DEF HandoffInv, CaptureAnswered, At, Held
<1>1. /\ Steps(t, "waiting", thread[t].verdict)
      /\ capture' = [capture EXCEPT !.late = capture.late \/ capture.pc = "installing"]
      /\ UNCHANGED <<service, transition, registered, target, runner, surface, engine, sink, report>>
      /\ UNCHANGED <<dispatch, control_state, control_generation>>
  BY <1>0, FocusSteps DEF CaptureAnswered, locks, resources, vars, session, lock
<1>2. /\ ~ Unpaused /\ target # "none"
      /\ \A u \in Threads : ~ At(u, "preparing") /\ ~ At(u, "identifying")
  BY <1>0, Inside DEF At
<1>3. /\ \A u \in Threads \ {t} : thread'[u] = thread[u]
      /\ thread'[t].pc = "waiting" /\ thread'[t].verdict = thread[t].verdict
  BY <1>1 DEF Steps
<1>4. /\ capture'.pc = capture.pc /\ capture'.late \in BOOLEAN
      /\ capture.late \/ capture.pc = "installing" => capture'.late
      /\ capture' \in [pc : {"none", "installing", "done"}, late : BOOLEAN]
  BY <1>0, <1>1 DEF HandoffTyped
<1>5. HandoffTyped' /\ Staged'
  BY <1>1, <1>4 DEF HandoffInv, HandoffTyped, Staged, Steps
<1>6. UnpausedFits'
  BY <1>1, <1>2, <1>3, UnpausedOver DEF Unpaused, At
<1>7. LocksFit'
  BY <1>1, <1>3 DEF HandoffInv, LocksFit, At, Held, Locking
<1>8. RunnerFits' /\ EngineFits'
  BY <1>0, <1>1, <1>2, <1>3 DEF HandoffInv, RunnerFits, EngineFits, At, Unpaused, EngineRuns, Acting,
          Phase
<1>9. CaptureFits' /\ OnlyHumansAreRecorded'
  BY <1>1, <1>3, <1>4 DEF HandoffInv, CaptureFits, At, OnlyHumansAreRecorded
<1>10. TeardownIsFinal'
  <2>1. \A u \in Threads, at \in {"preparing", "identifying", "target", "unregister"} :
            At(u, at)' <=> At(u, at)
    BY <1>0, <1>3 DEF At
  <2>2. InFlight' = InFlight
    BY <1>1 DEF InFlight, Acting, Phase
  <2>3. QED
    BY <1>1, <2>1, <2>2 DEF HandoffInv, TeardownIsFinal, EngineRuns
<1>11. QED
  BY <1>5, <1>6, <1>7, <1>8, <1>9, <1>10 DEF Safe

\* Control is returned for the validation.
LEMMA ReturnsSafe ==
    ASSUME HandoffInv, NEW t \in Threads, Returns(t)
    PROVE  Safe'
<1>0. HandoffTyped /\ At(t, "returning") /\ thread[t].pc \in Held
  BY DEF HandoffInv, Returns, Calls, At, Held
<1>1. /\ \/ Steps(t, "resuming", thread[t].verdict) /\ transition' = transition
         \/ Steps(t, "idle", "none") /\ transition' = NoThread
      /\ UNCHANGED <<service, registered, target, runner, surface, engine, capture, sink, report>>
      /\ UNCHANGED <<dispatch, control_generation>>
      /\ control_state = HUMAN_CONTROL /\ control_state' = RESUME_CHECK
  BY <1>0, GoSteps, AnswerSteps DEF Returns, Leave, Places, Held, locks, resources, coroutines,
           ReturnControlForResumeCheck, lock
<1>2. /\ engine.pc = "none" /\ control_generation = 2
      /\ \A u \in Threads \ {t} : thread[u].pc \notin Held
      /\ \A u \in Threads : ~ At(u, "preparing") /\ ~ At(u, "identifying")
      /\ target # "none"
  BY <1>0, <1>1, HeldAlone, Inside DEF HandoffInv, EngineFits, Staged, At, AUTOMATION, PAUSING,
           HUMAN_CONTROL, RESUME_CHECK, STOPPED
<1>3. /\ \A u \in Threads \ {t} : thread'[u] = thread[u]
      /\ \/ /\ thread'[t].pc = "resuming" /\ thread'[t].verdict = thread[t].verdict
            /\ transition' = transition
         \/ /\ thread'[t].pc = "idle" /\ thread'[t].verdict = "none"
            /\ UNCHANGED capture
  BY <1>1 DEF Steps
<1>4. HandoffTyped' /\ Staged'
  BY <1>1, <1>2 DEF HandoffInv, HandoffTyped, Staged, Steps
<1>5. UnpausedFits'
  BY <1>1, <1>2, <1>3, UnpausedOver DEF Unpaused, At, RESUME_CHECK, AUTOMATION
<1>6. LocksFit'
  <2>1. \A u \in Threads \ {t} : thread'[u].pc \notin Held
    BY <1>2, <1>3
  <2>2. thread'[t].pc \in Held => transition' = t
    BY <1>0, <1>3, HeldAlone DEF Held, Locking
  <2>3. \A u \in Threads : At(u, "status")' => service' = u
    BY <1>1, <1>3 DEF HandoffInv, LocksFit, At
  <2>4. QED
    BY <2>1, <2>2, <2>3 DEF LocksFit
<1>7. RunnerFits' /\ EngineFits'
  BY <1>0, <1>1, <1>2, <1>3 DEF HandoffInv, RunnerFits, EngineFits, At, EngineRuns, Acting, Phase, Held
<1>8. CaptureFits'
  BY <1>0, <1>1, <1>2, <1>3 DEF HandoffInv, CaptureFits, At, Held
<1>9. TeardownIsFinal' /\ OnlyHumansAreRecorded'
  <2>1. \A u \in Threads, at \in {"preparing", "identifying", "target", "unregister"} :
            At(u, at)' <=> At(u, at)
    BY <1>0, <1>3 DEF At
  <2>2. InFlight' = InFlight
    BY <1>1 DEF InFlight, Acting, Phase
  <2>3. QED
    BY <1>0, <1>1, <2>1, <2>2 DEF HandoffInv, TeardownIsFinal, EngineRuns, OnlyHumansAreRecorded,
                                  CaptureFits
<1>10. QED
  BY <1>4, <1>5, <1>6, <1>7, <1>8, <1>9 DEF Safe

\* A resume begins on an engine that has done nothing, or fails without it.
LEMMA ResumeBeginsSafe ==
    ASSUME HandoffInv, NEW t \in Threads, ResumeBegins(t)
    PROVE  Safe'
<1>0. HandoffTyped /\ At(t, "resuming") /\ thread[t].pc \in Held
  BY DEF HandoffInv, ResumeBegins, At, Held
<1>1. CASE engine'.pc # "validating"
  <2>1. Steps(t, "stopping", "FAILURE")
    BY <1>0, <1>1, VerdictSteps DEF ResumeBegins, Places, Closing, Verdicts, HandoffTyped
  <2>2. OthersRest /\ SameSink /\ UNCHANGED <<vars, service, transition>>
    BY <1>0, <1>1 DEF ResumeBegins, locks, OthersRest, SameSink, HandoffTyped
  <2>3. QED
    BY <1>0, <2>1, <2>2, PassSafe DEF At, Held, Locking
<1>2. CASE engine'.pc = "validating"
  <2>0. engine.pc = "none" /\ control_state \in {RESUME_CHECK, STOPPED}
    BY <1>0 DEF HandoffInv, EngineFits
  <2>1. /\ Steps(t, "hearing", thread[t].verdict) /\ runner \in {"open", "stuck"}
        /\ engine' = [engine EXCEPT !.pc = "validating"]
        /\ UNCHANGED <<service, transition, registered, target, runner, surface, capture, sink, report>>
        /\ UNCHANGED <<dispatch, control_state, control_generation>>
    BY <1>0, <1>2, <2>0, GoSteps DEF ResumeBegins, Working, Places, Held, locks, resources, vars,
             session, lock, HandoffTyped
  <2>2. /\ ~ Unpaused /\ target # "none"
        /\ \A u \in Threads : ~ At(u, "preparing") /\ ~ At(u, "identifying")
        /\ \A u \in Threads \ {t} : thread[u].pc \notin Held
    BY <1>0, HeldAlone, Inside DEF At
  <2>3. /\ \A u \in Threads \ {t} : thread'[u] = thread[u]
        /\ thread'[t].pc = "hearing" /\ thread'[t].verdict = thread[t].verdict
    BY <2>1 DEF Steps
  <2>4. HandoffTyped' /\ Staged'
    BY <2>1 DEF HandoffInv, HandoffTyped, Staged, Steps
  <2>5. UnpausedFits'
    BY <2>1, <2>2, <2>3, UnpausedOver DEF Unpaused, At
  <2>6. LocksFit' /\ CaptureFits' /\ OnlyHumansAreRecorded'
    BY <1>0, <2>1, <2>3 DEF HandoffInv, LocksFit, CaptureFits, OnlyHumansAreRecorded, At, Held
  <2>7. RunnerFits' /\ EngineFits'
    BY <1>0, <1>2, <2>0, <2>1, <2>2, <2>3 DEF HandoffInv, RunnerFits, EngineFits, At, Unpaused, Held,
             EngineRuns, Acting, Phase, STOPPED, RESUME_CHECK, AUTOMATION, PAUSING, HUMAN_CONTROL
  <2>8. TeardownIsFinal'
    <3>1. \A u \in Threads, at \in {"preparing", "identifying", "target", "unregister"} :
              At(u, at)' <=> At(u, at)
      BY <1>0, <2>3 DEF At
    <3>2. target # "down" /\ report = "none"
      BY <2>1 DEF HandoffInv, RunnerFits
    <3>3. QED
      BY <2>1, <3>1, <3>2 DEF HandoffInv, TeardownIsFinal
  <2>9. QED
    BY <2>4, <2>5, <2>6, <2>7, <2>8 DEF Safe
<1>3. QED
  BY <1>1, <1>2

-----------------------------------------------------------------------------
(* The closing *)

\* The surface is closed, or fails to close.
LEMMA CloseSurfaceSafe ==
    ASSUME HandoffInv, NEW t \in Threads, CloseSurface(t)
    PROVE  Safe'
<1>0. HandoffTyped /\ At(t, "surface")
  BY DEF HandoffInv, CloseSurface, Calls
<1> DEFINE heard == IF surface = "open" /\ surface' = "closed" THEN thread[t].verdict ELSE "none"
<1>1. /\ Steps(t, "runner", heard)
      /\ surface' \in IF surface = "open" THEN {"closed", "leaked"} ELSE {surface}
      /\ UNCHANGED <<service, transition, registered, target, runner, engine, capture, sink, report>>
      /\ UNCHANGED <<dispatch, control_state, control_generation>>
  <2>1. heard \in Verdicts
    BY <1>0 DEF HandoffTyped, ThreadType, Verdicts
  <2>2. thread' = [thread EXCEPT ![t].pc = "runner", ![t].verdict = heard]
    BY <1>0 DEF CloseSurface, HandoffTyped, ThreadType
  <2> HIDE DEF heard
  <2>3. Steps(t, "runner", heard)
    BY <1>0, <2>1, <2>2, VerdictSteps DEF Places, Closing
  <2>4. QED
    BY <2>3 DEF CloseSurface, Calls, locks, coroutines, vars, session, lock
<1>2. /\ ~ Unpaused /\ target # "none"
      /\ \A u \in Threads : ~ At(u, "preparing") /\ ~ At(u, "identifying")
  BY <1>0, Inside DEF At
<1>3. /\ \A u \in Threads \ {t} : thread'[u] = thread[u]
      /\ thread'[t].pc = "runner" /\ thread'[t].verdict \in {thread[t].verdict, "none"}
  BY <1>1 DEF Steps
<1>4. HandoffTyped' /\ Staged'
  BY <1>1 DEF HandoffInv, HandoffTyped, Staged, Steps
<1>5. UnpausedFits'
  BY <1>1, <1>2, <1>3, UnpausedOver DEF Unpaused, At
<1>6. LocksFit' /\ RunnerFits'
  BY <1>0, <1>1, <1>3 DEF HandoffInv, LocksFit, RunnerFits, At, Held, Locking, EngineRuns, Acting, Phase
<1>7. EngineFits' /\ OnlyHumansAreRecorded'
  BY <1>1, <1>3 DEF HandoffInv, EngineFits, OnlyHumansAreRecorded, At, Unpaused
<1>8. CaptureFits' /\ TeardownIsFinal'
  <2>1. \A u \in Threads, at \in {"capturing", "returning", "preparing", "identifying", "target",
                                  "unregister"} : At(u, at)' <=> At(u, at)
    BY <1>0, <1>3 DEF At
  <2>2. InFlight' = InFlight
    BY <1>1 DEF InFlight, Acting, Phase
  <2>3. QED
    BY <1>1, <2>1, <2>2 DEF HandoffInv, CaptureFits, TeardownIsFinal, EngineRuns
<1>9. QED
  BY <1>4, <1>5, <1>6, <1>7, <1>8 DEF Safe

\* An action that ends leaves none in flight.
LEMMA ActionEnds ==
    ASSUME HandoffInv, IF Acting(Automation) THEN EndDispatch(Automation) ELSE UNCHANGED vars
    PROVE  /\ ~ Acting(Automation)' /\ InFlight' = {}
           /\ UNCHANGED <<control_state, control_generation>>
<1>1. Automation \in Tasks /\ Tasks = {Automation}
  BY HandoffAssumption
<1>2. ~ Acting(Automation)' /\ UNCHANGED <<control_state, control_generation>>
  <2>1. CASE Acting(Automation)
    BY <1>1, <2>1 DEF EndDispatch, HandoffInv, TypeOK, Acting, Phase, Idle, session
  <2>2. CASE ~ Acting(Automation)
    BY <2>2 DEF Acting, Phase, vars, session, lock
  <2>3. QED
    BY <2>1, <2>2
<1>3. QED
  BY <1>1, <1>2 DEF InFlight

\* Closing the runner cancels what runs on it.
LEMMA ClosesRunnerSafe ==
    ASSUME HandoffInv, NEW t \in Threads, ClosesRunner(t)
    PROVE  Safe'
<1>0. HandoffTyped /\ At(t, "runner")
  BY DEF HandoffInv, ClosesRunner
<1>1. /\ Steps(t, "target", thread[t].verdict) /\ runner' = "closed"
      /\ engine' = IF EngineRuns THEN [engine EXCEPT !.pc = "cancelled"] ELSE engine
      /\ capture' = IF capture.pc = "installing" THEN [capture EXCEPT !.pc = "done"] ELSE capture
      /\ UNCHANGED <<service, transition, registered, target, surface, sink, report>>
  BY <1>0, GoSteps DEF ClosesRunner, Cancelled, Places, Closing, locks
<1>2. ~ Acting(Automation)' /\ InFlight' = {} /\ UNCHANGED <<control_state, control_generation>>
  BY ActionEnds DEF ClosesRunner, Cancelled
<1>3. /\ ~ Unpaused /\ target # "none"
      /\ \A u \in Threads : ~ At(u, "preparing") /\ ~ At(u, "identifying")
  BY <1>0, Inside DEF At
<1>4. /\ \A u \in Threads \ {t} : thread'[u] = thread[u]
      /\ thread'[t].pc = "target" /\ thread'[t].verdict = thread[t].verdict
  BY <1>1 DEF Steps
<1>5. /\ engine'.pc = (IF EngineRuns THEN "cancelled" ELSE engine.pc)
      /\ engine'.generation = engine.generation
      /\ engine' \in [pc : {"none", "validating", "replaying", "acting", "succeeded", "failed",
                            "cancelled"},
                      generation : Nat, steps : Nat]
      /\ capture'.pc # "installing" /\ capture'.late = capture.late
      /\ capture' \in [pc : {"none", "installing", "done"}, late : BOOLEAN]
  BY <1>0, <1>1 DEF HandoffTyped
<1>6. HandoffTyped' /\ Staged'
  BY <1>1, <1>2, <1>5 DEF HandoffInv, HandoffTyped, Staged, Steps
<1>7. UnpausedFits'
  BY <1>1, <1>2, <1>3, <1>4, UnpausedOver DEF Unpaused, At
<1>8. LocksFit' /\ RunnerFits'
  BY <1>0, <1>1, <1>2, <1>4, <1>5 DEF HandoffInv, LocksFit, RunnerFits, At, Held, Locking, EngineRuns
<1>9. EngineFits' /\ OnlyHumansAreRecorded'
  BY <1>1, <1>2, <1>4, <1>5 DEF HandoffInv, EngineFits, EngineRuns, OnlyHumansAreRecorded, At, Unpaused
<1>10. CaptureFits'
  BY <1>0, <1>1, <1>2, <1>4, <1>5 DEF HandoffInv, CaptureFits, At
<1>11. TeardownIsFinal'
  <2>1. target = "down" \/ registered
    BY <1>0, <1>3 DEF HandoffInv, HandoffTyped, RunnerFits, At
  <2>2. At(t, "target")'
    BY <1>4 DEF At
  <2>3. ~ EngineRuns'
    BY <1>5 DEF EngineRuns
  <2>4. QED
    BY <1>1, <1>2, <2>1, <2>2, <2>3 DEF TeardownIsFinal
<1>12. QED
  BY <1>6, <1>7, <1>8, <1>9, <1>10, <1>11 DEF Safe

\* The closing breaks off: the runner is stuck, or another thread has closed it.
LEMMA RunnerRaisesSafe ==
    ASSUME HandoffInv, NEW t \in Threads, RunnerRaises(t)
    PROVE  Safe'
<1>0. HandoffTyped /\ At(t, "runner")
  BY DEF HandoffInv, RunnerRaises
<1>1. /\ Steps(t, "idle", "none")
      /\ \/ runner \in {"open", "stuck"} /\ runner' = "stuck"
         \/ runner = "closed" /\ runner' = runner
      /\ transition' = IF transition = t THEN NoThread ELSE transition
      /\ UNCHANGED <<service, registered, target, surface, engine, capture, sink, report>>
      /\ UNCHANGED <<dispatch, control_state, control_generation>>
  BY <1>0, AnswerSteps DEF RunnerRaises, coroutines, vars, session, lock
<1>2. /\ ~ Unpaused /\ target # "none"
      /\ \A u \in Threads : ~ At(u, "preparing") /\ ~ At(u, "identifying")
  BY <1>0, Inside DEF At
<1>3. /\ \A u \in Threads \ {t} : thread'[u] = thread[u]
      /\ thread'[t].pc = "idle" /\ thread'[t].verdict = "none"
  BY <1>1 DEF Steps
<1>4. HandoffTyped' /\ Staged'
  BY <1>1 DEF HandoffInv, HandoffTyped, Staged, Steps
<1>5. UnpausedFits'
  BY <1>1, <1>2, <1>3, UnpausedOver DEF Unpaused, At
<1>6. LocksFit' /\ RunnerFits'
  BY <1>1, <1>3 DEF HandoffInv, LocksFit, RunnerFits, At, Held, Locking, EngineRuns, Acting, Phase
<1>7. EngineFits' /\ OnlyHumansAreRecorded'
  BY <1>1, <1>3 DEF HandoffInv, EngineFits, OnlyHumansAreRecorded, At, Unpaused
<1>8. CaptureFits' /\ TeardownIsFinal'
  <2>1. \A u \in Threads, at \in {"capturing", "returning", "preparing", "identifying", "target",
                                  "unregister"} : At(u, at)' <=> At(u, at)
    BY <1>0, <1>3 DEF At
  <2>2. InFlight' = InFlight
    BY <1>1 DEF InFlight, Acting, Phase
  <2>3. QED
    BY <1>1, <2>1, <2>2 DEF HandoffInv, CaptureFits, TeardownIsFinal, EngineRuns, RunnerFits
<1>9. QED
  BY <1>4, <1>5, <1>6, <1>7, <1>8 DEF Safe

\* The end of the closing finds the runner closed.
LEMMA ClosedSafe ==
    ASSUME HandoffInv, NEW t \in Threads, LeavesTarget(t) \/ Unregisters(t)
    PROVE  Safe'
<1>0. HandoffTyped /\ thread[t].pc \in {"target", "unregister"}
  BY DEF HandoffInv, LeavesTarget, Unregisters, At
<1>1. /\ \/ /\ At(t, "target") /\ Steps(t, "unregister", thread[t].verdict)
            /\ target' = "down" /\ UNCHANGED <<transition, registered, report>>
         \/ /\ At(t, "unregister") /\ Steps(t, "idle", "none")
            /\ transition' = IF transition = t THEN NoThread ELSE transition
            /\ registered' = FALSE /\ target' = target
            /\ report' = IF thread[t].verdict = "none" THEN report ELSE thread[t].verdict
      /\ UNCHANGED <<service, runner, surface, engine, capture, sink>>
      /\ UNCHANGED <<dispatch, control_state, control_generation>>
  BY <1>0, GoSteps, AnswerSteps DEF LeavesTarget, Unregisters, Places, Closing, locks, coroutines,
           vars, session, lock
<1>2. /\ ~ Unpaused /\ target # "none" /\ runner = "closed" /\ target' = "down"
      /\ \A u \in Threads : ~ At(u, "preparing") /\ ~ At(u, "identifying")
  BY <1>0, <1>1, Inside DEF HandoffInv, RunnerFits
<1>3. /\ \A u \in Threads \ {t} : thread'[u] = thread[u]
      /\ \/ thread'[t].pc = "unregister" /\ thread'[t].verdict = thread[t].verdict /\ target' = "down"
         \/ thread'[t].pc = "idle" /\ thread'[t].verdict = "none" /\ registered' = FALSE
  BY <1>1 DEF Steps
<1>4. HandoffTyped' /\ Staged'
  <2>1. report' \in Verdicts /\ registered' \in BOOLEAN
    BY <1>0, <1>1 DEF HandoffTyped, ThreadType, Verdicts
  <2>2. thread' \in [Threads -> ThreadType] /\ target' \in {"none", "up", "down"}
    BY <1>0, <1>1 DEF HandoffTyped, Steps
  <2>3. QED
    BY <1>1, <2>1, <2>2 DEF HandoffInv, HandoffTyped, Staged
<1>5. UnpausedFits'
  BY <1>1, <1>2, <1>3, UnpausedOver DEF Unpaused, At
<1>6. LocksFit' /\ RunnerFits'
  BY <1>0, <1>1, <1>2, <1>3 DEF HandoffInv, LocksFit, RunnerFits, At, Held, Locking, EngineRuns,
                                Acting, Phase
<1>7. EngineFits' /\ OnlyHumansAreRecorded'
  BY <1>1, <1>3 DEF HandoffInv, EngineFits, OnlyHumansAreRecorded, At, Unpaused
<1>8. CaptureFits'
  BY <1>0, <1>1, <1>3 DEF HandoffInv, CaptureFits, At
<1>9. TeardownIsFinal'
  <2>1. InFlight' = {} /\ ~ EngineRuns'
    BY <1>1, <1>2, HandoffAssumption DEF HandoffInv, RunnerFits, InFlight, Acting, Phase, EngineRuns
  <2>2. (registered /\ runner = "closed" =>
             \E u \in Threads : At(u, "target") \/ At(u, "unregister"))'
    BY <1>3 DEF At
  <2>3. (target = "up" /\ ~ registered =>
             \/ surface = "leaked" \/ runner = "stuck"
             \/ \E u \in Threads : At(u, "preparing") \/ At(u, "identifying"))'
    BY <1>2
  <2>4. QED
    BY <1>1, <1>2, <2>1, <2>2, <2>3 DEF TeardownIsFinal
<1>10. QED
  BY <1>4, <1>5, <1>6, <1>7, <1>8, <1>9 DEF Safe

-----------------------------------------------------------------------------
(* Requests, and what runs on the loop *)

\* A request arrives.
LEMMA RequestSafe ==
    ASSUME HandoffInv, NEW t \in Threads, NEW op \in Locking \cup {"start", "exit"}, Request(t, op)
    PROVE  Safe'
<1>0. HandoffTyped /\ At(t, "idle")
  BY DEF HandoffInv, Request
<1> DEFINE new == [op |-> op, pc |-> "called", verdict |-> "none"]
<1>1. new \in ThreadType /\ thread' = [thread EXCEPT ![t] = new]
  BY DEF Request, ThreadType, Ops, Places, Verdicts
<1>2. Steps(t, "called", "none")
  BY <1>0, <1>1, ThreadMoves
<1>3. OthersRest /\ SameSink /\ UNCHANGED <<vars, service, transition>>
  BY DEF Request, locks, coroutines, OthersRest, SameSink
<1>4. QED
  BY <1>0, <1>2, <1>3, PassSafe DEF At, Held, Locking

\* What a step on the loop leaves alone: only a runner that is not closed has one.
LEMMA LoopFrame ==
    ASSUME HandoffInv, LoopStep
    PROVE  /\ UNCHANGED <<thread, service, transition, registered, target, runner, surface, report>>
           /\ runner # "closed" /\ target # "down" /\ report = "none"
           /\ \A u \in Threads, at \in Places : At(u, at)' <=> At(u, at)
<1>1. UNCHANGED <<thread, service, transition, registered, target, runner, surface, report>>
  BY DEF LoopStep, locks, resources
<1>2. runner # "closed" /\ target # "down" /\ report = "none"
  BY DEF LoopStep, Working, HandoffInv, RunnerFits
<1>3. QED
  BY <1>1, <1>2 DEF At

\* Once a caller has gone on, the capture that completes is late.
LEMMA CaptureInstallsSafe ==
    ASSUME HandoffInv, CaptureInstalls
    PROVE  Safe'
<1>1. /\ capture.pc = "installing" /\ capture' = [capture EXCEPT !.pc = "done"]
      /\ sink' \in {TRUE, sink}
      /\ UNCHANGED <<dispatch, control_state, control_generation, engine>>
  BY DEF CaptureInstalls, vars, session, lock
<1>2. /\ UNCHANGED <<thread, service, transition, registered, target, runner, surface, report>>
      /\ runner # "closed" /\ target # "down" /\ report = "none"
      /\ \A u \in Threads, at \in Places : At(u, at)' <=> At(u, at)
  BY LoopFrame DEF CaptureInstalls
<1>3. /\ capture'.pc = "done" /\ capture'.late = capture.late
      /\ capture' \in [pc : {"none", "installing", "done"}, late : BOOLEAN]
  BY <1>1 DEF HandoffInv, HandoffTyped
<1>4. HandoffTyped' /\ Staged'
  <2>1. sink' \in BOOLEAN
    BY <1>1, Zenon DEF HandoffInv, HandoffTyped
  <2>2. QED
    BY <1>1, <1>2, <1>3, <2>1 DEF HandoffInv, HandoffTyped, Staged
<1>5. UnpausedFits'
  BY <1>1, <1>2 DEF HandoffInv, UnpausedFits, Unpaused, At
<1>6. LocksFit' /\ RunnerFits' /\ EngineFits' /\ TeardownIsFinal'
  BY <1>1, <1>2 DEF HandoffInv, LocksFit, RunnerFits, EngineFits, TeardownIsFinal, At, Unpaused,
                    EngineRuns, Acting, Phase
<1>7. CaptureFits' /\ OnlyHumansAreRecorded'
  <2>1. \A u, v \in Threads : At(u, "capturing") => ~ At(v, "returning")
    BY HandoffAssumption DEF HandoffInv, LocksFit, At, Held
  <2>2. capture.late \/ /\ control_state \in {HUMAN_CONTROL, STOPPED}
                        /\ \A v \in Threads : ~ At(v, "returning")
    <3>1. CASE capture.late
      BY <3>1
    <3>2. CASE \E u \in Threads : At(u, "capturing")
      BY <2>1, <3>2 DEF HandoffInv, CaptureFits
    <3>3. QED
      BY <1>1, <3>1, <3>2 DEF HandoffInv, CaptureFits
  <2>3. QED
    BY <1>1, <1>2, <1>3, <2>2 DEF HandoffInv, CaptureFits, OnlyHumansAreRecorded, At, HUMAN_CONTROL,
                                  STOPPED, RESUME_CHECK, AUTOMATION
<1>8. QED
  BY <1>4, <1>5, <1>6, <1>7 DEF Safe

\* The validation starts the third generation.
LEMMA ValidatesSafe ==
    ASSUME HandoffInv, Validates
    PROVE  Safe'
<1>1. /\ engine.pc = "validating"
      /\ engine' = [engine EXCEPT !.pc = "replaying", !.generation = control_generation']
      /\ control_state = RESUME_CHECK /\ control_state' = AUTOMATION
      /\ control_generation' = control_generation + 1
      /\ UNCHANGED <<dispatch, capture, sink>>
  BY DEF Validates, ResumeAutomationAfterValidation, NextGeneration, lock
<1>2. /\ UNCHANGED <<thread, service, transition, registered, target, runner, surface, report>>
      /\ runner # "closed" /\ target # "down" /\ report = "none"
      /\ \A u \in Threads, at \in Places : At(u, at)' <=> At(u, at)
  BY LoopFrame DEF Validates
<1>3. control_generation = 2 /\ control_generation' = 3
  BY <1>1 DEF HandoffInv, Staged, AUTOMATION, PAUSING, HUMAN_CONTROL, RESUME_CHECK, STOPPED
<1>4. /\ engine'.pc = "replaying" /\ engine'.generation = 3
      /\ engine' \in [pc : {"none", "validating", "replaying", "acting", "succeeded", "failed",
                            "cancelled"},
                      generation : Nat, steps : Nat]
  <2>1. engine \in [pc : {"none", "validating", "replaying", "acting", "succeeded", "failed",
                         "cancelled"},
                   generation : Nat, steps : Nat]
    BY DEF HandoffInv, HandoffTyped
  <2>2. engine' = [engine EXCEPT !.pc = "replaying", !.generation = 3]
    BY <1>1, <1>3
  <2>3. engine' = [pc |-> "replaying", generation |-> 3, steps |-> engine.steps]
    BY <2>1, <2>2
  <2>4. QED
    BY <2>1, <2>3
<1>5. HandoffTyped' /\ Staged' /\ LocksFit'
  BY <1>1, <1>2, <1>3, <1>4 DEF HandoffInv, HandoffTyped, Staged, LocksFit, At
<1>6. UnpausedFits'
  BY <1>1, <1>2, <1>3 DEF HandoffInv, UnpausedFits, Unpaused, At, AUTOMATION, PAUSING, RESUME_CHECK
<1>7. RunnerFits' /\ EngineFits'
  BY <1>1, <1>2, <1>3, <1>4 DEF HandoffInv, RunnerFits, EngineFits, At, Unpaused, EngineRuns, Acting,
                                Phase, AUTOMATION, PAUSING, HUMAN_CONTROL
<1>8. CaptureFits' /\ OnlyHumansAreRecorded' /\ TeardownIsFinal'
  BY <1>1, <1>2 DEF HandoffInv, CaptureFits, OnlyHumansAreRecorded, TeardownIsFinal, At, AUTOMATION,
                    HUMAN_CONTROL, RESUME_CHECK, STOPPED
<1>9. QED
  BY <1>5, <1>6, <1>7, <1>8 DEF Safe

\* The replay goes on, and ends.
LEMMA EngineSafe ==
    ASSUME HandoffInv, ReplayActs \/ ReplayActed \/ ReplaySucceeds \/ ReplayFails
    PROVE  Safe'
<1>1. /\ EngineRuns /\ engine'.generation = engine.generation
      /\ engine.pc \in {"replaying", "acting"} \/ engine'.pc = "failed"
      /\ engine'.pc \in {"replaying", "acting", "succeeded", "failed"}
      /\ engine' \in [pc : {"none", "validating", "replaying", "acting", "succeeded", "failed",
                            "cancelled"},
                      generation : Nat, steps : Nat]
      /\ UNCHANGED <<control_state, control_generation, capture, sink>>
  <2>1. engine \in [pc : {"none", "validating", "replaying", "acting", "succeeded", "failed",
                         "cancelled"},
                   generation : Nat, steps : Nat]
    BY DEF HandoffInv, HandoffTyped
  <2>2. CASE ReplayActs
    BY <2>1, <2>2 DEF ReplayActs, EngineRuns, DispatchAtOnce, session
  <2>3. CASE ReplayActed
    <3>1. /\ engine.pc = "acting"
          /\ engine' = [engine EXCEPT !.pc = "replaying", !.steps = engine.steps + 1]
          /\ UNCHANGED <<control_state, control_generation, capture, sink>>
      BY <2>3 DEF ReplayActed, EndDispatch, session
    <3>2. engine' = [pc |-> "replaying", generation |-> engine.generation,
                     steps |-> engine.steps + 1]
      BY <2>1, <3>1
    <3>3. QED
      BY <2>1, <3>1, <3>2 DEF EngineRuns
  <2>4. CASE ReplaySucceeds
    BY <2>1, <2>4 DEF ReplaySucceeds, EngineRuns, vars, session
  <2>5. CASE ReplayFails
    BY <2>1, <2>5, ActionEnds DEF ReplayFails, EngineRuns
  <2>6. QED
    BY <2>2, <2>3, <2>4, <2>5
<1>2. Acting(Automation)' => engine'.pc = "acting"
  <2>1. Automation \in Tasks
    BY HandoffAssumption
  <2>2. CASE ReplayActs
    BY <2>1, <2>2 DEF HandoffInv, HandoffTyped, TypeOK, ReplayActs, DispatchAtOnce, Enter, Acting,
                      Phase, Idle
  <2>3. CASE ReplayActed
    BY <2>1, <2>3, ActionEnds DEF ReplayActed, EndDispatch
  <2>4. CASE ReplaySucceeds
    BY <2>1, <2>4 DEF HandoffInv, RunnerFits, ReplaySucceeds, Acting, Phase, vars, lock
  <2>5. CASE ReplayFails
    BY <2>5, ActionEnds DEF ReplayFails
  <2>6. QED
    BY <2>2, <2>3, <2>4, <2>5
<1>3. /\ UNCHANGED <<thread, service, transition, registered, target, runner, surface, report>>
      /\ runner # "closed" /\ target # "down" /\ report = "none"
      /\ \A u \in Threads, at \in Places : At(u, at)' <=> At(u, at)
  BY LoopFrame DEF ReplayActs, ReplayActed, ReplaySucceeds, ReplayFails
<1>4. /\ engine.pc # "none" /\ engine.pc # "succeeded" /\ ~ Unpaused
      /\ control_state \notin {PAUSING, HUMAN_CONTROL}
      /\ \A u \in Threads : ~ At(u, "resuming")
  BY <1>1 DEF EngineRuns, HandoffInv, EngineFits
<1>5. HandoffTyped' /\ Staged' /\ LocksFit'
  BY <1>1, <1>3 DEF HandoffInv, HandoffTyped, Staged, LocksFit, At
<1>6. UnpausedFits' /\ CaptureFits' /\ OnlyHumansAreRecorded' /\ TeardownIsFinal'
  BY <1>1, <1>3 DEF HandoffInv, UnpausedFits, Unpaused, CaptureFits, OnlyHumansAreRecorded,
                    TeardownIsFinal, At
<1>7. RunnerFits' /\ EngineFits'
  BY <1>1, <1>2, <1>3, <1>4 DEF HandoffInv, RunnerFits, EngineFits, At, Unpaused, EngineRuns
<1>8. QED
  BY <1>5, <1>6, <1>7 DEF Safe

-----------------------------------------------------------------------------
(* The invariant, and the theorems *)

\* Every step is one of the session, or leaves it alone.
LEMMA HandoffSessionStep == HandoffInv /\ [HandoffNext]_handoffVars => [Next]_vars
<1>1. SUFFICES ASSUME HandoffInv, [HandoffNext]_handoffVars PROVE [Next]_vars
  OBVIOUS
<1>2. /\ Automation \in Tasks /\ Reviewer \in Operators
      /\ Halted => [Next]_vars
      /\ Acting(Automation) /\ EndDispatch(Automation) => Next
  BY HandoffAssumption DEF Halted, Next, Control, Dispatching
<1>3. ASSUME NEW t \in Threads, Serves(t) PROVE [Next]_vars
  <2>1. CASE \/ StartBegins(t) \/ StartAnswers(t) \/ PrepareRaises(t) \/ Registers(t)
             \/ StartLoses(t) \/ FindsLive(t) \/ Enters(t) \/ CallRaises(t) \/ Focuses(t)
             \/ TakesAgain(t) \/ GrantRefused(t) \/ CaptureAnswered(t) \/ ReturnFails(t)
             \/ ResumeBegins(t) \/ Hears(t) \/ StopBegins(t) \/ HaltRaises(t) \/ CloseSurface(t)
             \/ CloseRaises(t) \/ RunnerRaises(t) \/ LeavesTarget(t) \/ Unregisters(t)
             \/ ReturnBegins(t)
    BY <2>1 DEF StartBegins, StartAnswers, PrepareRaises, Registers, StartLoses, FindsLive, Enters,
           CallRaises, Focuses, TakesAgain, GrantRefused, CaptureAnswered, ReturnFails,
           ResumeBegins, Hears, StopBegins, HaltRaises, CloseSurface, CloseRaises, RunnerRaises,
           LeavesTarget, Unregisters, ReturnBegins
  <2>2. CASE Prepared(t) \/ Grants(t) \/ Returns(t)
    BY <1>2, <2>2 DEF Prepared, Grants, Returns, Next, Control
  <2>3. CASE Halts(t) \/ ExitBegins(t) \/ CloseStops(t)
    BY <1>2, <2>3 DEF Halts, ExitBegins, CloseStops
  <2>4. CASE ClosesRunner(t)
    BY <1>2, <2>4 DEF ClosesRunner, Cancelled
  <2>5. QED
    BY <1>3, <2>1, <2>2, <2>3, <2>4 DEF Serves
<1>4. ASSUME LoopMoves PROVE [Next]_vars
  <2>1. CASE CaptureInstalls \/ ReplaySucceeds
    BY <2>1 DEF CaptureInstalls, ReplaySucceeds
  <2>2. CASE Validates
    BY <2>2 DEF Validates, Next, Control
  <2>3. CASE ReplayActs
    <3>1. engine.generation \in 0 .. control_generation
      <4>1. engine.generation = 3 /\ control_generation >= 3
        BY <1>1, <2>3 DEF ReplayActs, HandoffInv, EngineFits
      <4>2. control_generation \in Nat
        BY <1>1, SessionAssumption DEF HandoffInv, TypeOK, Generations
      <4>3. QED
        BY <4>1, <4>2
    <3>2. Run \in Actors /\ DispatchAtOnce(Automation, Run, engine.generation)
      BY <2>3 DEF ReplayActs, Actors
    <3>3. QED
      BY <1>2, <3>1, <3>2 DEF Next, Dispatching
  <2>4. CASE ReplayActed
    BY <1>2, <2>4 DEF ReplayActed, Next, Dispatching
  <2>5. CASE ReplayFails
    BY <1>2, <2>5 DEF ReplayFails
  <2>6. QED
    BY <1>4, <2>1, <2>2, <2>3, <2>4, <2>5 DEF LoopMoves
<1>5. QED
  BY <1>1, <1>3, <1>4 DEF HandoffNext, Request, handoffVars

\* The invariant is inductive.
LEMMA HandoffStepInv == HandoffInv /\ [HandoffNext]_handoffVars => HandoffInv'
<1>1. SUFFICES ASSUME HandoffInv, [HandoffNext]_handoffVars PROVE HandoffInv'
  OBVIOUS
<1>2. TypeOK'
  <2>1. [Next]_vars /\ TypeOK
    BY <1>1, HandoffSessionStep DEF HandoffInv
  <2>2. TypeOK /\ UNCHANGED vars => TypeOK'
    BY DEF TypeOK, vars, session, lock
  <2>3. QED
    BY <2>1, <2>2, ControlTyped, DispatchTyped DEF Next
<1>3. Safe'
  <2>1. CASE UNCHANGED handoffVars
    BY <1>1, <2>1 DEF handoffVars, locks, resources, coroutines, vars, session, lock, Safe,
           HandoffInv, HandoffTyped, Staged, UnpausedFits, Unpaused, LocksFit, RunnerFits,
           EngineFits, CaptureFits, TeardownIsFinal, OnlyHumansAreRecorded, At, EngineRuns,
           InFlight, Acting, Phase
  <2>2. ASSUME NEW t \in Threads, Serves(t) PROVE Safe'
    BY <1>1, <2>2, StartBeginsSafe, PreparedSafe, PrepareRaisesSafe, IdentifiedSafe, PassingSafe,
       StoppingSafe, GrantsSafe, CaptureAnsweredSafe, ReturnsSafe, ResumeBeginsSafe,
       CloseSurfaceSafe, ClosesRunnerSafe, RunnerRaisesSafe, ClosedSafe DEF Serves
  <2>3. ASSUME LoopMoves PROVE Safe'
    BY <1>1, <2>3, CaptureInstallsSafe, ValidatesSafe, EngineSafe DEF LoopMoves
  <2>4. QED
    BY <1>1, <2>1, <2>2, <2>3, RequestSafe DEF HandoffNext
<1>4. QED
  BY <1>2, <1>3 DEF HandoffInv, Safe

\* The invariant holds at first.
LEMMA HandoffInitInv == HandoffInit => HandoffInv
<1>1. SUFFICES ASSUME HandoffInit PROVE HandoffInv
  OBVIOUS
<1>2. TypeOK /\ control_state = AUTOMATION /\ control_generation = 0 /\ dispatch = [t \in Tasks |-> Idle]
  BY <1>1, InitTyped DEF HandoffInit, Init
<1>3. \A t \in Threads : thread[t] = Free
  BY <1>1 DEF HandoffInit
<1>4. Free \in ThreadType /\ Free.pc = "idle" /\ Free.verdict = "none"
  BY DEF Free, ThreadType, Ops, Places, Verdicts
<1>5. HandoffTyped /\ Staged
  BY <1>1, <1>2, <1>4 DEF HandoffInit, HandoffTyped, Staged, Verdicts
<1>6. UnpausedFits /\ LocksFit
  BY <1>1, <1>2, <1>3, <1>4 DEF HandoffInit, UnpausedFits, Unpaused, LocksFit, At, Held, Locking
<1>7. RunnerFits /\ EngineFits /\ CaptureFits
  <2>1. ~ Acting(Automation)
    BY <1>2, HandoffAssumption DEF Acting, Phase, Idle
  <2>2. QED
    BY <1>1, <1>2, <1>3, <1>4, <2>1 DEF HandoffInit, RunnerFits, EngineFits, CaptureFits, At, EngineRuns
<1>8. TeardownIsFinal /\ OnlyHumansAreRecorded
  BY <1>1 DEF HandoffInit, TeardownIsFinal, OnlyHumansAreRecorded
<1>9. QED
  BY <1>2, <1>5, <1>6, <1>7, <1>8 DEF HandoffInv

\* The invariant holds.
LEMMA HandoffInvariance == HandoffSpec => []HandoffInv
  BY HandoffInitInv, HandoffStepInv, PTL DEF HandoffSpec

\* The product drives the session only through the controller's operations, so that what
\* SessionControlProofs shows of one session holds of the product's.
THEOREM ProductKeepsSession == HandoffSpec => Spec
<1>1. HandoffInit => Init
  BY DEF HandoffInit
<1>2. QED
  BY <1>1, HandoffInvariance, HandoffSessionStep, PTL DEF HandoffSpec, Spec

\* Hence the session keeps its abstract promise below the product's threads: whichever of
\* them start, take, return, stop and close it, control changes hands as ControlHandoff says.
COROLLARY ProductKeepsPromise == HandoffSpec => KeepsHandoffPromise
BY ProductKeepsSession, ImplementsHandoff

\* _close_live leaves nothing that acts, whoever calls it and whatever it overtakes.
THEOREM TeardownsFinal == HandoffSpec => []TeardownIsFinal
<1>1. HandoffInv => TeardownIsFinal
  BY DEF HandoffInv
<1>2. QED
  BY <1>1, HandoffInvariance, PTL

\* return_control reports SUCCESS only for a replay that succeeded after one handoff.
THEOREM SuccessesHandedBack == HandoffSpec => []SuccessWasHandedBack
<1>1. HandoffInv => SuccessWasHandedBack
  BY DEF HandoffInv, EngineFits, SuccessWasHandedBack
<1>2. QED
  BY <1>1, HandoffInvariance, PTL

\* Page events are recorded as the human's only while the human has the session, or by a
\* capture whose installation outlived its call.
THEOREM RecordingsAreHuman == HandoffSpec => []OnlyHumansAreRecorded
<1>1. HandoffInv => OnlyHumansAreRecorded
  BY DEF HandoffInv
<1>2. QED
  BY <1>1, HandoffInvariance, PTL
=============================================================================
