--------------------------- MODULE ProductHandoff --------------------------
(***************************************************************************)
(* ProductWorkflowService's browser handoff: HTTP threads that start, take, *)
(* return and stop one intervention, and the exit handler that closes it,   *)
(* on the session of SessionControl.                                       *)
(*                                                                         *)
(* A thread calls coroutines on the intervention's AsyncCoreRunner and     *)
(* waits up to its time limit: any call may raise, before or after its     *)
(* effect.  Two coroutines are long enough to outlive their caller: the    *)
(* resumed replay, and the installation of the capture of human actions.   *)
(* The registry of live interventions has a lock, each intervention a      *)
(* reentrant one; the exit handler takes only the former.                  *)
(***************************************************************************)
EXTENDS SessionControl, FiniteSets

CONSTANTS
    Threads,        \* threads that serve requests
    NoThread,       \* the holder of a free lock
    Reviewer,       \* the operator the service grants control to
    Automation,     \* the replay's task
    MaxRequests,    \* bound: requests in all
    MaxSteps        \* bound: automated steps after the resume

ASSUME HandoffAssumption ==
    /\ NoThread \notin Threads
    /\ Operators = {Reviewer} /\ Tasks = {Automation}
    /\ MaxRequests \in Nat /\ MaxSteps \in Nat

VARIABLES
    thread,         \* what each thread serves, where it is, and what it will report
    requests,       \* how many requests came
    service,        \* who holds the service's lock
    transition,     \* who holds the intervention's transition_lock
    registered,     \* whether the intervention is in _live
    target,         \* the served target application
    runner,         \* the intervention's event loop: "stuck" did not end when stopped
    surface,        \* the surface session and the browser: open, leaked or closed
    engine,         \* the resumed replay: its place, generation and steps performed
    capture,        \* the installation of the human observation, and if it was given up
    sink,           \* whether page events are recorded as the human's
    report          \* the summary that was written

locks == <<service, transition>>
resources == <<registered, target, runner, surface>>
coroutines == <<engine, capture, sink>>
handoffVars == <<vars, thread, requests, locks, resources, coroutines, report>>

Free == [op |-> "none", pc |-> "idle", verdict |-> "none"]

HandoffInit ==
    /\ Init
    /\ thread = [t \in Threads |-> Free]
    /\ requests = 0
    /\ service = NoThread /\ transition = NoThread
    /\ registered = FALSE
    /\ target = "none" /\ runner = "none" /\ surface = "none"
    /\ engine = [pc |-> "none", generation |-> 0, steps |-> 0]
    /\ capture = [pc |-> "none", late |-> FALSE]
    /\ sink = FALSE
    /\ report = "none"

At(t, pc) == thread[t].pc = pc
Op(t) == thread[t].op
Go(t, pc) == thread' = [thread EXCEPT ![t].pc = pc]
Answer(t) == thread' = [thread EXCEPT ![t] = Free]

EngineRuns == engine.pc \in {"validating", "replaying", "acting"}
Working == runner \in {"open", "stuck"}

\* The thread leaves the transition lock, answering or raising.
Leave(t) ==
    /\ Answer(t)
    /\ transition' = NoThread
    /\ UNCHANGED service

Request(t, op) ==
    /\ At(t, "idle")
    /\ requests < MaxRequests
    /\ requests' = requests + 1
    /\ thread' = [thread EXCEPT ![t] = [op |-> op, pc |-> "called", verdict |-> "none"]]
    /\ UNCHANGED <<vars, locks, resources, coroutines, report>>

Moves == UNCHANGED <<requests>>

-----------------------------------------------------------------------------
(* start_intervention, under the service's lock throughout *)

StartBegins(t) ==
    /\ Moves
    /\ Op(t) = "start" /\ At(t, "called")
    /\ service = NoThread
    /\ IF registered
       THEN /\ service' = t /\ Go(t, "status")
            /\ UNCHANGED <<target, runner>>
       ELSE IF target = "none"
       THEN /\ service' = t /\ Go(t, "preparing")
            /\ target' = "up" /\ runner' = "open"
       ELSE /\ Answer(t)        \* a second handoff has a session of its own
            /\ UNCHANGED <<service, target, runner>>
    /\ UNCHANGED <<vars, transition, registered, surface, coroutines, report>>

\* One intervention at a time: the live one's status is the answer, or its kind differs,
\* or reading it raises.
StartAnswers(t) ==
    /\ Moves
    /\ At(t, "status")
    /\ Answer(t)
    /\ service' = NoThread
    /\ UNCHANGED <<vars, transition, resources, coroutines, report>>

\* prepare_intervention: the first replay ran up to the step that needs approval.
Prepared(t) ==
    /\ Moves
    /\ At(t, "preparing")
    /\ RequestPause
    /\ surface' = "open"
    /\ Go(t, "identifying")
    /\ UNCHANGED <<locks, registered, target, runner, coroutines, report>>

\* The runner is closed and then the target left, unless closing the runner raises too; the
\* browser, if it was opened, is not closed.
PrepareRaises(t) ==
    /\ Moves
    /\ At(t, "preparing")
    /\ \/ runner' = "closed" /\ target' = "down"
       \/ runner' = "stuck" /\ UNCHANGED target
    /\ surface' \in {"none", "leaked"}
    /\ service' = NoThread
    /\ Answer(t)
    /\ UNCHANGED <<vars, transition, registered, coroutines, report>>

Registers(t) ==
    /\ Moves
    /\ At(t, "identifying")
    /\ registered' = TRUE
    /\ service' = NoThread
    /\ Answer(t)
    /\ UNCHANGED <<vars, transition, target, runner, surface, coroutines, report>>

\* Reading the browser's identity raises outside the try: nobody closes what was opened.
StartLoses(t) ==
    /\ Moves
    /\ At(t, "identifying")
    /\ surface' = "leaked"
    /\ service' = NoThread
    /\ Answer(t)
    /\ UNCHANGED <<vars, transition, registered, target, runner, coroutines, report>>

-----------------------------------------------------------------------------
(* The other requests: _get_live, the transition lock, _get_live again *)

Locking == {"take", "focus", "return", "stop"}

FindsLive(t) ==
    /\ Moves
    /\ Op(t) \in Locking /\ At(t, "called")
    /\ service = NoThread
    /\ IF registered THEN Go(t, "waiting") ELSE Answer(t)
    /\ UNCHANGED <<vars, locks, resources, coroutines, report>>

\* Variant: a lock that is not reentrant.
MayEnterFree(t) == transition = NoThread

MayEnter(t) == transition \in {NoThread, t}

Enters(t) ==
    /\ Moves
    /\ At(t, "waiting")
    /\ MayEnter(t) /\ service = NoThread
    /\ IF registered
       THEN /\ Go(t, Op(t))
            /\ transition' = t
       ELSE /\ Answer(t)
            /\ transition' = NoThread
    /\ UNCHANGED <<vars, service, resources, coroutines, report>>

\* A call to the runner raises before its effect, and what comes after it is not done.
CallRaises(t) ==
    /\ Moves
    /\ \E pc \in Locking : At(t, pc)
    /\ Leave(t)
    /\ UNCHANGED <<vars, resources, coroutines, report>>

\* A loop that does not end while it cancels its tasks still runs what is submitted to it.
Calls(t, pc) ==
    /\ Moves
    /\ At(t, pc)
    /\ Working

\* Whatever the state, focusing answers: an error unless the human is in control.
Focuses(t) ==
    /\ Calls(t, "focus")
    /\ Leave(t)
    /\ UNCHANGED <<vars, resources, coroutines, report>>

\* The human is in control already, or is granted it now.
TakesAgain(t) ==
    /\ Calls(t, "take")
    /\ control_state = HUMAN_CONTROL
    /\ thread' = [thread EXCEPT ![t].op = "focus", ![t].pc = "waiting"]
    /\ UNCHANGED <<vars, locks, resources, coroutines, report>>

\* Once control is granted, the reply may be late or its event fail: it stays granted.
Grants(t) ==
    /\ Calls(t, "take")
    /\ GrantHumanControl(Reviewer)
    /\ \/ /\ Go(t, "capturing")
          /\ capture' = [capture EXCEPT !.pc = "installing"]
          /\ UNCHANGED locks
       \/ /\ Leave(t)
          /\ UNCHANGED capture
    /\ UNCHANGED <<resources, engine, sink, report>>

GrantRefused(t) ==
    /\ Calls(t, "take")
    /\ control_state \notin {HUMAN_CONTROL, PAUSING}
    /\ Leave(t)
    /\ UNCHANGED <<vars, resources, coroutines, report>>

\* Capture is no prerequisite: its failure, or the time limit, is passed over.
CaptureAnswered(t) ==
    /\ Moves
    /\ At(t, "capturing")
    /\ thread' = [thread EXCEPT ![t].op = "focus", ![t].pc = "waiting"]
    /\ capture' = [capture EXCEPT !.late = @ \/ capture.pc = "installing"]
    /\ UNCHANGED <<vars, locks, resources, engine, sink, report>>

-----------------------------------------------------------------------------
(* return_control *)

\* Variant: the capture is left to the closing of the intervention.
ReturnsCaptured(t) ==
    /\ Calls(t, "return")
    /\ control_state = HUMAN_CONTROL
    /\ Go(t, "returning")
    /\ UNCHANGED <<vars, locks, resources, coroutines, report>>

ReturnBegins(t) ==
    /\ Calls(t, "return")
    /\ IF control_state = HUMAN_CONTROL
       THEN /\ sink' = FALSE /\ Go(t, "returning")
            /\ UNCHANGED locks
       ELSE /\ Leave(t) /\ UNCHANGED sink
    /\ UNCHANGED <<vars, resources, engine, capture, report>>

\* The reply may be late or its event fail: control is returned and nothing resumes.
Returns(t) ==
    /\ Calls(t, "returning")
    /\ ReturnControlForResumeCheck
    /\ (Go(t, "resuming") /\ UNCHANGED locks) \/ Leave(t)
    /\ UNCHANGED <<resources, coroutines, report>>

\* The exit handler stopped the session meanwhile, or the call raises.
ReturnFails(t) ==
    /\ Moves
    /\ At(t, "returning")
    /\ Leave(t)
    /\ UNCHANGED <<vars, resources, coroutines, report>>

\* The browser must be the one control was taken in; anything else is a failed resume.
ResumeBegins(t) ==
    /\ Moves
    /\ At(t, "resuming")
    /\ \/ /\ Working /\ surface = "open"
          /\ engine' = [engine EXCEPT !.pc = "validating"]
          /\ Go(t, "hearing")
       \/ /\ thread' = [thread EXCEPT ![t].pc = "stopping", ![t].verdict = "FAILURE"]
          /\ UNCHANGED engine
    /\ UNCHANGED <<vars, locks, resources, capture, sink, report>>

\* Variant: what the replay answered is not looked at.
HearsUnverified(t) ==
    /\ Moves
    /\ At(t, "hearing")
    /\ \E verdict \in {"SUCCESS", "FAILURE"} :
          thread' = [thread EXCEPT ![t].pc = "stopping", ![t].verdict = verdict]
    /\ UNCHANGED <<vars, locks, resources, coroutines, report>>

\* A successful replay is verified, which may fail it; a late one counts as failed.
Hears(t) ==
    /\ Moves
    /\ At(t, "hearing")
    /\ \E verdict \in IF engine.pc = "succeeded" THEN {"SUCCESS", "FAILURE"} ELSE {"FAILURE"} :
          thread' = [thread EXCEPT ![t].pc = "stopping", ![t].verdict = verdict]
    /\ UNCHANGED <<vars, locks, resources, coroutines, report>>

-----------------------------------------------------------------------------
(* stop and close *)

Halted == IF control_state = STOPPED THEN UNCHANGED vars ELSE StopSession

StopBegins(t) ==
    /\ Calls(t, "stop")
    /\ sink' = FALSE
    /\ Go(t, "halting")
    /\ UNCHANGED <<vars, locks, resources, engine, capture, report>>

\* If the stop or its event raises the intervention stays live, stopped or not.
Halts(t) ==
    /\ Calls(t, "halting")
    /\ Halted
    /\ \/ /\ thread' = [thread EXCEPT ![t].pc = "stopping", ![t].verdict = "STOPPED"]
          /\ UNCHANGED locks
       \/ Leave(t)
    /\ UNCHANGED <<resources, coroutines, report>>

HaltRaises(t) ==
    /\ Moves
    /\ At(t, "halting")
    /\ Leave(t)
    /\ UNCHANGED <<vars, resources, coroutines, report>>

\* The exit handler asks nobody's leave, and passes over every failure to stop.
ExitBegins(t) ==
    /\ Moves
    /\ Op(t) = "exit" /\ At(t, "called")
    /\ service = NoThread
    /\ IF registered
       THEN /\ Go(t, "stopping")
            /\ (Working /\ Halted) \/ UNCHANGED vars
       ELSE /\ Answer(t) /\ UNCHANGED vars
    /\ UNCHANGED <<locks, resources, coroutines, report>>

-----------------------------------------------------------------------------
(* _close_live *)

CloseStops(t) ==
    /\ Calls(t, "stopping")
    /\ Halted
    /\ Go(t, "surface")
    /\ UNCHANGED <<locks, resources, coroutines, report>>

\* A surface session that is gone raises, and so may the browser's own closing: then the
\* browser is not closed.  Both raise within close_intervention, whose caller goes on.
CloseSurface(t) ==
    /\ Calls(t, "surface")
    /\ surface' \in IF surface = "open" THEN {"closed", "leaked"} ELSE {surface}
    /\ thread' = [thread EXCEPT ![t].pc = "runner",
                     ![t].verdict = IF surface = "open" /\ surface' = "closed" THEN @ ELSE "none"]
    /\ UNCHANGED <<vars, locks, registered, target, runner, coroutines, report>>

\* The runner is closed already, or close_intervention is late: its verdict is lost.
CloseRaises(t) ==
    /\ Moves
    /\ At(t, "stopping") \/ At(t, "surface")
    /\ thread' = [thread EXCEPT ![t].pc = "runner", ![t].verdict = "none"]
    /\ UNCHANGED <<vars, locks, resources, coroutines, report>>

\* What runs on the loop is cancelled, an action in flight with it.
Cancelled ==
    /\ IF Acting(Automation) THEN EndDispatch(Automation) ELSE UNCHANGED vars
    /\ engine' = IF EngineRuns THEN [engine EXCEPT !.pc = "cancelled"] ELSE engine
    /\ capture' = IF capture.pc = "installing" THEN [capture EXCEPT !.pc = "done"] ELSE capture

\* Variant: the loop is abandoned with what runs on it.
ClosesRunnerOnly(t) ==
    /\ Moves
    /\ At(t, "runner")
    /\ runner' = "closed"
    /\ Go(t, "target")
    /\ UNCHANGED <<vars, locks, registered, target, surface, coroutines, report>>

\* A second attempt may end a loop that the first did not; what hung on it runs no more.
ClosesRunner(t) ==
    /\ Moves
    /\ At(t, "runner")
    /\ Cancelled
    /\ runner' = "closed"
    /\ Go(t, "target")
    /\ UNCHANGED <<locks, registered, target, surface, sink, report>>

\* The thread of the loop does not end in time, or another closer is just ending it: the
\* exception skips what is left of the closing.
RunnerRaises(t) ==
    /\ Moves
    /\ At(t, "runner")
    /\ \/ runner \in {"open", "stuck"} /\ runner' = "stuck"
       \/ /\ runner = "closed"
          /\ \E u \in Threads : At(u, "target")
          /\ UNCHANGED runner
    /\ Answer(t)
    /\ transition' = IF transition = t THEN NoThread ELSE transition
    /\ UNCHANGED <<vars, service, registered, target, surface, coroutines, report>>

LeavesTarget(t) ==
    /\ Moves
    /\ At(t, "target")
    /\ target' = "down"
    /\ Go(t, "unregister")
    /\ UNCHANGED <<vars, locks, registered, runner, surface, coroutines, report>>

\* The summary is written unless close_intervention raised.
Unregisters(t) ==
    /\ Moves
    /\ At(t, "unregister")
    /\ service = NoThread
    /\ registered' = FALSE
    /\ report' = IF thread[t].verdict = "none" THEN report ELSE thread[t].verdict
    /\ Answer(t)
    /\ transition' = IF transition = t THEN NoThread ELSE transition
    /\ UNCHANGED <<vars, service, target, runner, surface, coroutines>>

-----------------------------------------------------------------------------
(* Coroutines on the runner's loop *)

LoopStep == Working /\ Moves /\ UNCHANGED <<thread, locks, resources, report>>

CaptureInstalls ==
    /\ LoopStep
    /\ capture.pc = "installing"
    /\ capture' = [capture EXCEPT !.pc = "done"]
    /\ sink' \in {TRUE, sink}
    /\ UNCHANGED <<vars, engine>>

Validates ==
    /\ LoopStep
    /\ engine.pc = "validating"
    /\ ResumeAutomationAfterValidation
    /\ engine' = [engine EXCEPT !.pc = "replaying", !.generation = control_generation']
    /\ UNCHANGED <<capture, sink>>

ReplayActs ==
    /\ LoopStep
    /\ engine.pc = "replaying"
    /\ engine.steps < MaxSteps
    /\ DispatchAtOnce(Automation, Run, engine.generation)
    /\ engine' = [engine EXCEPT !.pc = IF locked' THEN "acting" ELSE "failed"]
    /\ UNCHANGED <<capture, sink>>

ReplayActed ==
    /\ LoopStep
    /\ engine.pc = "acting"
    /\ EndDispatch(Automation)
    /\ engine' = [engine EXCEPT !.pc = "replaying", !.steps = @ + 1]
    /\ UNCHANGED <<capture, sink>>

ReplaySucceeds ==
    /\ LoopStep
    /\ engine.pc = "replaying"
    /\ engine' = [engine EXCEPT !.pc = "succeeded"]
    /\ UNCHANGED <<vars, capture, sink>>

\* Not validated, stopped, a surface that is gone, a failed action or condition.
ReplayFails ==
    /\ LoopStep
    /\ EngineRuns
    /\ IF Acting(Automation) THEN EndDispatch(Automation) ELSE UNCHANGED vars
    /\ engine' = [engine EXCEPT !.pc = "failed"]
    /\ UNCHANGED <<capture, sink>>

-----------------------------------------------------------------------------
Serves(t) ==
    \/ StartBegins(t)
    \/ StartAnswers(t)
    \/ Prepared(t)
    \/ PrepareRaises(t)
    \/ Registers(t)
    \/ StartLoses(t)
    \/ FindsLive(t)
    \/ Enters(t)
    \/ CallRaises(t)
    \/ Focuses(t)
    \/ TakesAgain(t)
    \/ Grants(t)
    \/ GrantRefused(t)
    \/ CaptureAnswered(t)
    \/ ReturnBegins(t)
    \/ Returns(t)
    \/ ReturnFails(t)
    \/ ResumeBegins(t)
    \/ Hears(t)
    \/ StopBegins(t)
    \/ Halts(t)
    \/ HaltRaises(t)
    \/ ExitBegins(t)
    \/ CloseStops(t)
    \/ CloseSurface(t)
    \/ CloseRaises(t)
    \/ ClosesRunner(t)
    \/ RunnerRaises(t)
    \/ LeavesTarget(t)
    \/ Unregisters(t)

LoopMoves ==
    \/ CaptureInstalls
    \/ Validates
    \/ ReplayActs
    \/ ReplayActed
    \/ ReplaySucceeds
    \/ ReplayFails

HandoffNext ==
    \/ \E t \in Threads, op \in Locking \cup {"start", "exit"} : Request(t, op)
    \/ \E t \in Threads : Serves(t)
    \/ LoopMoves

\* Every call a thread makes has a time limit; nothing is assumed of what runs on the loop.
HandoffFairness == \A t \in Threads : WF_handoffVars(Serves(t))

HandoffSpec == HandoffInit /\ [][HandoffNext]_handoffVars
FairHandoffSpec == HandoffSpec /\ HandoffFairness

-----------------------------------------------------------------------------
(* Properties *)

\* When the intervention is no longer live, or its result is written, nothing of it acts any
\* more: no replay runs on, although its caller gave up on it, and the target is gone.  What
\* is still up without being live was lost by its start, and a live intervention's runner is
\* closed only while a thread is about to unregister it.
TeardownIsFinal ==
    /\ target = "down" \/ report # "none" => /\ runner = "closed"
                                            /\ InFlight = {}
                                            /\ ~ EngineRuns
    /\ target = "up" /\ ~ registered =>
           \/ surface = "leaked" \/ runner = "stuck"
           \/ \E t \in Threads : At(t, "preparing") \/ At(t, "identifying")
    /\ registered /\ runner = "closed" =>
           \E t \in Threads : At(t, "target") \/ At(t, "unregister")

\* A replay reported as successful succeeded, under the third generation of the session: it
\* was paused, taken and returned once, and nobody stopped it before.
SuccessWasHandedBack ==
    report = "SUCCESS" => engine.pc = "succeeded" /\ engine.generation = 3

\* The capture of human actions records nothing while automation has the session, unless
\* its installation outlived the call that asked for it: an automated navigation is then
\* recorded as the human's.
OnlyHumansAreRecorded ==
    sink /\ control_state \in {RESUME_CHECK, AUTOMATION} => capture.late

\* Every request is answered: the service's lock, the transition lock and the runner's time
\* limits never wait for one another.
ServiceAnswers == \A t \in Threads : ~ At(t, "idle") ~> At(t, "idle")
=============================================================================
