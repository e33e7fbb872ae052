# capability-runner: specification and proofs

TLA+ models of the capability runner: one live browser session that is shared by
automation and human operators, the gateways every action passes, the discovery of
capabilities on a moving page, their storage and replay, and the handoff of a blocked
replay to a human and back, up to the product's HTTP threads. TLC checks the models on
small instances; TLAPS proves, for every instance, all the safety properties they check: of
the session and its queue, both gateways, the replay handoff, the evaluator and the replay
engine, the browser surface, both discoveries, their workspace and the product's handoff.

## 1. The system

A *capability* is a saved procedure (steps with conditions, success conditions, business
outcomes, outputs). It is found by *discovery* with a language model and *replayed*
without one. Both act on a browser page through the same gateway, on a *session* that is
controlled by an automation run or by an operator.

| component | state | operations | talks to |
| --- | --- | --- | --- |
| `SessionController` | control state, owner, generation, `state_lock`, `dispatch_lock` per session | open, pause, grant, return, resume, stop, two protected dispatches | called by everything that acts |
| `InterventionManager` | a record per intervention | request, grant, return, complete validation, stop | controller, resume validator, evidence |
| `ReplayContinuationCoordinator` and its registry | pending and consumed continuations, a `resume_lock` each | suspend, validate, resume | manager, replay engine |
| `ActionGateway`, `OperatorActionGateway` | none of their own | execute, execute_observed | policy, evidence, controller, surface |
| `ReplayEngine` | position in the capability | replay, validate_resume, resume | gateway, snapshot collector, evaluator |
| `StateEvaluator` | none (pure) | condition, terminal state, outputs | |
| `BrowserSurfaceAdapter` | page, observation generation, element references | open, observe, inspect, act, close | the browser |
| `DiscoveryEngine`, `BrowserDiscovery` | turns, actions, history of a loop | discover | model, gateway, surface |
| `CapabilityStore`, `CapabilityValidator` | files | save, load, list | file system |
| `AsyncCoreRunner`, product HTTP, workspace | a loop thread, live runs, transition lock, statuses | start, take control, return, stop, close | everything above, from HTTP threads |
| `PolicyGuard`, `EvidenceRecorder` | rules; an append-only file | evaluate; record | |

What is hard: actions that are in flight while control changes hands; dispatches that
wait in a queue while what allowed them goes stale; state read before an await and used
after it; resumes that race; evidence that fails between two steps; stops and time
limits that overtake everything; conditions that are neither true nor false.
`PROJECT.json` lists every hazard at its line, with the properties that cover it.

What makes each component correct:

- *session control*: only the owner acts, one action at a time, under the current
  generation; control changes hands only when the session is quiet; nobody waits for ever;
- *handoff*: a blocked replay is resumed at most once, from where it stands, only after a
  validation of its own that began after the operator's return, and never repeats a side
  effect;
- *gateways*: no effect without a recorded permission, none unaccounted for, no answer
  that promises an untouched page when it is not;
- *replay*: steps once and in order, results only from what a snapshot shows;
- *evaluator*: a verdict holds on every page that the snapshot leaves possible;
- *surface*: an action hits the element that was shown under its reference, or nothing,
  unless the page changed after the last check of the reference began;
- *discovery*: whatever the model answers, a success rests on what was observed and done,
  no action follows one that may have failed or repeats the one just before it on an
  unchanged page, only the time limit leaves actions uncounted, and the loop ends by its own
  limits;
- *store and workspace*: a success that was told can be replayed, also after a crash, and
  nothing can be replayed that no discovery found; a hanging discovery frees its place;
- *product handoff*: a closed intervention acts no more, a reported success was handed
  back, and what is recorded as the human's was the human's.

## 2. Modules

| module | models | extends |
| --- | --- | --- |
| `SessionControl` | `session_controller.py`: one session, its FIFO dispatch lock, the tasks that dispatch on it | |
| `ControlHandoff` | the abstract promise of session control, without locks, queues and control states | |
| `ReplayHandoff` | `intervention_manager.py`, `run_coordinator.py`, the engine as they see it, the operator, the page | `SessionControl` |
| `ActionGateway` | `action_gateway.py`, `operator_action_gateway.py` | `SessionControl` |
| `ProductHandoff` | `product_http.py`, `login_handoff.py`, the composition in `reviewer_runtime.py`, `async_core_runner.py` under them | `SessionControl` |
| `StateEvaluator` | `state_evaluator.py` as operators, and the pages a snapshot leaves possible | |
| `ReplayEngine` | `replay_engine.py` over any sequence of snapshots | `StateEvaluator` |
| `SurfaceObservation` | observations, watches and element references of `browser_surface_adapter.py`, and the page | |
| `BrowserDiscovery` | the loop of `browser_discovery.py`, the comparison of targets in `binding_compiler.py` | `SurfaceObservation` |
| `DiscoveryEngine` | the loop of `discovery_engine.py`, `discovery/snapshot_collector.py` | |
| `CapabilityStore` | the file operations of `capability_store.py` | |
| `DiscoveryWorkspace` | `discovery_workspace.py`, with the worker thread and the runner's time limit | `CapabilityStore` |
| `...Proofs` | TLAPS proofs about the module named | that module, and `SessionControlProofs` if that module extends `SessionControl` |
| `MC...` | the instances for TLC | the module named |

### Steps and atomicity

The core runs on one asyncio loop. What a coroutine does between two awaits that really
suspend is one step; `state_lock` bodies do not await, so they never have waiters. The
real awaits are: the dispatch lock when it is taken, the surface, the resume validator
(it inspects the page), a continuation's lock, and the replay's delays. Taking a free
lock nobody waits for does not suspend; releasing one wakes its first waiter, which runs
in a step of its own (`WokenDispatch`), so that others may come in between, as
in CPython's `asyncio.Lock`.

A call the controller refuses changes nothing and is not a step of its own. A dispatch is
different, because it waits for its turn before it learns that it is refused.

### SessionControl

`control_state`, `owner`, `control_generation` are the fields of `SessionState`;
`locked`, `waiters` and `dispatch` are the dispatch lock, its queue and what each task
does with it. One action per operation: `RequestPause`, `GrantHumanControl`,
`ReturnControlForResumeCheck`, `ResumeAutomationAfterValidation`, `StopSession`; and a
dispatch in its phases: `DispatchAtOnce`, `DispatchQueues`, `WokenDispatch`,
`EndDispatch`, `CancelQueued`. A dispatch is made under *any* generation up to the
current one, since callers read it at some earlier moment. Both protected dispatches
differ only in who may pass (`AutomationMayDispatch`, `OperatorMayDispatch`).

### ReplayHandoff

A *caller* is a coroutine in the coordinator: it runs the first replay, or resumes a
continuation. `registry`, `checkpoint` and `records` are the registry's and the manager's
dictionaries; `known` holds the identifiers a client was told. The page is known by
the steps whose effect is on it: a step's effect may show or not, an operator's action may
bring about any step's effect, and a human may touch the headed browser at any time
(`HumanInput`), which `docs/subsystems/direct-browser-handoff.md` allows. The engine is
modelled as far as the handoff depends on it: where it resumes, which steps it
dispatches, what needs approval. Evidence may fail where the code does not catch it.

### ActionGateway

`request` says how far each task's request has come and what it was answered;
`policyLog` and `actionLog` are its evidence; `applied` the requests whose action took
effect. The surface brings an effect about at some moment of the dispatch, or never, and
only `APPLIED` proves it: a click that timed out, or after which the page could not be
observed, may have landed. A cancelled dispatch releases the lock while the browser may
still perform the action (`CancelInFlight`, then `Effect`).

### StateEvaluator and ReplayEngine

A snapshot maps targets to visible (with or without text), not visible or unavailable;
texts are abstract values with a containment relation. `TerminalState` and the condition
operators are those of the code; `PossiblePages` is the reference they are held against:
every page that agrees with what was observed. `ReplayEngine` takes any snapshot at every
collection, so that pages may change between any two awaits. `replay` and `resume` differ
in the initial state; preflight (inputs, profile, checkpoint identity) has been passed.

### SurfaceObservation and BrowserDiscovery

The page is a process of its own: at any moment, between any two awaits of the adapter,
it mutates a frame, navigates, replaces its frames or hides an element; `page.clock`
counts the changes. `surface` is what the adapter keeps: the observation's generation,
what each reference was shown for, and whether each frame's watch has fired. `call` is the
one call in progress. An observation watches a frame, takes its snapshot, reads it, and
watches again before it binds; a perform asks the watches, locates the element, aims and
brings about the effect, with a page change possible between any two.

`BrowserDiscovery` drives this surface. The model's answer is any decision of the
contract: any reference, any input, any evidence, any identity. `loop` is the coroutine's
own state: its place, counters, the fingerprint of the last page, the inputs executed
fills have typed (`targets`), the rows chosen (`selected`). Its operators bear the names
of the reasons the code answers.

### DiscoveryEngine

The profiled loop reads the page target by target, so that one snapshot may mix pages, and
each target in two awaits, as `inspect_target` does: `Inspect` finds it visible or not, and
`ReadText` reads the text of the one in `found`, which may have been hidden or changed by
then. `page[t]` is what the target's locator finds: for a target inside a row of a table,
whatever is in that place by then. `shown` remembers, for the properties only, which texts
each target has had in this turn since it was first visible, and `log` what the gateway was
asked and answered. The gateway is one choice among the answers `ActionGateway` allows.

So a cited text need not have been visible itself: the page may hide a target and change its
text between the two awaits, and the code reports it as visible. `CompletionIsGrounded` says
what does hold: the target was visible in the completion's own turn, and had the text at that
moment or at a later one.

### CapabilityStore and DiscoveryWorkspace

A file is absent, torn or whole; `saved` counts the writes a save has finished, in the
order of `save_package`. A write fails or the process dies between any two steps and in
the middle of one. A package loads if all its files are whole; the definition file is
written aside and renamed. `DiscoveryWorkspace` adds the threads: `runs[r]` holds the
status, reason and package that clients read, how far the worker thread is (`worker`) and
how far the coroutine is (`core`). The worker gives up at the runner's time limit
(`GivesUp`), the coroutine goes on and may still write. `told` is what clients were
answered, and survives a crash; `runs` and `summaries` do not.

### ProductHandoff

Each HTTP thread serves one request at a time: `start`, `take`, `focus`, `return`, `stop`,
and `exit` for the exit handler. `service` is the lock on the registry of live
interventions, `transition` the reentrant lock of the one intervention; `exit` takes only
the former. Every call of the runner may raise before or after its effect. Two coroutines
may outlive their caller and are processes of their own: `engine`, the resumed replay, and
`capture`, the installation of the recorder of human input, `late` when its caller gave up.

## 3. Checks

| run | instance | result |
| --- | --- | --- |
| `session_control` | 1 run, 2 operators, 3 tasks, generations up to 4 | passes |
| `replay_handoff` | 2 callers, 1 operator with a console task, 4 steps of which 2 need approval, 2 interventions, 1 evidence failure, generations up to 8 | passes |
| `handoff_stop` | smaller: 2 steps of which 1 needs approval, no evidence failure, generations up to 4 | `StopRemovesContinuation` violated |
| `action_gateway` | 1 automation task, 1 console task, 2 operators, 1 evidence failure, generations up to 4 | passes |
| `gateway_loss` | the same, without fairness | `LossAfterDispatchOnly` violated |
| `replay_engine` | 2 capabilities, 3 targets, 2 texts, an optional input | passes |
| `engine_outcome`, `engine_unknown` | the same, without fairness | `OutcomeStopsReplay`, `CompletionIsProven` violated |
| `browser_discovery` | 5 views of 4 names in 2 frames, 1 input, 3 turns, 2 actions, 2 references of evidence, 1 page change | passes |
| `discovery_engine` | 2 targets, 2 texts, 3 turns, 2 actions, 2 page changes | passes |
| `workspace` | 2 discoveries, 1 crash | passes |
| `product_handoff` | 2 threads, 4 requests, generations up to 4, a replay of 1 step | passes |

What each asks, in a sentence:

- `session_control`: however transitions, queueing and cancellation interleave, are the
  actions in flight the owner's, handoffs quiescent, and waiters served?
- `replay_handoff`: however resumes race and evidence fails, is no step performed twice,
  no approval skipped, and control taken back only by a validation that began after its
  return, for the continuation it validated?
- `action_gateway`: is every effect permitted, the owner's and accounted for, and every
  answer true?
- `replay_engine`: does every verdict hold on the pages its snapshot leaves possible, and
  does every replay end?
- `browser_discovery`: can a page that changes at any await make an action hit something
  else than what was shown, or a success rest on nothing?
- `discovery_engine`: can answers of the model, repairs and torn snapshots lead to a
  completion on texts of another turn, to a dispatch after one that may have failed, to two
  in a row that are the same on the same snapshot, or past a limit? That an action is
  repeated on an unchanged snapshot with another one in between is allowed by the code, which
  remembers only the last, and no property excludes it.
- `workspace`: can a late coroutine, a failing write or a crash make a client's SUCCESS
  worthless?
- `product_handoff`: can a stop, the exit handler or a late call leave something running
  behind a closed intervention, report a success that was not handed back, or deadlock?

Each property has a *variant* beside the operator it guards (`GrantDuringAction` beside
`GrantHumanControl`, say): the same code with a plausible mistake. The `mutants` of
`PROJECT.json` pair them, and with the mistake in place TLC finds the property violated.
The type invariant is an invariant of the run of `session_control`; for the modules below
the proofs of section 4 it is part of what is proved.

**Bounds.** `MaxGeneration` bounds the generation. In `session_control` 4 is one whole
handoff (pause, grant, resume) and one transition more, after which a dispatch of
generation 0 can still be queued: every stale permission of the code differs from the
current one by at least one of these. Three tasks are the smallest number with one in
flight and two in the queue. In `replay_handoff` two interventions of three generations
each, and a stop, fit below 8; four steps give a step before, between and after the two
approval steps. One failure of evidence is enough to reach every handler; a second one
could only meet a call that has already ended. In `replay_engine` the two
capabilities cover every combination of the loop: steps with and without
precondition, postcondition, retry policy and input. A generation at its bound stops
the model's transitions, not the program's; nothing else is cut off there.

Three turns and two actions of a discovery are a fill, a click and the completion, the
shortest whole discovery, and either limit is reached before the other in some behaviour;
the limits on invalid answers and unchanged pages are the code's own (2). One change of
the page between any two awaits meets every check of a reference once; the views include
two rows of one name, another row under the name, and another member's result. In
`discovery_engine` two changes let a target be shown and then, before its text is read, be
hidden and changed, and let a page go back to what it was. Two discoveries
are enough for one to outlive its worker while the other runs; `MaxRuns`, the runs a
process keeps, is two there and eight in the code. Four requests lead through a whole
handoff (start, take, return) with one that interferes; generation 4 is one past the third,
in which a successful replay runs.

**Fairness.** Woken tasks run, and a surface action ends: weak fairness of `WokenDispatch`,
`EndDispatch` and, in the larger modules, of the coroutine's own steps. What waits for the
page (clicks, fills, navigation, reading a text) has the time limit the adapter sets
(`browser_surface_adapter.py:166-169`); several short reads have none (`evaluate`, `title`,
`count`, `is_visible`), and for them the models assume that the browser answers. Where it does
not, only the outer time limit of a discovery or of the runner ends the wait. The lock of a continuation is
FIFO but modelled without its queue; strong fairness of `AdmitResume` stands for the
order. People, clients and the operator are under no fairness: `PauseQuiesces` says that
a pause reaches quiescence, not that anyone takes control. In `BrowserDiscovery` the loop
and the adapter go on for the same reasons, and since the model's client has a time limit;
nothing is assumed of the page, nor of the outer time limit, so `DiscoveryEnds` speaks of the
loop's own limits. In `DiscoveryWorkspace` a worker thread
goes on, as its only wait has the runner's time limit; a coroutine may hang for ever. In
`ProductHandoff` an HTTP thread goes on, since its waits have that limit too; the resumed replay and the
capture may hang.

**Deadlock** is checked, except where the system may really stop: a replay and a discovery
end, and the requests, discoveries and crashes of `product_handoff` and `workspace` are
bounded. In both, `ServiceAnswers` and `WorkspaceIsFreed` exclude that a thread is stuck.

### What the violated properties show

1. *A stop keeps the continuation.* `p4.3-resumable-automation.md` says that runtime values
   are removed when a continuation is "consumed or terminally stopped". Stopping changes
   the session only; the pending continuation stays until someone tries to resume it.
2. *"Operator dispatch completed"* is answered, with `POST_ACTION_EVIDENCE_FAILED`, also
   when a request was denied, unbound or refused and its record failed.
3. *A business outcome that appears late.* The snapshot before a step is not checked for
   a terminal state, so the next action is dispatched on a page that shows one.
4. *An unknown postcondition* of a step without a retry policy lets the replay go on and is
   recorded as completion.

## 4. Proofs

All theorems hold for every value of the constants, from the assumptions named in the
modules alone (`SessionAssumption`: the run, the operators and the placeholder `Nobody`
differ; the bound is a natural number; the other modules' likewise). `EngineAssumption` says
of a capability what its contract does: a finite tuple of steps, finitely many outcomes.
`SurfaceAssumption` and `DiscoveryAssumption` type the page and the goal, no more.

| module | theorem | says |
| --- | --- | --- |
| `SessionControlProofs` | `TypeCorrect` | the type invariant |
| | `OwnerActs`, `ActionsExclude`, `OvertakenOnlyByPauseOrStop`, `OwnerFits` | the safety invariants that `session_control` checks |
| | `HandoffFresh` | the action property on changes of owner |
| | `ImplementsHandoff` | `SessionControl` implements `ControlHandoff` |
| | `QueueIsExact` | the queue holds exactly the waiting tasks |
| `ActionGatewayProofs` | `GatewaysKeepSession`, `GatewaysKeepPromise` | `GatewaySpec => Spec`: the session's theorems hold below both gateways, and with them its abstract promise |
| | `EffectsPermitted`, `AnswersTruthful`, `EffectsAccounted`, `EffectsAreTheOwners` | all safety properties of `action_gateway` |
| `ReplayHandoffProofs` | `ReplayKeepsSession`, `ReplayKeepsPromise` | `ReplaySpec => Spec`, likewise |
| | `StepsPerformedOnce`, `ReplaysExclude`, `ApprovalsHonoured`, `PendingResumable`, `ResumedOnOwn` | all safety properties of `replay_handoff` |
| `DiscoveryWorkspaceProofs` | `SuccessesReplayable`, `OnlyLateRunsOverlap` | both invariants of `workspace` |
| `ReplayEngineProofs` | `VerdictsSound` | a verdict on a snapshot holds on every page the snapshot leaves possible |
| | `SuccessesProven`, `StepsInOrder`, `RetriesProven` | the other safety properties of `replay_engine` |
| `BrowserDiscoveryProofs` | `CheckedShown`, `EffectsHitWhatWasShown` | the action properties of `browser_discovery`, about the surface |
| | `SuccessesGrounded`, `EffectsCounted` | its invariants |
| `DiscoveryEngineProofs` | `CompletionsGrounded`, `DispatchesAccounted` | both properties of `discovery_engine` |
| `ProductHandoffProofs` | `ProductKeepsSession`, `ProductKeepsPromise` | `HandoffSpec => Spec`, likewise |
| | `TeardownsFinal`, `SuccessesHandedBack`, `RecordingsAreHuman` | all invariants of `product_handoff` |

**The session.** The inductive invariant is `IInv`: the type invariant, `LockIsHeld` (the
dispatch lock is held exactly while an action is in flight), and the four safety
invariants together. None of them is inductive alone. Grant and return look at the lock
and so need `LockIsHeld` to know that nothing is in flight. Resume does not look at it; it
is safe because `InFlightGeneration` allows no action in flight in `resume_requested`,
which is where the guard of the return pays off. The admission check inside the lock
re-establishes owner and generation, pause and stop leave the owner alone. The
refinement maps the owner to the holder, the generation to the term, and the two states
that admit dispatches to `open`; queueing, refusal and cancellation are stuttering.

**The queue.** A task enters it only when idle, hence not in it, and leaves it at the head
or by cancellation. `RemoveAtElements` says what taking one element out of a sequence
leaves; as no task is twice in the queue, one occurrence is all of it.

**The gateways.** `GatewayInv` says, for each task, that its dispatch and its request agree:
the actor is the same, the generation has been, and a task is dispatching exactly while it
has a dispatch. The queue is needed here: the woken head has to be a task whose request is
dispatching. With that, each step is a step of the session or leaves it alone. A request
dispatches only once ALLOW is on record, and an answer given before an action is in flight
can promise an untouched page.

**The replay handoff.** A running replay and an open continuation (one a client knows of)
never exist together: a replay ends as it suspends and consumes its continuation before it
begins. So at most one continuation is open, whoever validates holds its lock, and while
they do only a stop can change the session. Hence nobody validates as an operator returns
control, and whoever takes it back validated what that return left (`ResumedOnOwnValidation`;
its one exception, an event that cannot be written after control was taken back, leaves the
continuation pending behind an automated session). `StepPerformedOnce` and `ApprovalHonoured` rest
on what is known of the place where the replay stands or would resume: nothing from there
on has been performed, and what needs a human before it is on the page.

**The evaluator and the replay engine.** A condition that evaluates to true or false does
so on every page the snapshot leaves possible, with every value of the inputs that were not
supplied (`ConditionIsSound`); a set of conditions inherits that, and the verdict is read off
the sets of outcomes that are seen to hold and that may hold (`VerdictHolds`; only the
conflict counts them, hence finitely many). The induction is about the index: whatever was
dispatched lies behind it and is completed, but for the step at hand, and a step is completed
only with its postcondition or a terminal state behind it if it has a retry policy.

**The surface and browser discovery.** `WatchVouches`: as long as a watch has not fired, what
was seen in its frame is what the frame shows, the text from the read on, the node from the
binding on. It is inductive because the watch is set before the read and asked again before
the binding, and because frames are collected in their order (`FramesInOrder`), so that what
comes later does not disturb it. A reference that passes its checks is of the current
observation (`ReferenceIsCurrent`), and the clock tells whether the page has moved since the
check began: the exception `EffectHitsWhatWasShown` names is all that is left between the
last check and the click. The loop adds which of the adapter's steps belong to which of its
own places (`PlacesAgree`), that effects and counted actions differ only where it acts or was
timed out (`EffectsAgree`), and that while evidence is looked up, a cited element is unique
evidence or still to be looked at, and nothing changes the observation (`EvidenceAgrees`).

**Profiled discovery.** What the snapshot says of a target, the target has had since it was
first visible in this turn; the texts of a target found visible are followed until one is read,
also while it is hidden again; and once the model is asked the snapshot says something of each
(`SnapshotIsOfThisTurn`). While the loop runs, all that was dispatched was executed and is
counted, and its memory is the last of them with its snapshot (`LastIsRemembered`): the
comparison before a dispatch is then with what was really dispatched last, however many invalid
answers, which take a turn and leave the memory alone, lie between. Each turn takes one dispatch
or one invalid answer at most (`TurnsAreCounted`). What a fill is remembered for was executed
(`FillsWereExecuted`).

**The workspace.** Files are written in their order, so that what a saver has passed is
whole and what it has not come to is absent; metadata comes last, hence a listed package
loads. The coroutine says SUCCESS only behind the reload of what it saved. Unless its worker
gave up, the worker writes status and reason only when the coroutine is over.

**The product.** The session goes through its states once, and its generation tells where
the handoff is: before the pause one thread prepares and has the service's lock; after it, who
takes or returns control has the transition lock, so that no return meets a capture whose
caller still waits, and no second resume the first. A closed runner stays closed and
is given no replay, and only what is registered is closed. `HandoffInv` states this stage by
stage.

The inductive invariants were checked by TLC on the instances of section 3 before they were
proved.

Only model-checked are the liveness properties (`QueuedDispatchIsAnswered`, `PauseQuiesces`,
`ResumeIsAnswered`, `RequestIsAnswered`, `ReplayEnds`, `DiscoveryEnds`, `WorkspaceIsFreed`,
`ServiceAnswers`): they need fairness and ENABLED, which the prover does not reason about. The
violated properties of section 3 are counterexamples and need no proof.

## 5. Plan

Done: the modules of section 2, each with its run, and the theorems of section 4. Left, by
importance:

1. Two savers of one version in `CapabilityStore`: existence is checked, then written.
2. `DiscoveryWorkspace.close()`, which cancels every live run.
3. `PolicyGuard` and `CapabilityValidator` as operators, against reference definitions.
4. One specification of session, gateway and replay engine together, in place of the two
   that abstract the engine and the gateway from each other.

## 6. Not modelled

Providers and the model client (requests to an external service), most of the capability
builder and binding compiler (construction of text), configuration, CLI, evaluation reports
and file listings, the demo bank pages and the web interface. Of the modelled parts:
wording, timestamps, redaction, file formats, HTTP status codes, the parsers of outputs (a
set of readable texts stands for them), and several sessions at once, which share no state.
Physical input in the browser is modelled in `ReplayHandoff` as what it is, unconstrained.

- *Surface and browser discovery*: the adapter has one caller, as the discovery is alone on
  its page. What the gateway does between its own resolution and the adapter's (policy,
  evidence, dispatch) is one choice, `ActionGateway` has it in full. Awaits per element of a
  frame are merged into one per frame. The refusal of a sensitive goal is one with the
  model's own (`Declines`). A `ValueError` of the model's budget and Playwright errors that
  nothing catches end the discovery as `RAISED`. Views, screenshots and failure evidence are
  left out, as are navigate and wait actions, which discovery never proposes.
  A binding whose text holds an input's value (`BINDING_CONTAINS_RUNTIME_VALUE`) is refused
  like any invalid proposal; names of controls are not texts here, so the case is left out.
- *Profiled discovery*: its collector answers "unavailable" and never raises, so the engine's
  `OBSERVATION_FAILED` is unreachable there and has no action. Resolving a locator and
  `is_visible()` are one step: what is found is what is there at the latter. Resolving a row of
  a table counts and compares cells in several awaits; rows that move meanwhile are changes of
  the page in the target's place.
- *Workspace*: `close()` and `view()`; two savers of one version, because every discovery
  stores under its own run.
- *Product*: one intervention at a time; only the two long calls go on behind their caller's
  back; a short one takes effect while its caller waits, or never. A runner whose `close()`
  failed still takes calls, and a second `close()` may end it or fail again
  (`async_core_runner.py:21-37,55-64`); what hung on a loop ended so is never run again, and
  counts as ended with it. The command-line demonstrations of `reviewer_runtime.py` and the
  read-only views are left out.

`docs/subsystems/generic-discovery.md:97` says that one discovery runs at a time. That is so of
the statuses (`OnlyTheLateOverlap`, first conjunct), but a discovery whose worker gave up
after the runner's time limit drives its browser on while the next one starts, and writes its
status once more; the properties of the workspace and of the product name this exception.
