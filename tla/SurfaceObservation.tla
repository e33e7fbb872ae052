------------------------- MODULE SurfaceObservation -------------------------
(***************************************************************************)
(* The browser adapter's observations and element references: what         *)
(* BrowserSurfaceAdapter keeps of a page, and when it acts on it.          *)
(*                                                                         *)
(* The page is a process of its own: its scripts, and the user of a        *)
(* visible browser, mutate a frame, hide an element, navigate or replace   *)
(* frames at any moment, between any two awaits of the adapter.  An        *)
(* observation is collected frame by frame, each frame being watched       *)
(* before it is read; an element reference names the observation it is     *)
(* from, and is checked again - its observation, the frames, every watch,  *)
(* then the element's node - each time it is used.                         *)
(*                                                                         *)
(* A page view gives, for each name (role and name, label or path), the    *)
(* nodes a locator for it matches and the text shown there.                *)
(***************************************************************************)
EXTENDS Naturals, FiniteSets

CONSTANTS
    Names,        \* what a locator can name on the application's pages
    Nodes,        \* the elements a page is made of
    Texts,        \* the texts that are told apart
    Views,        \* the views the pages can show
    EntryViews,   \* those of the application's entry point
    NumFrames,    \* the frames that are observed, in order
    FrameOf,      \* the frame each name lives in
    Fillable,     \* the names that take a value; of the others,
    Clickable,    \* these are clicked and the rest only read
    MaxChanges    \* bound: how often the page changes by itself

Frames == 1 .. NumFrames

ASSUME SurfaceAssumption ==
    /\ NumFrames \in Nat \ {0}
    /\ FrameOf \in [Names -> Frames]
    /\ Fillable \cup Clickable \subseteq Names
    /\ Fillable \cap Clickable = {}
    /\ Views \subseteq [Names -> [nodes : SUBSET Nodes, text : Texts]]
    /\ EntryViews \subseteq Views
    /\ MaxChanges \in Nat

VARIABLES
    page,       \* what the browser shows, and how often it changed
    surface,    \* the adapter's _SessionState
    call,       \* the adapter operation in progress
    effects     \* actions the page has taken

surfaceVars == <<page, surface, call, effects>>

NotWatched == 0
Unseen == << >>
NoCall == [pc |-> "idle", frame |-> 1, ref |-> [generation |-> 0, name |-> "none"],
           perform |-> FALSE, began |-> 0, result |-> "none"]

Refusals == {"STALE_ELEMENT_REF", "UNKNOWN_ELEMENT_REF", "TARGET_AMBIGUOUS"}
SurfaceInit ==
    /\ \E v \in EntryViews :
           page = [view |-> v, version |-> [f \in Frames |-> 1], hidden |-> {}, frames |-> 0,
                   clock |-> 0]
    /\ surface = [generation |-> 0, frames |-> 0, watch |-> [f \in Frames |-> NotWatched],
                  seen |-> Unseen]
    /\ call = NoCall
    /\ effects = 0

-----------------------------------------------------------------------------
(* The page *)

Changes(next) ==
    /\ page.clock < MaxChanges
    /\ page' = [next EXCEPT !.clock = @ + 1]
    /\ UNCHANGED <<surface, call, effects>>

SameOutside(v, f) == \A n \in Names : FrameOf[n] # f => v[n] = page.view[n]

Mutates(f, v) ==
    /\ SameOutside(v, f)
    /\ Changes([page EXCEPT !.view = v, !.version[f] = @ + 1])

\* A new document in every frame; the frames themselves are new but the main one.
Navigates(v) ==
    Changes([page EXCEPT !.view = v, !.version = [f \in Frames |-> @[f] + 1], !.hidden = {},
                         !.frames = @ + 1])

\* A frame that is not observed comes or goes.
Reframes == Changes([page EXCEPT !.frames = @ + 1])

\* An element is hidden from outside the watched tree: by a style sheet or a layout.
Hides(n) == n \notin page.hidden /\ Changes([page EXCEPT !.hidden = @ \cup {n}])

PageChanges ==
    \/ \E f \in Frames, v \in Views : Mutates(f, v)
    \/ \E v \in Views : Navigates(v)
    \/ Reframes
    \/ \E n \in Names : Hides(n)

Matched(n) == page.view[n].nodes
Visible(n) == Matched(n) # {} /\ n \notin page.hidden

-----------------------------------------------------------------------------
(* Collecting an observation *)

Step(pc, f) == call' = [call EXCEPT !.pc = pc, !.frame = f]
Returns(result) == call' = [call EXCEPT !.pc = "idle", !.result = result]

\* What was observed before is dropped first, so that a failure leaves no usable reference.
BeginObserve ==
    /\ surface' = [generation |-> surface.generation + 1, frames |-> page.frames,
                   watch |-> [f \in Frames |-> NotWatched], seen |-> Unseen]
    /\ call' = [NoCall EXCEPT !.pc = "watch"]
    /\ UNCHANGED <<page, effects>>

\* The frame is quiet; from here on a watch tells whether it changes.
Watch ==
    /\ call.pc = "watch"
    /\ surface' = [surface EXCEPT !.watch[call.frame] = page.version[call.frame]]
    /\ Step("read", call.frame)
    /\ UNCHANGED <<page, effects>>

\* The visible elements of the frame, as interactive controls or as text; a control other
\* than a fillable or clickable one is no element.
Snapshot ==
    [n \in {m \in Names : FrameOf[m] = call.frame /\ Visible(m)} |->
        [nodes |-> {}, text |-> page.view[n].text]]

\* A dictionary to which the entries of another one are added.
Updated(known, more) ==
    [k \in DOMAIN known \cup DOMAIN more |-> IF k \in DOMAIN more THEN more[k] ELSE known[k]]

Read ==
    /\ call.pc = "read"
    /\ surface' = [surface EXCEPT !.seen = Updated(@, Snapshot)]
    /\ Step("bind", call.frame)
    /\ UNCHANGED <<page, effects>>

\* Each element's locator is counted and its node kept, on the page of that moment.
InFrame == {n \in DOMAIN surface.seen : FrameOf[n] = call.frame}

\* Variant: the watch is set once the frame has been read.
BindThenWatch ==
    /\ call.pc = "bind"
    /\ \A n \in InFrame : Matched(n) # {}
    /\ surface' = [surface EXCEPT
           !.watch[call.frame] = page.version[call.frame],
           !.seen = [n \in DOMAIN @ |->
                        IF n \in InFrame THEN [@[n] EXCEPT !.nodes = Matched(n)] ELSE @[n]]]
    /\ IF call.frame < NumFrames
       THEN Step("watch", call.frame + 1)
       ELSE Returns("OBSERVED")
    /\ UNCHANGED <<page, effects>>

Bind ==
    /\ call.pc = "bind"
    /\ \A n \in InFrame : Matched(n) # {}
    /\ surface' = [surface EXCEPT !.seen =
           [n \in DOMAIN @ |-> IF n \in InFrame THEN [@[n] EXCEPT !.nodes = Matched(n)] ELSE @[n]]]
    /\ IF call.frame < NumFrames
       THEN Step("watch", call.frame + 1)
       ELSE Returns("OBSERVED")
    /\ UNCHANGED <<page, effects>>

\* The page is not quiet in time, is closed, or navigates while it is read.
ObserveFails(result) ==
    /\ call.pc \in {"watch", "read", "bind"}
    /\ surface' = [surface EXCEPT !.seen = Unseen]
    /\ Returns(result)
    /\ UNCHANGED <<page, effects>>

NotStable == call.pc \in {"watch", "bind"} /\ ObserveFails("OBSERVATION_FAILED")
BrowserRaises == ObserveFails("RAISED")

-----------------------------------------------------------------------------
(* Resolving a reference *)

\* A failed check answers the caller; inside perform_action it becomes TARGET_NOT_FOUND.
Refuse(perform, refusal) == IF perform THEN "TARGET_NOT_FOUND" ELSE refusal

\* The checks made at once: the observation, its generation, and the frames.
Outdated(observation, ref) ==
    \/ observation # surface.generation
    \/ ref.generation < surface.generation
    \/ page.frames # surface.frames

Unknown(ref) == ref.generation > surface.generation \/ ref.name \notin DOMAIN surface.seen

Resolve(observation, ref, perform) ==
    LET next == [NoCall EXCEPT !.ref = ref, !.perform = perform, !.began = page.clock]
        refused(r) == [next EXCEPT !.pc = "idle", !.result = Refuse(perform, r)]
    IN  /\ call' = IF Outdated(observation, ref) THEN refused("STALE_ELEMENT_REF")
                   ELSE IF Unknown(ref) THEN refused("UNKNOWN_ELEMENT_REF")
                   ELSE [next EXCEPT !.pc = "ask"]
        /\ UNCHANGED <<page, surface, effects>>

BeginResolve(observation, ref) == Resolve(observation, ref, FALSE)

\* Variant: perform_action trusts the gateway's check.
BeginPerformUnchecked(observation, ref) ==
    /\ call' = [NoCall EXCEPT !.ref = ref, !.perform = TRUE, !.began = page.clock, !.pc = "aim"]
    /\ UNCHANGED <<page, surface, effects>>

BeginPerform(observation, ref) == Resolve(observation, ref, TRUE)

\* Every frame's watch is asked in turn; a dead one raises and means the same.
AskWatch ==
    /\ call.pc = "ask"
    /\ IF page.version[call.frame] # surface.watch[call.frame]
       THEN Returns(Refuse(call.perform, "STALE_ELEMENT_REF"))
       ELSE IF call.frame < NumFrames
       THEN Step("ask", call.frame + 1)
       ELSE Step("locate", 1)
    /\ UNCHANGED <<page, surface, effects>>

Locate ==
    LET n == call.ref.name
        nodes == surface.seen[n].nodes
    IN  /\ call.pc = "locate"
        /\ IF n \in page.hidden \/ nodes \cap Matched(n) = {}
           THEN Returns(Refuse(call.perform, "STALE_ELEMENT_REF"))
           ELSE IF Cardinality(nodes) # 1
           THEN Returns(Refuse(call.perform, "TARGET_AMBIGUOUS"))
           ELSE IF Matched(n) # nodes
           THEN Returns(Refuse(call.perform, "STALE_ELEMENT_REF"))
           ELSE IF call.perform
           THEN Step("aim", 1)
           ELSE Returns("RESOLVED")
        /\ UNCHANGED <<page, surface, effects>>

\* The element's frame or column is gone, or the browser raises.
LocateRaises ==
    /\ call.pc = "locate"
    /\ Returns(Refuse(call.perform, "OBSERVATION_FAILED")) \/ Returns("RAISED")
    /\ UNCHANGED <<page, surface, effects>>

-----------------------------------------------------------------------------
(* Acting *)

Aim ==
    /\ call.pc = "aim"
    /\ CASE Matched(call.ref.name) = {} -> Returns("TARGET_NOT_FOUND")
         [] Cardinality(Matched(call.ref.name)) > 1 -> Returns("TARGET_AMBIGUOUS")
         [] OTHER -> Step("act", 1)
    /\ UNCHANGED <<page, surface, effects>>

\* The locator is evaluated once more, in the browser, when the action is carried out: on
\* whatever it matches then.  A fill changes the frame; what a click brings about is up to
\* the page.
Effect(v) ==
    LET n == call.ref.name
        f == FrameOf[n]
    IN  /\ call.pc \in {"act", "abandoned"}
        /\ Cardinality(Matched(n)) = 1 /\ Visible(n)
        /\ effects' = effects + 1
        /\ IF n \in Fillable
           THEN SameOutside(v, f) /\ page' = [page EXCEPT !.view = v, !.version[f] = @ + 1]
           ELSE v = page.view /\ UNCHANGED page
        /\ call' = IF call.pc = "act" THEN [call EXCEPT !.pc = "applied"] ELSE NoCall
        /\ UNCHANGED surface

\* The page is read once more for the answer.
Applied == call.pc = "applied" /\ Returns("APPLIED") /\ UNCHANGED <<page, surface, effects>>

\* Variant: waiting for an element to be actionable has no time limit.
ActionFailsApplied(result) ==
    /\ call.pc = "applied"
    /\ Returns(result)
    /\ UNCHANGED <<page, surface, effects>>

\* A locator that matches nothing, or an action whose navigation is not over in time, times
\* out; one that matches several raises.
ActionFails(result) ==
    /\ call.pc \in {"act", "applied"}
    /\ Returns(result)
    /\ UNCHANGED <<page, surface, effects>>

ActionTimesOut == ActionFails("SURFACE_TIMEOUT")
ActionRaises == ActionFails("RAISED")

\* The caller is cancelled: the browser goes on with an action it was given.
Abandon ==
    /\ call' = IF call.pc = "act" THEN [call EXCEPT !.pc = "abandoned"] ELSE NoCall
    /\ surface' = IF call.pc \in {"watch", "read", "bind"}
                  THEN [surface EXCEPT !.seen = Unseen] ELSE surface
    /\ UNCHANGED <<page, effects>>

-----------------------------------------------------------------------------
Adapter ==
    \/ Watch
    \/ Read
    \/ Bind
    \/ NotStable
    \/ BrowserRaises
    \/ AskWatch
    \/ Locate
    \/ LocateRaises
    \/ Aim
    \/ \E v \in Views : Effect(v)
    \/ Applied
    \/ ActionTimesOut
    \/ ActionRaises

-----------------------------------------------------------------------------
(* Properties *)

\* When a frame's watch says that nothing changed, its elements are those of the observation,
\* text and node: although the observation was collected in several steps, frame by frame.
CheckedIsShown ==
    [][call.pc = "ask" /\ (call'.frame > call.frame \/ call'.pc = "locate") =>
           \A n \in InFrame : surface.seen[n] = page.view[n]]_surfaceVars

\* An action hits the element its reference was shown for, unless the page changed while
\* perform_action itself was running: no change before that is missed.
EffectHitsWhatWasShown ==
    [][effects' # effects =>
           \/ page.clock > call.began
           \/ /\ call.ref.generation = surface.generation
              /\ surface.seen[call.ref.name].nodes = Matched(call.ref.name)]_surfaceVars
=============================================================================
