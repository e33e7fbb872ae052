----------------------- MODULE BrowserDiscoveryProofs -----------------------
(***************************************************************************)
(* Proofs about the browser surface and the discovery that drives it, for  *)
(* every page, with any number of frames, views, elements and changes,     *)
(* and for every goal and limit.                                           *)
(*                                                                         *)
(* The argument.  A watch is set before its frame is read, so as long as   *)
(* it has not fired, what was seen in the frame is what is shown there:    *)
(* the text once it is read, the node once it is bound.  A reference that  *)
(* passed every check is of the current observation, and its node was the  *)
(* only match as it passed; the page's clock tells whether it changed      *)
(* since.  Only an action's place has a perform in progress, so effects    *)
(* and actions agree everywhere else.  A completion looks at every cited   *)
(* element after its decision, and nothing changes the observation then.   *)
(***************************************************************************)
EXTENDS BrowserDiscovery, FiniteSetTheorems, TLAPS

Elements == [nodes : SUBSET Nodes, text : Texts]
Refs == [generation : Int, name : Names \cup {"none"}]
Results ==
    {"none", "OBSERVED", "OBSERVATION_FAILED", "RAISED", "RESOLVED", "APPLIED",
     "TARGET_NOT_FOUND", "SURFACE_TIMEOUT", "STALE_ELEMENT_REF", "UNKNOWN_ELEMENT_REF",
     "TARGET_AMBIGUOUS"}
Collecting == {"watch", "read", "bind"}
Checking == {"ask", "locate"}
Performing == {"aim", "act", "abandoned"}
CallPlaces == Collecting \cup Checking \cup Performing \cup {"idle", "applied"}

Pages ==
    [view : [Names -> Elements], version : [Frames -> Nat], hidden : SUBSET Names,
     frames : Nat, clock : Nat]
Observations == UNION {[some -> Elements] : some \in SUBSET Names}
Surfaces == [generation : Nat, frames : Nat, watch : [Frames -> Nat], seen : Observations]
Calls ==
    [pc : CallPlaces, frame : Frames, ref : Refs, perform : BOOLEAN, began : Nat,
     result : Results]

SurfaceTyped ==
    page \in Pages /\ surface \in Surfaces /\ call \in Calls /\ effects \in Nat

\* A watch that has not fired vouches for its frame: for the text once the frame is read,
\* for the node once it is bound.
WatchVouches ==
    /\ \A f \in Frames : surface.watch[f] <= page.version[f]
    /\ \A n \in DOMAIN surface.seen :
           surface.watch[FrameOf[n]] = page.version[FrameOf[n]] =>
               /\ surface.seen[n].text = page.view[n].text
               /\ \/ call.pc = "bind" /\ FrameOf[n] = call.frame
                  \/ surface.seen[n].nodes = page.view[n].nodes

\* Frames are collected in their order.
FramesInOrder ==
    /\ call.pc \in {"watch", "read"} => \A n \in DOMAIN surface.seen : FrameOf[n] < call.frame
    /\ call.pc = "bind" => \A n \in DOMAIN surface.seen : FrameOf[n] <= call.frame

\* A reference that is used is of the current observation; one that passed has one node,
\* and it is what an action aims at unless the page has changed.
ReferenceIsCurrent ==
    /\ call.pc \in Checking \cup Performing =>
           call.began <= page.clock /\ call.ref.generation = surface.generation
    /\ call.pc \in Performing /\ call.began = page.clock =>
           surface.seen[call.ref.name].nodes = Matched(call.ref.name)
    /\ call.pc # "idle" => call.result = "none"
    /\ call.result = "RESOLVED" => Unique(call.ref.name)

SurfaceInv ==
    /\ SurfaceTyped
    /\ WatchVouches
    /\ FramesInOrder
    /\ ReferenceIsCurrent

LoopFields ==
    {"pc", "turn", "actions", "invalid", "unchanged", "fingerprint", "previous", "decision",
     "pending", "targets", "selected", "outcome", "reason"}

LoopTyped ==
    /\ DOMAIN loop = LoopFields
    /\ loop.actions \in Nat
    /\ loop.decision.ref \in Refs

\* What the adapter does belongs to the place of the loop.
PlacesAgree ==
    /\ loop.pc \in {"turn", "observing", "thinking", "resolving", "gateway", "acting", "proving",
                   "checking", "done"}
    /\ loop.pc \in {"turn", "thinking", "proving"} => call.pc = "idle"
    /\ loop.pc = "observing" => call.pc \in {"idle"} \cup Collecting
    /\ loop.pc \in {"resolving", "gateway", "checking"} => call.pc \in {"idle"} \cup Checking
    /\ loop.pc \in {"resolving", "gateway", "checking"} /\ call.pc # "idle" => ~ call.perform
    /\ loop.pc = "acting" => call.pc \in {"idle", "aim", "act", "applied"} \cup Checking
    /\ loop.pc = "done" => call.pc \in {"idle", "abandoned"}

\* Every effect is counted by the time the loop leaves the place where it acts.
EffectsAgree ==
    /\ loop.actions <= MaxActions
    /\ loop.pc \in {"resolving", "gateway", "acting"} => loop.actions < MaxActions
    /\ loop.pc \notin {"acting", "done"} => effects = loop.actions
    /\ loop.pc = "acting" =>
           /\ effects \in {loop.actions, loop.actions + 1}
           /\ call.pc \in Checking \cup Performing => effects = loop.actions
           /\ call.pc = "applied" \/ call.result = "APPLIED" => effects = loop.actions + 1
    /\ loop.pc = "done" =>
           /\ effects <= loop.actions + 1
           /\ effects > loop.actions \/ call.pc = "abandoned" => loop.reason = "DISCOVERY_TIMEOUT"
           /\ call.pc = "abandoned" => effects <= loop.actions

\* While its evidence is looked at, a completion stays admissible; each identity has been
\* found to be unique evidence or is still to be looked at.
EvidenceAgrees ==
    /\ loop.pc \in {"proving", "checking"} =>
           /\ DOMAIN loop.targets = Inputs
           /\ \A t \in loop.selected : t \in GoalContexts /\ Showing(t) # {}
           /\ loop.actions > 0
           /\ \A i \in Inputs :
                  LET n == loop.decision.identity[i]
                  IN  n \in loop.pending \/ (Evidence(n) /\ Unique(n))
    /\ loop.outcome = "SUCCESS" => loop.pc = "done" /\ call.pc = "idle"

BrowserInv ==
    /\ SurfaceInv
    /\ LoopTyped
    /\ PlacesAgree
    /\ EffectsAgree
    /\ EvidenceAgrees
    /\ SuccessIsGrounded

-----------------------------------------------------------------------------
(* The surface *)

\* Nothing seen is an observation; no call is a call.
LEMMA NothingSeen ==
    /\ Unseen \in Observations /\ DOMAIN Unseen = {}
    /\ NoCall \in Calls /\ NoCall.pc = "idle" /\ NoCall.result = "none"
<1>1. DOMAIN Unseen = {} /\ Unseen \in [{} -> Elements]
  BY DEF Unseen
<1>2. 1 \in Frames
  BY SurfaceAssumption DEF Frames
<1>3. [generation |-> 0, name |-> "none"] \in Refs
  BY DEF Refs
<1>4. NoCall \in Calls
  BY <1>2, <1>3 DEF NoCall, Calls, CallPlaces, Results
<1>5. QED
  BY <1>1, <1>4 DEF Observations, NoCall

\* The views are pages' views.
LEMMA ViewsTyped == \A v \in Views : v \in [Names -> Elements]
BY SurfaceAssumption DEF Elements

\* What a call's next place leaves of the call.
LEMMA CallSteps ==
    ASSUME call \in Calls, NEW pc \in CallPlaces, NEW f \in Frames, Step(pc, f)
    PROVE  /\ call' \in Calls /\ call'.pc = pc /\ call'.frame = f
           /\ call'.ref = call.ref /\ call'.perform = call.perform
           /\ call'.began = call.began /\ call'.result = call.result
BY DEF Step, Calls

\* What its answer leaves of it.
LEMMA CallReturns ==
    ASSUME call \in Calls, NEW result \in Results, Returns(result)
    PROVE  /\ call' \in Calls /\ call'.pc = "idle" /\ call'.result = result
           /\ call'.ref = call.ref /\ call'.perform = call.perform
           /\ call'.began = call.began /\ call'.frame = call.frame
BY DEF Returns, Calls, CallPlaces

\* Before the first observation nothing is seen.
LEMMA SurfaceInitInv == SurfaceInit => SurfaceInv
<1> SUFFICES ASSUME SurfaceInit PROVE SurfaceInv
  OBVIOUS
<1>1. PICK v \in EntryViews :
          page = [view |-> v, version |-> [f \in Frames |-> 1], hidden |-> {}, frames |-> 0,
                  clock |-> 0]
  BY DEF SurfaceInit
<1>2. v \in [Names -> Elements]
  BY SurfaceAssumption, ViewsTyped
<1>3. page \in Pages /\ page.version = [f \in Frames |-> 1]
  BY <1>1, <1>2 DEF Pages
<1>4. /\ surface \in Surfaces /\ surface.watch = [f \in Frames |-> 0] /\ DOMAIN surface.seen = {}
  BY NothingSeen DEF SurfaceInit, Surfaces, NotWatched
<1>5. call \in Calls /\ call.pc = "idle" /\ call.result = "none" /\ effects = 0
  BY NothingSeen DEF SurfaceInit
<1>6. SurfaceTyped
  BY <1>3, <1>4, <1>5 DEF SurfaceTyped
<1>7. WatchVouches /\ FramesInOrder
  BY <1>3, <1>4, <1>5 DEF WatchVouches, FramesInOrder
<1>8. ReferenceIsCurrent
  BY <1>5 DEF ReferenceIsCurrent, Checking, Performing
<1>9. QED
  BY <1>6, <1>7, <1>8 DEF SurfaceInv

\* A page that counts a new version of each frame whose view changes keeps the watches true.
LEMMA PageMoves ==
    ASSUME SurfaceInv, page' \in Pages, UNCHANGED surface,
           \A f \in Frames : page.version[f] <= page'.version[f],
           \A n \in Names : page'.version[FrameOf[n]] = page.version[FrameOf[n]] =>
               page'.view[n] = page.view[n],
           call.pc = "bind" => UNCHANGED call
    PROVE  WatchVouches'
<1>1. /\ \A f \in Frames : /\ surface.watch[f] \in Nat /\ page.version[f] \in Nat
                           /\ page'.version[f] \in Nat
      /\ DOMAIN surface.seen \subseteq Names
      /\ \A n \in Names : FrameOf[n] \in Frames
  BY SurfaceAssumption DEF SurfaceInv, SurfaceTyped, Surfaces, Pages, Observations
<1>2. \A f \in Frames : /\ surface.watch[f] <= page'.version[f]
                        /\ surface.watch[f] = page'.version[f] =>
                               /\ surface.watch[f] = page.version[f]
                               /\ page'.version[f] = page.version[f]
  BY <1>1 DEF SurfaceInv, WatchVouches
<1>3. ASSUME NEW n \in DOMAIN surface.seen,
             surface.watch[FrameOf[n]] = page'.version[FrameOf[n]]
      PROVE  /\ surface.seen[n].text = page'.view[n].text
             /\ \/ call'.pc = "bind" /\ FrameOf[n] = call'.frame
                \/ surface.seen[n].nodes = page'.view[n].nodes
  <2>1. page'.view[n] = page.view[n] /\ surface.watch[FrameOf[n]] = page.version[FrameOf[n]]
    BY <1>1, <1>2, <1>3
  <2>2. QED
    BY <2>1 DEF SurfaceInv, WatchVouches
<1>4. QED
  BY <1>2, <1>3 DEF WatchVouches

\* A page change is late for every reference that is being used.
LEMMA ChangesInv ==
    ASSUME SurfaceInv, NEW next \in Pages, Changes(next),
           next.clock = page.clock,
           \A f \in Frames : page.version[f] <= next.version[f],
           \A n \in Names : next.version[FrameOf[n]] = page.version[FrameOf[n]] =>
               next.view[n] = page.view[n]
    PROVE  SurfaceInv'
<1>1. /\ page' = [next EXCEPT !.clock = @ + 1] /\ UNCHANGED <<surface, call, effects>>
      /\ page.clock \in Nat
  BY DEF Changes, SurfaceInv, SurfaceTyped, Pages
<1>2. /\ page' \in Pages /\ page'.clock = page.clock + 1
      /\ page'.version = next.version /\ page'.view = next.view
  BY <1>1 DEF Pages
<1>3. SurfaceTyped' /\ FramesInOrder'
  BY <1>1, <1>2 DEF SurfaceInv, SurfaceTyped, FramesInOrder
<1>4. WatchVouches'
  BY <1>1, <1>2, PageMoves
<1>5. ReferenceIsCurrent'
  <2>1. call.pc \in Checking \cup Performing =>
            call.began < page'.clock /\ call.ref.generation = surface.generation
    BY <1>1, <1>2 DEF SurfaceInv, SurfaceTyped, Calls, ReferenceIsCurrent
  <2>2. call.began \in Nat
    BY DEF SurfaceInv, SurfaceTyped, Calls
  <2>3. QED
    BY <1>1, <1>2, <2>1, <2>2 DEF SurfaceInv, ReferenceIsCurrent, Unique
<1>6. QED
  BY <1>3, <1>4, <1>5 DEF SurfaceInv

\* The page may do what it likes.
LEMMA PageChangesInv ==
    ASSUME SurfaceInv, PageChanges
    PROVE  SurfaceInv'
<1>1. /\ page \in Pages /\ page.view \in [Names -> Elements] /\ page.version \in [Frames -> Nat]
      /\ page.frames + 1 \in Nat
      /\ \A n \in Names : FrameOf[n] \in Frames
  BY SurfaceAssumption DEF SurfaceInv, SurfaceTyped, Pages
<1>2. ASSUME NEW f \in Frames, NEW v \in Views, Mutates(f, v)
      PROVE  SurfaceInv'
  <2> DEFINE next == [page EXCEPT !.view = v, !.version[f] = @ + 1]
  <2>1. v \in [Names -> Elements]
    BY ViewsTyped
  <2>2. /\ next \in Pages /\ next.clock = page.clock /\ next.view = v
        /\ next.version = [page.version EXCEPT ![f] = @ + 1]
    <3> DEFINE versions == [page.version EXCEPT ![f] = @ + 1]
    <3>1. versions \in [Frames -> Nat]
      BY <1>1
    <3>2. next = [page EXCEPT !.view = v, !.version = versions]
      BY <1>1 DEF Pages
    <3> HIDE DEF versions
    <3>3. [page EXCEPT !.view = v, !.version = versions] \in Pages
      BY <1>1, <2>1, <3>1 DEF Pages
    <3>4. QED
      BY <1>1, <3>2, <3>3 DEF Pages, versions
  <2>3. \A n \in Names : next.version[FrameOf[n]] = page.version[FrameOf[n]] =>
            next.view[n] = page.view[n]
    BY <1>1, <1>2, <2>2 DEF Mutates, SameOutside
  <2>4. \A g \in Frames : page.version[g] <= next.version[g]
    BY <1>1, <2>2
  <2>5. Changes(next)
    BY <1>2 DEF Mutates
  <2> HIDE DEF next
  <2>6. QED
    BY <2>2, <2>3, <2>4, <2>5, ChangesInv
<1>3. ASSUME NEW v \in Views, Navigates(v)
      PROVE  SurfaceInv'
  <2> DEFINE next == [page EXCEPT !.view = v, !.version = [f \in Frames |-> @[f] + 1],
                                  !.hidden = {}, !.frames = @ + 1]
  <2>1. v \in [Names -> Elements]
    BY ViewsTyped
  <2>2. /\ next \in Pages /\ next.clock = page.clock
        /\ next.version = [f \in Frames |-> page.version[f] + 1]
    <3> DEFINE versions == [f \in Frames |-> page.version[f] + 1]
    <3>1. versions \in [Frames -> Nat]
      BY <1>1
    <3>2. next = [page EXCEPT !.view = v, !.version = versions, !.hidden = {},
                              !.frames = @ + 1]
      BY <1>1 DEF Pages
    <3> HIDE DEF versions
    <3>3. [page EXCEPT !.view = v, !.version = versions, !.hidden = {}, !.frames = @ + 1] \in Pages
      BY <1>1, <2>1, <3>1 DEF Pages
    <3>4. QED
      BY <1>1, <3>2, <3>3 DEF Pages, versions
  <2>3. \A g \in Frames : page.version[g] < next.version[g]
    BY <1>1, <2>2
  <2>4. /\ \A g \in Frames : page.version[g] <= next.version[g]
        /\ \A n \in Names : next.version[FrameOf[n]] # page.version[FrameOf[n]]
    BY <1>1, <2>2, <2>3
  <2>5. Changes(next)
    BY <1>3 DEF Navigates
  <2> HIDE DEF next
  <2>6. QED
    BY <2>2, <2>4, <2>5, ChangesInv
<1>4. ASSUME NEW next \in Pages, Changes(next), next.clock = page.clock,
             next.view = page.view, next.version = page.version
      PROVE  SurfaceInv'
  <2>1. \A g \in Frames : page.version[g] <= next.version[g]
    BY <1>1, <1>4
  <2>2. QED
    BY <1>4, <2>1, ChangesInv
<1>5. CASE Reframes
  <2>1. /\ [page EXCEPT !.frames = @ + 1] \in Pages
        /\ [page EXCEPT !.frames = @ + 1].clock = page.clock
        /\ [page EXCEPT !.frames = @ + 1].view = page.view
        /\ [page EXCEPT !.frames = @ + 1].version = page.version
    BY <1>1 DEF Pages
  <2>2. QED
    BY <1>4, <1>5, <2>1 DEF Reframes
<1>6. ASSUME NEW n \in Names, Hides(n)
      PROVE  SurfaceInv'
  <2>1. /\ [page EXCEPT !.hidden = @ \cup {n}] \in Pages
        /\ [page EXCEPT !.hidden = @ \cup {n}].clock = page.clock
        /\ [page EXCEPT !.hidden = @ \cup {n}].view = page.view
        /\ [page EXCEPT !.hidden = @ \cup {n}].version = page.version
    BY <1>1 DEF Pages
  <2>2. QED
    BY <1>4, <1>6, <2>1 DEF Hides
<1>7. QED
  BY <1>2, <1>3, <1>5, <1>6 DEF PageChanges

\* An observation forgets what was seen before.
LEMMA BeginObserveInv ==
    ASSUME SurfaceInv, BeginObserve
    PROVE  SurfaceInv' /\ call'.pc = "watch"
<1>1. /\ surface' = [generation |-> surface.generation + 1, frames |-> page.frames,
                     watch |-> [f \in Frames |-> 0], seen |-> Unseen]
      /\ call' = [NoCall EXCEPT !.pc = "watch"] /\ UNCHANGED <<page, effects>>
  BY DEF BeginObserve, NotWatched
<1>2. surface.generation \in Nat /\ page.frames \in Nat /\ page.version \in [Frames -> Nat]
  BY DEF SurfaceInv, SurfaceTyped, Surfaces, Pages
<1>3. /\ surface' \in Surfaces /\ DOMAIN surface'.seen = {}
      /\ surface'.watch = [f \in Frames |-> 0]
  BY <1>1, <1>2, NothingSeen DEF Surfaces
<1>4. call' \in Calls /\ call'.pc = "watch" /\ call'.result = "none"
  BY <1>1, NothingSeen DEF Calls, CallPlaces, Collecting
<1>5. SurfaceTyped'
  BY <1>1, <1>3, <1>4 DEF SurfaceInv, SurfaceTyped
<1>6. WatchVouches' /\ FramesInOrder'
  BY <1>1, <1>2, <1>3 DEF WatchVouches, FramesInOrder
<1>7. ReferenceIsCurrent'
  BY <1>4 DEF ReferenceIsCurrent, Checking, Performing
<1>8. QED
  BY <1>4, <1>5, <1>6, <1>7 DEF SurfaceInv

\* The watch of a frame none of whose elements has been seen vouches for nothing yet.
LEMMA WatchInv ==
    ASSUME SurfaceInv, Watch
    PROVE  SurfaceInv' /\ call'.pc = "read" /\ effects' = effects
<1> DEFINE f == call.frame
<1>1. /\ call.pc = "watch" /\ Step("read", f) /\ UNCHANGED <<page, effects>>
      /\ surface' = [surface EXCEPT !.watch[f] = page.version[f]]
  BY DEF Watch
<1>2. /\ f \in Frames /\ page.version \in [Frames -> Nat] /\ surface \in Surfaces
      /\ surface.watch \in [Frames -> Nat] /\ call \in Calls /\ call.result = "none"
  BY <1>1 DEF SurfaceInv, SurfaceTyped, Surfaces, Pages, Calls, ReferenceIsCurrent
<1>3. /\ call' \in Calls /\ call'.pc = "read" /\ call'.frame = f /\ call'.result = "none"
  BY <1>1, <1>2, CallSteps DEF CallPlaces, Collecting, Results
<1>4. /\ surface' \in Surfaces /\ surface'.seen = surface.seen
      /\ surface'.watch = [surface.watch EXCEPT ![f] = page.version[f]]
  <2> DEFINE watches == [surface.watch EXCEPT ![f] = page.version[f]]
  <2>1. watches \in [Frames -> Nat]
    BY <1>2
  <2>2. surface' = [surface EXCEPT !.watch = watches]
    BY <1>1, <1>2 DEF Surfaces
  <2> HIDE DEF watches
  <2>3. surface' \in Surfaces /\ surface'.seen = surface.seen /\ surface'.watch = watches
    BY <1>2, <2>1, <2>2 DEF Surfaces
  <2>4. QED
    BY <2>3 DEF watches
<1>5. SurfaceTyped'
  BY <1>1, <1>3, <1>4 DEF SurfaceInv, SurfaceTyped
<1>6. \A n \in DOMAIN surface.seen : FrameOf[n] \in Frames /\ FrameOf[n] < f
  BY <1>1, <1>2, SurfaceAssumption DEF SurfaceInv, FramesInOrder, Surfaces, Observations
<1>7. FramesInOrder'
  BY <1>3, <1>4, <1>6 DEF FramesInOrder
<1>8. WatchVouches'
  <2>1. \A n \in DOMAIN surface.seen : FrameOf[n] # f
    BY <1>2, <1>6 DEF Frames
  <2>2. \A n \in DOMAIN surface.seen : surface'.watch[FrameOf[n]] = surface.watch[FrameOf[n]]
    BY <1>2, <1>4, <1>6, <2>1
  <2>3. \A g \in Frames : surface'.watch[g] <= page.version[g]
    BY <1>2, <1>4 DEF SurfaceInv, WatchVouches
  <2>4. QED
    BY <1>1, <1>4, <2>2, <2>3 DEF SurfaceInv, WatchVouches
<1>9. ReferenceIsCurrent'
  BY <1>3 DEF ReferenceIsCurrent, Checking, Performing
<1>10. QED
  BY <1>1, <1>3, <1>5, <1>7, <1>8, <1>9 DEF SurfaceInv

\* What is read of a frame is the text that is shown there.
LEMMA ReadInv ==
    ASSUME SurfaceInv, Read
    PROVE  SurfaceInv' /\ call'.pc = "bind" /\ effects' = effects
<1> DEFINE f == call.frame
           seen == surface.seen
<1>1. /\ call.pc = "read" /\ Step("bind", f) /\ UNCHANGED <<page, effects>>
      /\ surface' = [surface EXCEPT !.seen = Updated(seen, Snapshot)]
  BY DEF Read
<1>2. /\ f \in Frames /\ page.view \in [Names -> Elements] /\ surface \in Surfaces
      /\ seen \in Observations /\ call \in Calls /\ call.result = "none"
      /\ DOMAIN seen \subseteq Names /\ \A n \in DOMAIN seen : seen[n] \in Elements
  BY <1>1 DEF SurfaceInv, SurfaceTyped, Surfaces, Pages, Calls, ReferenceIsCurrent, Observations
<1>3. /\ call' \in Calls /\ call'.pc = "bind" /\ call'.frame = f /\ call'.result = "none"
  BY <1>1, <1>2, CallSteps DEF CallPlaces, Collecting, Results
<1>4. /\ DOMAIN Snapshot \subseteq Names
      /\ \A n \in DOMAIN Snapshot :
             /\ FrameOf[n] = f
             /\ Snapshot[n] = [nodes |-> {}, text |-> page.view[n].text]
             /\ Snapshot[n] \in Elements
  BY <1>2 DEF Snapshot, Elements
<1>5. /\ DOMAIN Updated(seen, Snapshot) = DOMAIN seen \cup DOMAIN Snapshot
      /\ \A n \in DOMAIN seen \cup DOMAIN Snapshot :
             Updated(seen, Snapshot)[n] = IF n \in DOMAIN Snapshot THEN Snapshot[n] ELSE seen[n]
  BY DEF Updated
<1>6. Updated(seen, Snapshot) \in Observations
  <2>1. Updated(seen, Snapshot) \in [DOMAIN seen \cup DOMAIN Snapshot -> Elements]
    BY <1>2, <1>4 DEF Updated
  <2>2. QED
    BY <1>2, <1>4, <2>1 DEF Observations
<1>7. /\ surface' \in Surfaces /\ surface'.seen = Updated(seen, Snapshot)
      /\ surface'.watch = surface.watch
  BY <1>1, <1>2, <1>6 DEF Surfaces
<1>8. SurfaceTyped'
  BY <1>1, <1>3, <1>7 DEF SurfaceInv, SurfaceTyped
<1>9. FramesInOrder'
  <2>1. \A n \in DOMAIN seen : FrameOf[n] < f /\ FrameOf[n] \in Frames
    BY <1>1, <1>2, SurfaceAssumption DEF SurfaceInv, FramesInOrder
  <2>2. \A n \in DOMAIN surface'.seen : FrameOf[n] <= f
    BY <1>2, <1>4, <1>5, <1>7, <2>1 DEF Frames
  <2>3. QED
    BY <1>3, <2>2 DEF FramesInOrder
<1>10. WatchVouches'
  <2>1. ASSUME NEW n \in DOMAIN surface'.seen, surface.watch[FrameOf[n]] = page.version[FrameOf[n]]
        PROVE  /\ surface'.seen[n].text = page.view[n].text
               /\ \/ FrameOf[n] = f
                  \/ surface'.seen[n].nodes = page.view[n].nodes
    <3>1. CASE n \in DOMAIN Snapshot
      BY <1>4, <1>5, <1>7, <3>1
    <3>2. CASE n \notin DOMAIN Snapshot
      <4>1. n \in DOMAIN seen /\ surface'.seen[n] = seen[n]
        BY <1>5, <1>7, <2>1, <3>2
      <4>2. QED
        BY <1>1, <2>1, <4>1 DEF SurfaceInv, WatchVouches
    <3>3. QED
      BY <3>1, <3>2
  <2>2. \A g \in Frames : surface'.watch[g] <= page'.version[g]
    BY <1>1, <1>7 DEF SurfaceInv, WatchVouches
  <2>3. QED
    BY <1>1, <1>3, <1>7, <2>1, <2>2 DEF WatchVouches
<1>11. ReferenceIsCurrent'
  BY <1>3 DEF ReferenceIsCurrent, Checking, Performing
<1>12. QED
  BY <1>1, <1>3, <1>8, <1>9, <1>10, <1>11 DEF SurfaceInv

\* Binding keeps each element's node of that moment.
LEMMA BindInv ==
    ASSUME SurfaceInv, Bind
    PROVE  SurfaceInv' /\ call'.pc \in {"watch", "idle"} /\ effects' = effects
<1> DEFINE f == call.frame
           seen == surface.seen
           bound == [n \in DOMAIN seen |->
                        IF n \in InFrame THEN [seen[n] EXCEPT !.nodes = Matched(n)] ELSE seen[n]]
<1>1. /\ call.pc = "bind" /\ UNCHANGED <<page, effects>>
      /\ surface' = [surface EXCEPT !.seen = bound]
      /\ \/ f < NumFrames /\ Step("watch", f + 1)
         \/ f >= NumFrames /\ Returns("OBSERVED")
  <2>1. f \in Nat /\ NumFrames \in Nat
    BY SurfaceAssumption DEF SurfaceInv, SurfaceTyped, Calls, Frames
  <2>2. QED
    BY <2>1 DEF Bind
<1>2. /\ f \in Frames /\ page.view \in [Names -> Elements] /\ surface \in Surfaces
      /\ seen \in Observations /\ call \in Calls /\ call.result = "none"
      /\ DOMAIN seen \subseteq Names /\ \A n \in DOMAIN seen : seen[n] \in Elements
      /\ \A n \in Names : FrameOf[n] \in Frames
  BY <1>1, SurfaceAssumption
  DEF SurfaceInv, SurfaceTyped, Surfaces, Pages, Calls, ReferenceIsCurrent, Observations
<1>3. /\ call' \in Calls
      /\ \/ call'.pc = "watch" /\ call'.frame = f + 1 /\ call'.result = "none"
         \/ call'.pc = "idle" /\ call'.result = "OBSERVED"
  <2>1. f < NumFrames => f + 1 \in Frames
    BY <1>2, SurfaceAssumption DEF Frames
  <2>2. "watch" \in CallPlaces /\ "OBSERVED" \in Results
    BY DEF CallPlaces, Collecting, Results
  <2>3. QED
    BY <1>1, <1>2, <2>1, <2>2, CallSteps, CallReturns
<1>4. \A n \in Names : Matched(n) = page.view[n].nodes /\ Matched(n) \in SUBSET Nodes
  BY <1>2 DEF Matched, Elements
<1>5. \A n \in DOMAIN seen :
          /\ bound[n] \in Elements /\ bound[n].text = seen[n].text
          /\ n \in InFrame => bound[n].nodes = page.view[n].nodes
          /\ n \notin InFrame => bound[n] = seen[n]
  BY <1>2, <1>4 DEF Elements
<1>6. DOMAIN bound = DOMAIN seen /\ bound \in Observations
  <2>1. bound \in [DOMAIN seen -> Elements]
    BY <1>5
  <2>2. QED
    BY <1>2, <2>1 DEF Observations
<1> HIDE DEF bound
<1>7. /\ surface' \in Surfaces /\ surface'.seen = bound /\ surface'.watch = surface.watch
  BY <1>1, <1>2, <1>6 DEF Surfaces
<1>8. SurfaceTyped'
  BY <1>1, <1>3, <1>7 DEF SurfaceInv, SurfaceTyped
<1>9. FramesInOrder'
  <2>1. \A n \in DOMAIN bound : FrameOf[n] <= f /\ FrameOf[n] \in Frames
    BY <1>1, <1>2, <1>6 DEF SurfaceInv, FramesInOrder
  <2>2. \A n \in DOMAIN bound : FrameOf[n] < f + 1
    BY <1>2, <2>1 DEF Frames
  <2>3. QED
    BY <1>3, <1>7, <2>2 DEF FramesInOrder
<1>10. WatchVouches'
  <2>1. ASSUME NEW n \in DOMAIN bound, surface.watch[FrameOf[n]] = page.version[FrameOf[n]]
        PROVE  bound[n].text = page.view[n].text /\ bound[n].nodes = page.view[n].nodes
    <3>1. /\ seen[n].text = page.view[n].text
          /\ FrameOf[n] = f \/ seen[n].nodes = page.view[n].nodes
      BY <1>6, <2>1 DEF SurfaceInv, WatchVouches
    <3>2. n \in InFrame <=> FrameOf[n] = f
      BY <1>6, <2>1 DEF InFrame
    <3>3. QED
      BY <1>5, <1>6, <2>1, <3>1, <3>2
  <2>2. \A g \in Frames : surface'.watch[g] <= page'.version[g]
    BY <1>1, <1>7 DEF SurfaceInv, WatchVouches
  <2>3. QED
    BY <1>1, <1>7, <2>1, <2>2 DEF WatchVouches
<1>11. ReferenceIsCurrent'
  BY <1>3 DEF ReferenceIsCurrent, Checking, Performing
<1>12. QED
  BY <1>1, <1>3, <1>8, <1>9, <1>10, <1>11 DEF SurfaceInv

\* Where nothing is collected, a step that leaves the page and the observation alone need
\* only mind the reference it is about.
LEMMA CallMoves ==
    ASSUME SurfaceInv, UNCHANGED <<page, surface>>, effects' \in Nat,
           call.pc \notin Collecting, call' \in Calls, call'.pc \notin Collecting,
           ReferenceIsCurrent'
    PROVE  SurfaceInv'
<1>1. SurfaceTyped'
  BY DEF SurfaceInv, SurfaceTyped
<1>2. WatchVouches' /\ FramesInOrder'
  BY DEF SurfaceInv, WatchVouches, FramesInOrder, Collecting
<1>3. QED
  BY <1>1, <1>2 DEF SurfaceInv

\* The call's place and its answer say what an adapter's step did.
AdapterMoves ==
    \/ call.pc \in Collecting /\ call'.pc \in {"idle"} \cup Collecting /\ effects' = effects
    \/ /\ call.pc \in Checking /\ UNCHANGED <<surface, effects>>
       /\ call'.perform = call.perform /\ call'.result # "APPLIED"
       /\ call'.pc \in {"idle"} \cup Checking \/ (call.perform /\ call'.pc = "aim")
    \/ /\ call.pc \in {"aim", "act"} /\ call'.pc \in {"act", "idle"}
       /\ call'.result # "APPLIED" /\ UNCHANGED <<surface, effects>>
    \/ /\ call.pc = "act" /\ call'.pc = "applied" /\ effects' = effects + 1
       /\ call'.result # "APPLIED" /\ UNCHANGED surface
    \/ call.pc = "abandoned" /\ call'.pc = "idle" /\ effects' = effects + 1
    \/ call.pc = "applied" /\ call'.pc = "idle" /\ UNCHANGED <<surface, effects>>

\* An observation that fails leaves nothing to refer to.
LEMMA ObserveFailsInv ==
    ASSUME SurfaceInv, NEW result \in {"OBSERVATION_FAILED", "RAISED"}, ObserveFails(result)
    PROVE  SurfaceInv' /\ AdapterMoves
<1>1. /\ call.pc \in Collecting /\ Returns(result) /\ UNCHANGED <<page, effects>>
      /\ surface' = [surface EXCEPT !.seen = Unseen] /\ call \in Calls /\ surface \in Surfaces
  BY DEF ObserveFails, Collecting, SurfaceInv, SurfaceTyped
<1>2. call' \in Calls /\ call'.pc = "idle" /\ call'.result = result
  BY <1>1, CallReturns DEF Results
<1>3. /\ surface' \in Surfaces /\ DOMAIN surface'.seen = {} /\ surface'.watch = surface.watch
  BY <1>1, NothingSeen DEF Surfaces
<1>4. SurfaceTyped'
  BY <1>1, <1>2, <1>3 DEF SurfaceInv, SurfaceTyped
<1>5. WatchVouches' /\ FramesInOrder'
  BY <1>1, <1>3 DEF SurfaceInv, WatchVouches, FramesInOrder
<1>6. ReferenceIsCurrent'
  BY <1>2 DEF ReferenceIsCurrent, Checking, Performing
<1>7. QED
  BY <1>1, <1>2, <1>4, <1>5, <1>6 DEF SurfaceInv, AdapterMoves

\* A resolution goes on only with a reference of the current observation.
LEMMA ResolveInv ==
    ASSUME SurfaceInv, call.pc = "idle", NEW observation, NEW ref \in Refs, NEW perform \in BOOLEAN,
           Resolve(observation, ref, perform)
    PROVE  /\ SurfaceInv' /\ UNCHANGED <<page, surface, effects>>
           /\ call'.pc \in {"idle", "ask"} /\ call'.perform = perform
           /\ call'.result \notin {"APPLIED", "RESOLVED"}
<1> DEFINE next == [NoCall EXCEPT !.ref = ref, !.perform = perform, !.began = page.clock]
           refused(r) == [next EXCEPT !.pc = "idle", !.result = Refuse(perform, r)]
<1>1. /\ UNCHANGED <<page, surface, effects>>
      /\ \/ call' = refused("STALE_ELEMENT_REF") \/ call' = refused("UNKNOWN_ELEMENT_REF")
         \/ ~ Outdated(observation, ref) /\ ~ Unknown(ref) /\ call' = [next EXCEPT !.pc = "ask"]
  BY DEF Resolve
<1>2. /\ next \in Calls /\ next.ref = ref /\ next.perform = perform /\ next.began = page.clock
      /\ next.result = "none" /\ page.clock \in Nat
  BY NothingSeen DEF Calls, SurfaceInv, SurfaceTyped, Pages
<1> HIDE DEF next
<1>3. CASE ~ Outdated(observation, ref) /\ ~ Unknown(ref) /\ call' = [next EXCEPT !.pc = "ask"]
  <2>1. /\ call' \in Calls /\ call'.pc = "ask" /\ call'.perform = perform /\ call'.ref = ref
        /\ call'.began = page.clock /\ call'.result = "none"
    BY <1>2, <1>3 DEF Calls, CallPlaces, Checking
  <2>2. ref.generation = surface.generation
    BY <1>3 DEF Outdated, Unknown, Refs, SurfaceInv, SurfaceTyped, Surfaces
  <2>3. ReferenceIsCurrent'
    BY <1>1, <1>2, <2>1, <2>2 DEF ReferenceIsCurrent, Performing
  <2>4. SurfaceInv'
    BY <1>1, <2>1, <2>3, CallMoves DEF Collecting, SurfaceInv, SurfaceTyped
  <2>5. QED
    BY <1>1, <2>1, <2>4
<1>4. ASSUME NEW r \in {"STALE_ELEMENT_REF", "UNKNOWN_ELEMENT_REF"}, call' = refused(r)
      PROVE  /\ SurfaceInv' /\ call'.pc = "idle" /\ call'.perform = perform
             /\ call'.result \notin {"APPLIED", "RESOLVED"}
  <2>1. Refuse(perform, r) \in Results /\ Refuse(perform, r) \notin {"APPLIED", "RESOLVED"}
    BY <1>4 DEF Refuse, Results
  <2>2. /\ call' \in Calls /\ call'.pc = "idle" /\ call'.perform = perform
        /\ call'.result = Refuse(perform, r)
    BY <1>2, <1>4, <2>1 DEF Calls, CallPlaces
  <2>3. ReferenceIsCurrent'
    BY <2>1, <2>2 DEF ReferenceIsCurrent, Checking, Performing
  <2>4. SurfaceInv'
    BY <1>1, <2>2, <2>3, CallMoves DEF Collecting, SurfaceInv, SurfaceTyped
  <2>5. QED
    BY <2>1, <2>2, <2>4
<1>5. QED
  BY <1>1, <1>3, <1>4

\* A refusal inside perform_action is one, too, and never an answer that promises anything.
LEMMA RefusalsTyped ==
    ASSUME NEW r \in {"STALE_ELEMENT_REF", "TARGET_AMBIGUOUS", "OBSERVATION_FAILED"},
           NEW perform
    PROVE  Refuse(perform, r) \in Results \ {"APPLIED", "RESOLVED"}
BY DEF Refuse, Results

\* A call that returns without having resolved anything.
LEMMA ReturnsInv ==
    ASSUME SurfaceInv, UNCHANGED <<page, surface, effects>>, call.pc \notin Collecting,
           NEW result \in Results \ {"RESOLVED"}, Returns(result)
    PROVE  /\ SurfaceInv' /\ call'.pc = "idle" /\ call'.result = result
           /\ call'.perform = call.perform
<1>1. call \in Calls /\ effects \in Nat
  BY DEF SurfaceInv, SurfaceTyped
<1>2. /\ call' \in Calls /\ call'.pc = "idle" /\ call'.result = result
      /\ call'.perform = call.perform
  BY <1>1, CallReturns
<1>3. ReferenceIsCurrent'
  BY <1>2 DEF ReferenceIsCurrent, Checking, Performing
<1>4. QED
  BY <1>1, <1>2, <1>3, CallMoves DEF Collecting

\* Asking the watches changes nothing but the place.
LEMMA AskWatchInv ==
    ASSUME SurfaceInv, AskWatch
    PROVE  SurfaceInv' /\ AdapterMoves
<1>1. /\ call.pc = "ask" /\ UNCHANGED <<page, surface, effects>> /\ call \in Calls
      /\ call.frame \in Frames /\ call.result = "none" /\ effects \in Nat
      /\ call.pc \in Checking \ Collecting
  BY DEF AskWatch, SurfaceInv, SurfaceTyped, Calls, ReferenceIsCurrent, Checking, Collecting
<1>2. CASE Returns(Refuse(call.perform, "STALE_ELEMENT_REF"))
  BY <1>1, <1>2, RefusalsTyped, ReturnsInv DEF AdapterMoves
<1>3. ASSUME NEW pc \in Checking, NEW f \in Frames, Step(pc, f)
      PROVE  SurfaceInv' /\ AdapterMoves
  <2>1. /\ call' \in Calls /\ call'.pc = pc /\ call'.ref = call.ref /\ call'.perform = call.perform
        /\ call'.began = call.began /\ call'.result = "none"
    BY <1>1, <1>3, CallSteps DEF CallPlaces, Results
  <2>2. ReferenceIsCurrent'
    BY <1>1, <2>1 DEF SurfaceInv, ReferenceIsCurrent, Checking, Performing
  <2>3. QED
    BY <1>1, <2>1, <2>2, CallMoves DEF AdapterMoves, Checking, Collecting
<1>4. CASE call.frame < NumFrames /\ Step("ask", call.frame + 1)
  <2>1. call.frame + 1 \in Frames
    BY <1>1, <1>4, SurfaceAssumption DEF Frames
  <2>2. QED
    BY <1>3, <1>4, <2>1 DEF Checking
<1>5. CASE Step("locate", 1)
  <2>1. 1 \in Frames
    BY SurfaceAssumption DEF Frames
  <2>2. QED
    BY <1>3, <1>5, <2>1 DEF Checking
<1>6. QED
  BY <1>2, <1>4, <1>5 DEF AskWatch

\* A reference that passes has one node, which is all that its locator matches.
LEMMA LocateInv ==
    ASSUME SurfaceInv, Locate
    PROVE  SurfaceInv' /\ AdapterMoves
<1> DEFINE nodes == surface.seen[call.ref.name].nodes
<1>1. /\ call.pc = "locate" /\ UNCHANGED <<page, surface, effects>> /\ call \in Calls
      /\ call.result = "none" /\ effects \in Nat
      /\ call.pc \in Checking \ Collecting
  BY DEF Locate, SurfaceInv, SurfaceTyped, ReferenceIsCurrent, Checking, Collecting
<1>2. CASE \/ Returns(Refuse(call.perform, "STALE_ELEMENT_REF"))
           \/ Returns(Refuse(call.perform, "TARGET_AMBIGUOUS"))
  BY <1>1, <1>2, RefusalsTyped, ReturnsInv DEF AdapterMoves
<1>3. CASE Cardinality(nodes) = 1 /\ ~ call.perform /\ Returns("RESOLVED")
  <2>1. /\ call' \in Calls /\ call'.pc = "idle" /\ call'.result = "RESOLVED"
        /\ call'.ref = call.ref /\ call'.perform = call.perform
    BY <1>1, <1>3, CallReturns DEF Results
  <2>2. ReferenceIsCurrent'
    BY <1>1, <1>3, <2>1 DEF ReferenceIsCurrent, Checking, Performing, Unique
  <2>3. QED
    BY <1>1, <2>1, <2>2, CallMoves DEF AdapterMoves, Collecting
<1>4. CASE Matched(call.ref.name) = nodes /\ call.perform /\ Step("aim", 1)
  <2>1. 1 \in Frames /\ "aim" \in CallPlaces
    BY SurfaceAssumption DEF Frames, CallPlaces, Performing
  <2>2. /\ call' \in Calls /\ call'.pc = "aim" /\ call'.ref = call.ref
        /\ call'.perform = call.perform /\ call'.began = call.began /\ call'.result = "none"
    BY <1>1, <1>4, <2>1, CallSteps DEF Results
  <2>3. ReferenceIsCurrent'
    <3>1. call'.began <= page.clock /\ call'.ref.generation = surface.generation
      BY <1>1, <2>2 DEF SurfaceInv, ReferenceIsCurrent
    <3>2. Matched(call.ref.name)' = Matched(call.ref.name)
      BY <1>1, <2>2 DEF Matched
    <3>3. QED
      BY <1>1, <1>4, <2>2, <3>1, <3>2 DEF ReferenceIsCurrent
  <2>4. QED
    BY <1>1, <1>4, <2>2, <2>3, CallMoves DEF AdapterMoves, Collecting
<1>5. QED
  BY <1>2, <1>3, <1>4 DEF Locate

\* Aiming adds nothing to what the reference's check found.
LEMMA AimInv ==
    ASSUME SurfaceInv, Aim
    PROVE  SurfaceInv' /\ AdapterMoves
<1>1. /\ call.pc = "aim" /\ UNCHANGED <<page, surface, effects>> /\ call \in Calls
      /\ call.result = "none" /\ effects \in Nat /\ call.pc \notin Collecting
      /\ call.pc \in Performing
  BY DEF Aim, SurfaceInv, SurfaceTyped, ReferenceIsCurrent, Collecting, Performing
<1>2. Returns("TARGET_NOT_FOUND") \/ Returns("TARGET_AMBIGUOUS") \/ Step("act", 1)
  BY DEF Aim
<1>3. CASE Returns("TARGET_NOT_FOUND") \/ Returns("TARGET_AMBIGUOUS")
  BY <1>1, <1>3, ReturnsInv DEF AdapterMoves, Results
<1>4. CASE Step("act", 1)
  <2>1. 1 \in Frames /\ "act" \in CallPlaces
    BY SurfaceAssumption DEF Frames, CallPlaces, Performing
  <2>2. /\ call' \in Calls /\ call'.pc = "act" /\ call'.ref = call.ref
        /\ call'.began = call.began /\ call'.result = "none"
    BY <1>1, <1>4, <2>1, CallSteps DEF Results
  <2>3. ReferenceIsCurrent'
    BY <1>1, <2>2 DEF SurfaceInv, ReferenceIsCurrent, Matched, Performing
  <2>4. QED
    BY <1>1, <2>2, <2>3, CallMoves DEF AdapterMoves, Collecting
<1>5. QED
  BY <1>2, <1>3, <1>4

\* A fill is a change of its frame; a click leaves the page to itself.
LEMMA EffectInv ==
    ASSUME SurfaceInv, NEW v \in Views, Effect(v)
    PROVE  SurfaceInv' /\ AdapterMoves
<1> DEFINE n == call.ref.name
           f == FrameOf[n]
<1>1. /\ call.pc \in {"act", "abandoned"} /\ effects' = effects + 1 /\ UNCHANGED surface
      /\ call' = IF call.pc = "act" THEN [call EXCEPT !.pc = "applied"] ELSE NoCall
      /\ call \in Calls /\ call.result = "none" /\ effects \in Nat /\ page \in Pages
  BY DEF Effect, SurfaceInv, SurfaceTyped, ReferenceIsCurrent
<1>2. /\ call' \in Calls /\ call'.result = "none"
      /\ call'.pc = IF call.pc = "act" THEN "applied" ELSE "idle"
  BY <1>1, NothingSeen DEF Calls, CallPlaces
<1>3. ReferenceIsCurrent' /\ AdapterMoves
  BY <1>1, <1>2 DEF ReferenceIsCurrent, Checking, Performing, AdapterMoves
<1>4. CASE UNCHANGED page
  <2>1. call.pc \notin Collecting /\ call'.pc \notin Collecting /\ effects' \in Nat
    BY <1>1, <1>2 DEF Collecting
  <2>2. QED
    BY <1>1, <1>2, <1>3, <1>4, <2>1, CallMoves
<1>5. CASE ~ UNCHANGED page
  <2>1. /\ n \in Fillable /\ SameOutside(v, f)
        /\ page' = [page EXCEPT !.view = v, !.version[f] = @ + 1]
    BY <1>5 DEF Effect
  <2>2. /\ f \in Frames /\ \A m \in Names : FrameOf[m] \in Frames
        /\ page.version \in [Frames -> Nat] /\ page.view \in [Names -> Elements]
    BY <1>1, <2>1, SurfaceAssumption DEF Pages
  <2>3. /\ page' \in Pages /\ page'.view = v
        /\ page'.version = [page.version EXCEPT ![f] = @ + 1]
    <3> DEFINE versions == [page.version EXCEPT ![f] = @ + 1]
    <3>1. versions \in [Frames -> Nat]
      BY <2>2
    <3>2. page' = [page EXCEPT !.view = v, !.version = versions]
      BY <1>1, <2>1, <2>2 DEF Pages
    <3> HIDE DEF versions
    <3>3. v \in [Names -> Elements]
      BY ViewsTyped
    <3>4. page' \in Pages /\ page'.view = v /\ page'.version = versions
      BY <1>1, <3>1, <3>2, <3>3 DEF Pages
    <3>5. QED
      BY <3>4 DEF versions
  <2>4. \A g \in Frames : page.version[g] <= page'.version[g]
    BY <2>2, <2>3
  <2>5. \A m \in Names : page'.version[FrameOf[m]] = page.version[FrameOf[m]] =>
            page'.view[m] = page.view[m]
    BY <2>1, <2>2, <2>3 DEF SameOutside
  <2>6. WatchVouches'
    BY <1>1, <2>3, <2>4, <2>5, PageMoves
  <2>7. SurfaceTyped' /\ FramesInOrder'
    BY <1>1, <1>2, <2>3 DEF SurfaceInv, SurfaceTyped, FramesInOrder
  <2>8. QED
    BY <1>3, <2>6, <2>7 DEF SurfaceInv
<1>6. QED
  BY <1>4, <1>5

\* Every step of the adapter keeps the surface's invariant.
LEMMA AdapterInv ==
    ASSUME SurfaceInv, Adapter
    PROVE  SurfaceInv' /\ AdapterMoves
<1>1. CASE Watch \/ Read \/ Bind
  <2>1. call.pc \in Collecting
    BY <1>1 DEF Watch, Read, Bind, Collecting
  <2>2. QED
    BY <1>1, <2>1, WatchInv, ReadInv, BindInv DEF AdapterMoves, Collecting
<1>2. CASE NotStable \/ BrowserRaises
  BY <1>2, ObserveFailsInv DEF NotStable, BrowserRaises
<1>3. CASE AskWatch \/ Locate \/ Aim
  BY <1>3, AskWatchInv, LocateInv, AimInv
<1>4. CASE LocateRaises
  <2>1. call.pc \in Checking \ Collecting /\ UNCHANGED <<page, surface, effects>>
    BY <1>4 DEF LocateRaises, Checking, Collecting
  <2>2. Refuse(call.perform, "OBSERVATION_FAILED") \in Results \ {"APPLIED", "RESOLVED"}
    BY RefusalsTyped
  <2>3. "RAISED" \in Results \ {"APPLIED", "RESOLVED"}
    BY DEF Results
  <2>4. \E result \in Results \ {"APPLIED", "RESOLVED"} : Returns(result)
    BY <1>4, <2>2, <2>3 DEF LocateRaises
  <2>5. QED
    BY <2>1, <2>4, ReturnsInv DEF AdapterMoves
<1>5. ASSUME NEW v \in Views, Effect(v) PROVE SurfaceInv' /\ AdapterMoves
  BY <1>5, EffectInv
<1>6. CASE Applied
  <2>1. /\ call.pc = "applied" /\ UNCHANGED <<page, surface, effects>> /\ Returns("APPLIED")
        /\ call.pc \notin Collecting /\ "APPLIED" \in Results \ {"RESOLVED"}
    BY <1>6 DEF Applied, Collecting, Results
  <2>2. QED
    BY <2>1, ReturnsInv DEF AdapterMoves
<1>7. CASE ActionTimesOut \/ ActionRaises
  <2>1. /\ call.pc \in {"act", "applied"} /\ UNCHANGED <<page, surface, effects>>
        /\ call.pc \notin Collecting
        /\ \E result \in {"SURFACE_TIMEOUT", "RAISED"} : Returns(result)
    BY <1>7 DEF ActionTimesOut, ActionRaises, ActionFails, Collecting
  <2>2. {"SURFACE_TIMEOUT", "RAISED"} \subseteq Results \ {"APPLIED", "RESOLVED"}
    BY DEF Results
  <2>3. QED
    BY <2>1, <2>2, ReturnsInv DEF AdapterMoves
<1>8. QED
  BY <1>1, <1>2, <1>3, <1>4, <1>5, <1>6, <1>7 DEF Adapter

\* An abandoned action goes on; everything else that was in progress is over.
LEMMA AbandonInv ==
    ASSUME SurfaceInv, Abandon, call.pc # "abandoned"
    PROVE  /\ SurfaceInv' /\ UNCHANGED <<page, effects>>
           /\ call'.pc = IF call.pc = "act" THEN "abandoned" ELSE "idle"
<1>1. /\ UNCHANGED <<page, effects>> /\ call \in Calls /\ surface \in Surfaces
      /\ call' = IF call.pc = "act" THEN [call EXCEPT !.pc = "abandoned"] ELSE NoCall
      /\ surface' = IF call.pc \in Collecting THEN [surface EXCEPT !.seen = Unseen] ELSE surface
  BY DEF Abandon, SurfaceInv, SurfaceTyped, Collecting
<1>2. CASE call.pc = "act"
  <2>1. /\ call' \in Calls /\ call'.pc = "abandoned" /\ call'.ref = call.ref
        /\ call'.began = call.began /\ call'.result = call.result
    BY <1>1, <1>2 DEF Calls, CallPlaces, Performing
  <2>2. UNCHANGED surface /\ call.pc \in Performing /\ call.result = "none"
    BY <1>1, <1>2 DEF Collecting, Performing, SurfaceInv, ReferenceIsCurrent
  <2>3. ReferenceIsCurrent'
    BY <1>1, <2>1, <2>2 DEF SurfaceInv, ReferenceIsCurrent, Matched, Performing
  <2>4. SurfaceInv'
    BY <1>1, <1>2, <2>1, <2>2, <2>3, CallMoves DEF Collecting, SurfaceInv, SurfaceTyped
  <2>5. QED
    BY <1>1, <1>2, <2>1, <2>4
<1>3. CASE call.pc # "act" /\ call.pc \notin Collecting
  <2>1. call' \in Calls /\ call'.pc = "idle" /\ call'.result = "none" /\ UNCHANGED surface
    BY <1>1, <1>3, NothingSeen
  <2>2. ReferenceIsCurrent'
    BY <2>1 DEF ReferenceIsCurrent, Checking, Performing
  <2>3. SurfaceInv'
    BY <1>1, <1>3, <2>1, <2>2, CallMoves DEF Collecting, SurfaceInv, SurfaceTyped
  <2>4. QED
    BY <1>1, <1>3, <2>1, <2>3
<1>4. CASE call.pc \in Collecting
  <2>1. call.pc # "act"
    BY <1>4 DEF Collecting
  <2>2. call' \in Calls /\ call'.pc = "idle" /\ call'.result = "none"
    BY <1>1, <2>1, NothingSeen
  <2>3. /\ surface' \in Surfaces /\ DOMAIN surface'.seen = {} /\ surface'.watch = surface.watch
    BY <1>1, <1>4, NothingSeen DEF Surfaces
  <2>4. SurfaceTyped'
    BY <1>1, <2>2, <2>3 DEF SurfaceInv, SurfaceTyped
  <2>5. WatchVouches' /\ FramesInOrder'
    BY <1>1, <2>3 DEF SurfaceInv, WatchVouches, FramesInOrder
  <2>6. ReferenceIsCurrent'
    BY <2>2 DEF ReferenceIsCurrent, Checking, Performing
  <2>7. QED
    BY <1>1, <2>1, <2>2, <2>4, <2>5, <2>6 DEF SurfaceInv
<1>5. QED
  BY <1>2, <1>3, <1>4

-----------------------------------------------------------------------------
(* The loop *)

\* An end of the loop that is no success, and an invalid answer, leave the count alone.
LEMMA WaysOut ==
    ASSUME LoopTyped, NEW reason
    PROVE  /\ Fail(reason) =>
                  /\ DOMAIN loop' = LoopFields /\ loop'.decision.ref \in Refs
                  /\ loop'.pc = "done" /\ loop'.actions = loop.actions
                  /\ loop'.outcome # "SUCCESS" /\ loop'.reason = reason
           /\ Invalid(reason) =>
                  /\ DOMAIN loop' = LoopFields /\ loop'.decision.ref \in Refs
                  /\ loop'.pc \in {"turn", "done"} /\ loop'.actions = loop.actions
                  /\ loop'.outcome = "SUCCESS" => loop.outcome = "SUCCESS"
<1>1. NoDecision.ref \in Refs
  BY DEF NoDecision, Refs
<1>2. CASE Fail(reason)
  <2>1. /\ DOMAIN loop' = LoopFields /\ loop'.decision = NoDecision
        /\ loop'.pc = "done" /\ loop'.actions = loop.actions
        /\ loop'.outcome # "SUCCESS" /\ loop'.reason = reason
    BY <1>2 DEF Fail, Failed, Ended, LoopTyped, LoopFields
  <2>2. Invalid(reason) =>
            /\ loop'.pc \in {"turn", "done"} /\ loop'.outcome # "SUCCESS"
    BY <2>1
  <2>3. QED
    BY <1>1, <2>1, <2>2
<1>3. CASE Invalid(reason)
  <2>1. /\ DOMAIN loop' = LoopFields /\ loop'.decision = NoDecision
        /\ loop'.pc \in {"turn", "done"} /\ loop'.actions = loop.actions
        /\ loop'.outcome = "SUCCESS" => loop.outcome = "SUCCESS"
    BY <1>3 DEF Invalid, NextTurn, Failed, Ended, LoopTyped, LoopFields
  <2>2. CASE ~ Fail(reason)
    BY <1>1, <2>1, <2>2
  <2>3. QED
    BY <1>2, <2>2
<1>4. QED
  BY <1>2, <1>3

\* The loop goes on or ends where nothing is in flight.
LEMMA LeavesInv ==
    ASSUME BrowserInv, Still, call.pc = "idle", loop.pc \notin {"acting", "done"},
           DOMAIN loop' = LoopFields, loop'.decision.ref \in Refs,
           loop'.pc \in {"turn", "thinking", "done"},
           loop'.actions = loop.actions, loop'.outcome # "SUCCESS"
    PROVE  BrowserInv'
<1>1. UNCHANGED <<page, surface, call, effects>>
  BY DEF Still, surfaceVars
<1>2. SurfaceInv'
  BY <1>1 DEF BrowserInv, SurfaceInv, SurfaceTyped, WatchVouches, FramesInOrder,
              ReferenceIsCurrent, Matched, Unique
<1>3. LoopTyped' /\ PlacesAgree'
  BY <1>1 DEF BrowserInv, LoopTyped, PlacesAgree
<1>4. EffectsAgree'
  <2>1. effects = loop.actions /\ loop.actions <= MaxActions /\ loop.actions \in Nat
    BY DEF BrowserInv, EffectsAgree, LoopTyped
  <2>2. QED
    BY <1>1, <2>1 DEF EffectsAgree
<1>5. EvidenceAgrees' /\ SuccessIsGrounded'
  BY DEF EvidenceAgrees, SuccessIsGrounded
<1>6. QED
  BY <1>2, <1>3, <1>4, <1>5 DEF BrowserInv

\* A failure, or an invalid answer, there.
LEMMA FailsInv ==
    ASSUME BrowserInv, Still, call.pc = "idle", loop.pc \notin {"acting", "done"}, NEW reason,
           Fail(reason) \/ Invalid(reason)
    PROVE  BrowserInv'
<1>1. LoopTyped /\ loop.outcome # "SUCCESS"
  BY DEF BrowserInv, EvidenceAgrees
<1>2. QED
  BY <1>1, WaysOut, LeavesInv

\* The loop resolves a reference, or has its action performed.
LEMMA ResolvesInv ==
    ASSUME BrowserInv, call.pc = "idle",
           loop.pc \in {"thinking", "resolving", "gateway", "proving"},
           NEW observation, NEW ref \in Refs, NEW perform \in BOOLEAN,
           Resolve(observation, ref, perform),
           DOMAIN loop' = LoopFields, loop'.decision.ref \in Refs,
           loop'.pc \in {"resolving", "gateway", "acting", "checking"},
           perform => loop'.pc = "acting",
           loop'.actions = loop.actions, loop'.outcome = loop.outcome,
           loop'.pc # "checking" => loop.actions < MaxActions,
           loop'.pc = "checking" =>
               /\ loop.pc = "proving" /\ loop'.targets = loop.targets
               /\ loop'.selected = loop.selected /\ loop'.pending = loop.pending
               /\ loop'.decision = loop.decision
    PROVE  BrowserInv'
<1>1. /\ SurfaceInv' /\ UNCHANGED <<page, surface, effects>>
      /\ call'.pc \in {"idle", "ask"} /\ call'.perform = perform
      /\ call'.result \notin {"APPLIED", "RESOLVED"}
  BY ResolveInv DEF BrowserInv
<1>2. LoopTyped' /\ PlacesAgree'
  BY <1>1 DEF BrowserInv, LoopTyped, PlacesAgree, Checking
<1>3. EffectsAgree'
  <2>1. effects = loop.actions /\ loop.actions <= MaxActions /\ loop.actions \in Nat
    BY DEF BrowserInv, EffectsAgree, LoopTyped
  <2>2. QED
    BY <1>1, <2>1 DEF EffectsAgree
<1>4. loop.outcome # "SUCCESS"
  BY DEF BrowserInv, EvidenceAgrees
<1>5. EvidenceAgrees'
  BY <1>1, <1>4 DEF BrowserInv, EvidenceAgrees, Showing, Evidence, Unique
<1>6. SuccessIsGrounded'
  BY <1>4 DEF SuccessIsGrounded
<1>7. QED
  BY <1>1, <1>2, <1>3, <1>5, <1>6 DEF BrowserInv

\* A turn begins by observing.
LEMMA StartTurnInv ==
    ASSUME BrowserInv, StartTurn
    PROVE  BrowserInv'
<1>1. loop.pc = "turn" /\ call.pc = "idle"
  BY DEF StartTurn, At
<1>2. CASE loop.turn = MaxTurns
  BY <1>1, <1>2, FailsInv DEF StartTurn
<1>3. CASE loop.turn # MaxTurns
  <2>1. loop' = [loop EXCEPT !.pc = "observing", !.turn = @ + 1] /\ BeginObserve
    BY <1>3 DEF StartTurn
  <2>2. /\ DOMAIN loop' = LoopFields /\ loop'.decision = loop.decision /\ loop'.pc = "observing"
        /\ loop'.actions = loop.actions /\ loop'.outcome = loop.outcome
    BY <2>1 DEF BrowserInv, LoopTyped, LoopFields
  <2>3. SurfaceInv' /\ call'.pc = "watch" /\ effects' = effects
    BY <2>1, BeginObserveInv DEF BrowserInv, BeginObserve
  <2>4. LoopTyped' /\ PlacesAgree'
    BY <2>2, <2>3 DEF BrowserInv, LoopTyped, PlacesAgree, Collecting
  <2>5. EffectsAgree'
    BY <1>1, <2>2, <2>3 DEF BrowserInv, EffectsAgree
  <2>6. loop.outcome # "SUCCESS"
    BY <1>1 DEF BrowserInv, EvidenceAgrees
  <2>7. EvidenceAgrees' /\ SuccessIsGrounded'
    BY <2>2, <2>6 DEF EvidenceAgrees, SuccessIsGrounded
  <2>8. QED
    BY <2>3, <2>4, <2>5, <2>7 DEF BrowserInv
<1>4. QED
  BY <1>2, <1>3

\* What the observation and the model answer, when nothing is resolved.
LEMMA ThinksInv ==
    ASSUME BrowserInv,
           \/ ObservationFails \/ Observed \/ ModelFails \/ Declines \/ Inspects \/ Misanswers
           \/ ResolutionFails \/ RefuseProposal
    PROVE  BrowserInv'
<1>1. Still /\ call.pc = "idle" /\ loop.pc \notin {"acting", "done"}
  BY DEF ObservationFails, Observed, ModelFails, Declines, Inspects, Misanswers,
         ResolutionFails, RefuseProposal, Resolution, At
<1>2. LoopTyped /\ loop.outcome # "SUCCESS"
  BY <1>1 DEF BrowserInv, EvidenceAgrees
<1>3. CASE \/ ObservationFails \/ ModelFails \/ Declines \/ Misanswers \/ ResolutionFails
           \/ RefuseProposal
  <2>1. \E reason : Fail(reason) \/ Invalid(reason)
    BY <1>3 DEF ObservationFails, ModelFails, Declines, Misanswers, ResolutionFails,
                RefuseProposal
  <2>2. QED
    BY <1>1, <2>1, FailsInv
<1>4. NoDecision.ref \in Refs
  BY DEF NoDecision, Refs
<1>5. CASE Inspects
  <2>1. loop' = NextTurn(loop)
    BY <1>5 DEF Inspects
  <2>2. /\ DOMAIN loop' = LoopFields /\ loop'.decision = NoDecision /\ loop'.pc = "turn"
        /\ loop'.actions = loop.actions /\ loop'.outcome = loop.outcome
    BY <1>2, <2>1 DEF NextTurn, LoopTyped, LoopFields
  <2>3. QED
    BY <1>1, <1>2, <1>4, <2>2, LeavesInv
<1>6. CASE Observed
  <2>1. /\ DOMAIN loop' = LoopFields /\ loop'.pc \in {"thinking", "done"}
        /\ loop'.decision \in {loop.decision, NoDecision}
        /\ loop'.actions = loop.actions /\ loop'.outcome # "SUCCESS"
    BY <1>2, <1>6 DEF Observed, Failed, Ended, LoopTyped, LoopFields
  <2>2. QED
    BY <1>1, <1>2, <1>4, <2>1, LeavesInv DEF LoopTyped
<1>7. QED
  BY <1>3, <1>5, <1>6

\* An action is proposed only while some are left.
LEMMA ProposesInv ==
    ASSUME BrowserInv, NEW kind, NEW ref \in References, NEW input, Proposes(kind, ref, input)
    PROVE  BrowserInv'
<1>1. loop.pc = "thinking" /\ call.pc = "idle" /\ loop.actions \in Nat /\ MaxActions \in Nat
  BY DiscoveryAssumption DEF Proposes, At, BrowserInv, LoopTyped
<1>2. CASE ~ ActionsLeft
  BY <1>1, <1>2, FailsInv DEF Proposes
<1>3. CASE ActionsLeft
  <2>1. ref \in Refs
    BY DEF References, Refs, BrowserInv, SurfaceInv, SurfaceTyped, Surfaces
  <2>2. /\ loop' = [loop EXCEPT !.pc = "resolving", !.decision =
               [kind |-> kind, ref |-> ref, input |-> input, identity |-> Unseen]]
        /\ Resolve(surface.generation, ref, FALSE)
    BY <1>3 DEF Proposes, BeginResolve
  <2>3. /\ DOMAIN loop' = LoopFields /\ loop'.decision.ref = ref /\ loop'.pc = "resolving"
        /\ loop'.actions = loop.actions /\ loop'.outcome = loop.outcome
    BY <2>2 DEF BrowserInv, LoopTyped, LoopFields
  <2>4. loop.actions < MaxActions
    BY <1>3 DEF ActionsLeft
  <2>5. QED
    BY <1>1, <2>1, <2>2, <2>3, <2>4, ResolvesInv
<1>4. QED
  BY <1>2, <1>3

\* The gateway resolves the reference, and has it performed.
LEMMA SubmitsInv ==
    ASSUME BrowserInv, SubmitToGateway \/ GatewayDispatches
    PROVE  BrowserInv'
<1> DEFINE ref == loop.decision.ref
<1>1. /\ call.pc = "idle" /\ loop.pc \in {"resolving", "gateway"} /\ ref \in Refs
      /\ loop.actions < MaxActions
  BY DEF SubmitToGateway, GatewayDispatches, At, BrowserInv, LoopTyped, EffectsAgree
<1>2. \/ loop' = [loop EXCEPT !.pc = "gateway"] /\ Resolve(surface.generation, ref, FALSE)
      \/ loop' = [loop EXCEPT !.pc = "acting"] /\ Resolve(surface.generation, ref, TRUE)
  BY DEF SubmitToGateway, GatewayDispatches, BeginResolve, BeginPerform
<1>3. /\ DOMAIN loop' = LoopFields /\ loop'.decision = loop.decision
      /\ loop'.pc \in {"gateway", "acting"}
      /\ loop'.actions = loop.actions /\ loop'.outcome = loop.outcome
  BY <1>2 DEF BrowserInv, LoopTyped, LoopFields
<1>4. CASE loop'.pc = "gateway"
  <2>1. Resolve(surface.generation, ref, FALSE)
    BY <1>2, <1>4 DEF BrowserInv, LoopTyped, LoopFields
  <2>2. QED
    BY <1>1, <1>3, <1>4, <2>1, ResolvesInv
<1>5. CASE loop'.pc = "acting"
  <2>1. Resolve(surface.generation, ref, TRUE)
    BY <1>2, <1>5 DEF BrowserInv, LoopTyped, LoopFields
  <2>2. QED
    BY <1>1, <1>3, <1>5, <2>1, ResolvesInv
<1>6. QED
  BY <1>3, <1>4, <1>5

\* Whatever the gateway answers, the action is counted.
LEMMA GatewayInv ==
    ASSUME BrowserInv, Still, call.pc = "idle", loop.pc \in {"gateway", "acting"},
           DOMAIN loop' = LoopFields, loop'.decision.ref \in Refs,
           loop'.pc \in {"turn", "done"}, loop'.actions = loop.actions + 1,
           loop'.pc = "turn" => effects = loop.actions + 1,
           loop'.outcome # "SUCCESS"
    PROVE  BrowserInv'
<1>1. UNCHANGED <<page, surface, call, effects>>
  BY DEF Still, surfaceVars
<1>2. SurfaceInv'
  BY <1>1 DEF BrowserInv, SurfaceInv, SurfaceTyped, WatchVouches, FramesInOrder,
              ReferenceIsCurrent, Matched, Unique
<1>3. LoopTyped' /\ PlacesAgree'
  BY <1>1 DEF BrowserInv, LoopTyped, PlacesAgree
<1>4. EffectsAgree'
  <2>1. /\ loop.actions < MaxActions /\ loop.actions \in Nat /\ MaxActions \in Nat
        /\ effects <= loop.actions + 1 /\ effects \in Nat
    BY DiscoveryAssumption DEF BrowserInv, EffectsAgree, LoopTyped, SurfaceInv, SurfaceTyped
  <2>2. QED
    BY <1>1, <2>1 DEF EffectsAgree
<1>5. EvidenceAgrees' /\ SuccessIsGrounded'
  BY DEF EvidenceAgrees, SuccessIsGrounded
<1>6. QED
  BY <1>2, <1>3, <1>4, <1>5 DEF BrowserInv

\* A refusal, a failure and an execution are all counted.
LEMMA AnswersInv ==
    ASSUME BrowserInv, GatewayRefuses \/ Executed \/ ActionNotExecuted
    PROVE  BrowserInv'
<1>1. /\ Still /\ call.pc = "idle" /\ loop.pc \in {"gateway", "acting"}
      /\ LoopTyped /\ loop.outcome # "SUCCESS" /\ NoDecision.ref \in Refs
  BY DEF GatewayRefuses, Executed, ActionNotExecuted, GatewayFails, At, BrowserInv,
         EvidenceAgrees, NoDecision, Refs
<1>2. CASE GatewayRefuses \/ ActionNotExecuted
  <2>1. PICK reason : loop' = Failed(Counted, reason)
    BY <1>2 DEF GatewayRefuses, ActionNotExecuted, GatewayFails
  <2>2. /\ DOMAIN loop' = LoopFields /\ loop'.decision = NoDecision /\ loop'.pc = "done"
        /\ loop'.actions = loop.actions + 1 /\ loop'.outcome # "SUCCESS"
    BY <1>1, <2>1 DEF Failed, Ended, Counted, LoopTyped, LoopFields
  <2>3. QED
    BY <1>1, <2>2, GatewayInv
<1>3. CASE Executed
  <2>1. /\ DOMAIN loop' = LoopFields /\ loop'.decision = NoDecision /\ loop'.pc = "turn"
        /\ loop'.actions = loop.actions + 1 /\ loop'.outcome = loop.outcome
    BY <1>1, <1>3 DEF Executed, NextTurn, Counted, LoopTyped, LoopFields
  <2>2. effects = loop.actions + 1
    BY <1>3 DEF Executed, At, BrowserInv, EffectsAgree
  <2>3. QED
    BY <1>1, <2>1, <2>2, GatewayInv
<1>4. QED
  BY <1>2, <1>3

\* An admissible completion has every identity looked at.
LEMMA CompletesInv ==
    ASSUME BrowserInv, NEW generation \in {surface.generation - 1, surface.generation},
           NEW evidence, NEW identity, Completes(generation, evidence, identity)
    PROVE  BrowserInv'
<1>1. Still /\ loop.pc = "thinking" /\ call.pc = "idle" /\ loop.outcome # "SUCCESS"
  BY DEF Completes, At, BrowserInv, EvidenceAgrees
<1>2. CASE ~ Admissible(evidence, identity)
  BY <1>1, <1>2, FailsInv DEF Completes
<1>3. CASE Admissible(evidence, identity)
  <2> DEFINE ref == [generation |-> generation, name |-> "none"]
             decision == [kind |-> "complete", input |-> NoInput, identity |-> identity, ref |-> ref]
  <2>1. loop' = [loop EXCEPT !.pc = "proving", !.pending = Cited(evidence, identity),
                             !.decision = decision]
    BY <1>3 DEF Completes
  <2>2. /\ DOMAIN loop' = LoopFields /\ loop'.pc = "proving" /\ loop'.decision.ref = ref
        /\ loop'.decision.identity = identity /\ loop'.pending = Cited(evidence, identity)
        /\ loop'.actions = loop.actions /\ loop'.outcome = loop.outcome
        /\ loop'.targets = loop.targets /\ loop'.selected = loop.selected
    BY <2>1 DEF BrowserInv, LoopTyped, LoopFields
  <2>3. ref \in Refs
    <3>1. surface.generation \in Nat
      BY DEF BrowserInv, SurfaceInv, SurfaceTyped, Surfaces
    <3>2. generation \in Int
      BY <3>1
    <3>3. QED
      BY <3>2 DEF Refs
  <2>4. UNCHANGED <<page, surface, call, effects>>
    BY <1>1 DEF Still, surfaceVars
  <2>5. SurfaceInv'
    BY <2>4 DEF BrowserInv, SurfaceInv, SurfaceTyped, WatchVouches, FramesInOrder,
                ReferenceIsCurrent, Matched, Unique
  <2>6. LoopTyped' /\ PlacesAgree'
    BY <1>1, <2>2, <2>3, <2>4 DEF BrowserInv, LoopTyped, PlacesAgree
  <2>7. EffectsAgree'
    BY <1>1, <2>2, <2>4 DEF BrowserInv, EffectsAgree
  <2>8. EvidenceAgrees'
    <3>1. \A t \in loop.selected : t \in GoalContexts /\ Showing(t) # {}
      <4>1. Cardinality({}) = 0
        BY FS_EmptySet
      <4>2. QED
        BY <1>3, <4>1 DEF Admissible
    <3>2. \A i \in Inputs : identity[i] \in Cited(evidence, identity)
      BY <1>3 DEF Admissible, Cited
    <3>3. DOMAIN loop.targets = Inputs /\ loop.actions > 0
      BY <1>3 DEF Admissible
    <3>4. \A t : Showing(t)' = Showing(t)
      BY <2>4 DEF Showing, Evidence, Unique
    <3>5. QED
      BY <1>1, <2>2, <3>1, <3>2, <3>3, <3>4 DEF EvidenceAgrees
  <2>9. SuccessIsGrounded'
    BY <1>1, <2>2 DEF SuccessIsGrounded
  <2>10. QED
    BY <2>5, <2>6, <2>7, <2>8, <2>9 DEF BrowserInv
<1>4. QED
  BY <1>2, <1>3

\* Evidence is resolved like any reference.
LEMMA ResolveEvidenceInv ==
    ASSUME BrowserInv, NEW n \in Names, ResolveEvidence(n)
    PROVE  BrowserInv'
<1> DEFINE ref == [loop.decision.ref EXCEPT !.name = n]
<1>1. /\ loop.pc = "proving" /\ call.pc = "idle" /\ ref \in Refs
      /\ loop' = [loop EXCEPT !.pc = "checking"] /\ Resolve(surface.generation, ref, FALSE)
  BY DEF ResolveEvidence, At, BeginResolve, BrowserInv, LoopTyped, Refs
<1>2. /\ DOMAIN loop' = LoopFields /\ loop'.decision = loop.decision /\ loop'.pc = "checking"
      /\ loop'.actions = loop.actions /\ loop'.outcome = loop.outcome
      /\ loop'.targets = loop.targets /\ loop'.selected = loop.selected
      /\ loop'.pending = loop.pending
  BY <1>1 DEF BrowserInv, LoopTyped, LoopFields
<1>3. loop'.decision.ref \in Refs
  BY <1>2 DEF BrowserInv, LoopTyped
<1> HIDE DEF ref
<1>4. QED
  BY <1>1, <1>2, <1>3, ResolvesInv

\* The last piece of evidence completes the proof of the identities.
LEMMA EvidenceResolvedInv ==
    ASSUME BrowserInv, EvidenceResolved
    PROVE  BrowserInv'
<1> DEFINE n == call.ref.name
           left == loop.pending \ {n}
<1>1. /\ Still /\ loop.pc = "checking" /\ call.pc = "idle" /\ call.result = "RESOLVED"
      /\ loop.outcome # "SUCCESS" /\ UNCHANGED <<page, surface, call, effects>>
  BY DEF EvidenceResolved, Resolution, At, Still, surfaceVars, BrowserInv, EvidenceAgrees
<1>2. CASE \E reason : Invalid(reason)
  BY <1>1, <1>2, FailsInv
<1>3. CASE ~ \E reason : Invalid(reason)
  <2>1. /\ Evidence(n)
        /\ \/ /\ left # {}
              /\ loop' = [loop EXCEPT !.pc = "proving", !.pending = left]
           \/ /\ left = {} /\ Identified
              /\ loop' = [loop EXCEPT !.pc = "done", !.pending = {},
                                      !.outcome = "SUCCESS", !.reason = "COMPLETED"]
    BY <1>3 DEF EvidenceResolved
  <2>2. Unique(n)
    BY <1>1 DEF BrowserInv, SurfaceInv, ReferenceIsCurrent
  <2>3. /\ DOMAIN loop.targets = Inputs /\ loop.actions > 0
        /\ \A t \in loop.selected : t \in GoalContexts /\ Showing(t) # {}
        /\ \A i \in Inputs : \/ loop.decision.identity[i] \in left
                            \/ /\ Evidence(loop.decision.identity[i])
                               /\ Unique(loop.decision.identity[i])
    BY <1>1, <2>1, <2>2 DEF BrowserInv, EvidenceAgrees
  <2>4. /\ DOMAIN loop' = LoopFields /\ loop'.decision = loop.decision
        /\ loop'.actions = loop.actions /\ loop'.targets = loop.targets
        /\ loop'.selected = loop.selected /\ loop'.pc \in {"proving", "done"}
        /\ loop'.pc = "proving" => loop'.pending = left /\ loop'.outcome = loop.outcome
        /\ loop'.pc = "done" => left = {} /\ Identified
    BY <2>1 DEF BrowserInv, LoopTyped, LoopFields
  <2>5. SurfaceInv'
    BY <1>1 DEF BrowserInv, SurfaceInv, SurfaceTyped, WatchVouches, FramesInOrder,
                ReferenceIsCurrent, Matched, Unique
  <2>6. LoopTyped' /\ PlacesAgree'
    BY <1>1, <2>4 DEF BrowserInv, LoopTyped, PlacesAgree
  <2>7. effects = loop.actions /\ loop.actions <= MaxActions /\ loop.actions \in Nat
    BY <1>1 DEF BrowserInv, EffectsAgree, LoopTyped
  <2>8. EffectsAgree'
    BY <1>1, <2>4, <2>7 DEF EffectsAgree
  <2>9. /\ \A t : Showing(t)' = Showing(t) /\ Evidence(t)' = Evidence(t)
                                       /\ Unique(t)' = Unique(t)
    BY <1>1 DEF Showing, Evidence, Unique
  <2>10. EvidenceAgrees'
    BY <1>1, <2>3, <2>4, <2>9 DEF EvidenceAgrees
  <2>11. SuccessIsGrounded'
    <3>1. CASE loop'.pc = "proving"
      BY <1>1, <2>4, <3>1 DEF SuccessIsGrounded
    <3>2. CASE loop'.pc = "done"
      <4>1. \A i \in Inputs :
                LET m == loop.decision.identity[i]
                IN  /\ m \in DOMAIN surface.seen /\ Evidence(m) /\ Unique(m)
                    /\ surface.seen[m].text = ValueOf[i]
        BY <2>3, <2>4, <3>2 DEF Identified, Evidence
      <4>2. effects > 0
        BY <2>3, <2>7
      <4>3. QED
        BY <1>1, <2>3, <2>4, <2>7, <2>9, <4>1, <4>2 DEF SuccessIsGrounded
    <3>3. QED
      BY <2>4, <3>1, <3>2
  <2>12. QED
    BY <2>5, <2>6, <2>8, <2>10, <2>11 DEF BrowserInv
<1>4. QED
  BY <1>2, <1>3

\* The adapter acts only for the loop's place that acts, and once.
LEMMA AdapterStepInv ==
    ASSUME BrowserInv, Adapter, UNCHANGED loop
    PROVE  BrowserInv'
<1>1. SurfaceInv' /\ AdapterMoves
  BY AdapterInv DEF BrowserInv
<1>2. call.pc # "idle" /\ loop.outcome # "SUCCESS"
  BY <1>1 DEF AdapterMoves, Collecting, Checking, BrowserInv, EvidenceAgrees
<1>3. LoopTyped'
  BY DEF BrowserInv, LoopTyped
<1>4. PlacesAgree'
  BY <1>1 DEF BrowserInv, PlacesAgree, AdapterMoves, Collecting, Checking
<1>5. EffectsAgree'
  <2>1. /\ effects \in Nat /\ loop.actions \in Nat /\ EffectsAgree /\ PlacesAgree
        /\ call.result = "none"
    BY <1>2 DEF BrowserInv, SurfaceInv, SurfaceTyped, LoopTyped, ReferenceIsCurrent
  <2>2. CASE loop.pc = "acting"
    BY <1>1, <2>1, <2>2 DEF EffectsAgree, PlacesAgree, AdapterMoves, Collecting, Checking,
                            Performing
  <2>3. CASE loop.pc = "done"
    BY <1>1, <1>2, <2>1, <2>3 DEF EffectsAgree, PlacesAgree, AdapterMoves, Collecting, Checking,
                                  Performing
  <2>4. CASE loop.pc \notin {"acting", "done"}
    BY <1>1, <2>1, <2>4 DEF EffectsAgree, PlacesAgree, AdapterMoves, Collecting, Checking,
                            Performing
  <2>5. QED
    BY <2>2, <2>3, <2>4
<1>6. EvidenceAgrees'
  <2>1. CASE loop.pc \in {"proving", "checking"}
    <3>1. UNCHANGED surface
      BY <1>1, <1>2, <2>1 DEF BrowserInv, PlacesAgree, AdapterMoves, Collecting, Checking
    <3>2. QED
      BY <1>2, <3>1 DEF BrowserInv, EvidenceAgrees, Showing, Evidence, Unique
  <2>2. CASE loop.pc \notin {"proving", "checking"}
    BY <1>2, <2>2 DEF EvidenceAgrees
  <2>3. QED
    BY <2>1, <2>2
<1>7. SuccessIsGrounded'
  BY <1>2 DEF SuccessIsGrounded
<1>8. QED
  BY <1>1, <1>3, <1>4, <1>5, <1>6, <1>7 DEF BrowserInv

\* The page does not touch the observation, nor the loop.
LEMMA PageStepInv ==
    ASSUME BrowserInv, PageChanges, UNCHANGED loop
    PROVE  BrowserInv'
<1>1. SurfaceInv'
  BY PageChangesInv DEF BrowserInv
<1>2. UNCHANGED <<surface, call, effects>>
  BY DEF PageChanges, Mutates, Navigates, Reframes, Hides, Changes
<1>3. LoopTyped' /\ PlacesAgree' /\ EffectsAgree'
  BY <1>2 DEF BrowserInv, LoopTyped, PlacesAgree, EffectsAgree
<1>4. EvidenceAgrees' /\ SuccessIsGrounded'
  BY <1>2 DEF BrowserInv, EvidenceAgrees, SuccessIsGrounded, Showing, Evidence, Unique
<1>5. QED
  BY <1>1, <1>3, <1>4 DEF BrowserInv

\* The time limit leaves at most one effect out of the count.
LEMMA TimesOutInv ==
    ASSUME BrowserInv, TimesOut
    PROVE  BrowserInv'
<1>1. loop.pc \notin {"turn", "done"} /\ call.pc # "abandoned"
  BY DEF TimesOut, BrowserInv, PlacesAgree, Collecting, Checking
<1>2. /\ SurfaceInv' /\ UNCHANGED <<page, effects>>
      /\ call'.pc = IF call.pc = "act" THEN "abandoned" ELSE "idle"
  BY <1>1, AbandonInv DEF TimesOut, BrowserInv
<1>3. /\ DOMAIN loop' = LoopFields /\ loop'.decision.ref \in Refs /\ loop'.pc = "done"
      /\ loop'.actions = loop.actions /\ loop'.outcome # "SUCCESS"
      /\ loop'.reason = "DISCOVERY_TIMEOUT"
  BY WaysOut DEF TimesOut, BrowserInv
<1>4. LoopTyped' /\ PlacesAgree'
  BY <1>2, <1>3 DEF BrowserInv, LoopTyped, PlacesAgree
<1>5. EffectsAgree'
  <2>1. /\ effects \in Nat /\ loop.actions \in Nat /\ EffectsAgree /\ PlacesAgree
    BY DEF BrowserInv, SurfaceInv, SurfaceTyped, LoopTyped
  <2>2. effects <= loop.actions + 1 /\ loop.actions <= MaxActions
    BY <1>1, <2>1 DEF EffectsAgree
  <2>3. call.pc = "act" => effects = loop.actions
    BY <1>1, <2>1 DEF EffectsAgree, Performing
  <2>4. QED
    BY <1>2, <1>3, <2>1, <2>2, <2>3 DEF EffectsAgree
<1>6. EvidenceAgrees' /\ SuccessIsGrounded'
  BY <1>3 DEF EvidenceAgrees, SuccessIsGrounded
<1>7. QED
  BY <1>2, <1>4, <1>5, <1>6 DEF BrowserInv

\* A discovery starts before any observation.
LEMMA BrowserInitInv == BrowserInit => BrowserInv
<1> SUFFICES ASSUME BrowserInit PROVE BrowserInv
  OBVIOUS
<1>1. SurfaceInv /\ call.pc = "idle" /\ effects = 0
  BY SurfaceInitInv DEF BrowserInit, SurfaceInit, NoCall
<1>2. /\ DOMAIN loop = LoopFields /\ loop.pc = "turn" /\ loop.actions = 0
      /\ loop.decision = NoDecision /\ loop.outcome = "none"
  BY DEF BrowserInit, LoopFields
<1>3. LoopTyped /\ PlacesAgree
  BY <1>1, <1>2 DEF LoopTyped, PlacesAgree, NoDecision, Refs
<1>4. EffectsAgree /\ EvidenceAgrees /\ SuccessIsGrounded
  BY <1>1, <1>2, DiscoveryAssumption DEF EffectsAgree, EvidenceAgrees, SuccessIsGrounded
<1>5. QED
  BY <1>1, <1>3, <1>4 DEF BrowserInv

\* Every step keeps the invariant.
LEMMA BrowserStepInv == BrowserInv /\ [BrowserNext]_discoveryVars => BrowserInv'
<1> SUFFICES ASSUME BrowserInv, [BrowserNext]_discoveryVars PROVE BrowserInv'
  OBVIOUS
<1>1. CASE Advance
  <2>1. CASE \/ ObservationFails \/ Observed \/ ModelFails \/ Declines \/ Inspects \/ Misanswers
             \/ ResolutionFails \/ RefuseProposal
    BY <2>1, ThinksInv
  <2>2. CASE StartTurn \/ SubmitToGateway \/ GatewayDispatches
    BY <2>2, StartTurnInv, SubmitsInv
  <2>3. CASE GatewayRefuses \/ Executed \/ ActionNotExecuted
    BY <2>3, AnswersInv
  <2>4. ASSUME NEW kind \in {"fill", "click"}, NEW ref \in References,
               NEW input \in Inputs \cup {NoInput}, Proposes(kind, ref, input)
        PROVE  BrowserInv'
    BY <2>4, ProposesInv
  <2>5. ASSUME NEW generation \in {surface.generation - 1, surface.generation},
               NEW evidence \in SUBSET Names, NEW identity \in Identities,
               Completes(generation, evidence, identity)
        PROVE  BrowserInv'
    BY <2>5, CompletesInv
  <2>6. ASSUME NEW n \in Names, ResolveEvidence(n) PROVE BrowserInv'
    BY <2>6, ResolveEvidenceInv
  <2>7. CASE EvidenceResolved
    BY <2>7, EvidenceResolvedInv
  <2>8. QED
    BY <1>1, <2>1, <2>2, <2>3, <2>4, <2>5, <2>6, <2>7 DEF Advance, Answers
<1>2. CASE Adapter /\ UNCHANGED loop
  BY <1>2, AdapterStepInv
<1>3. CASE PageChanges /\ UNCHANGED loop
  BY <1>3, PageStepInv
<1>4. CASE TimesOut
  BY <1>4, TimesOutInv
<1>5. CASE UNCHANGED discoveryVars
  BY <1>5 DEF discoveryVars, surfaceVars, BrowserInv, SurfaceInv, SurfaceTyped, WatchVouches,
              FramesInOrder, ReferenceIsCurrent, Matched, LoopTyped, PlacesAgree, EffectsAgree,
              EvidenceAgrees, SuccessIsGrounded, Showing, Evidence, Unique
<1>6. QED
  BY <1>1, <1>2, <1>3, <1>4, <1>5 DEF BrowserNext

\* Every reachable state satisfies it.
LEMMA BrowserInvariance == BrowserSpec => []BrowserInv
BY BrowserInitInv, BrowserStepInv, PTL DEF BrowserSpec

-----------------------------------------------------------------------------
(* The theorems *)

\* A success of the discovery rests on what the last observation shows: every input typed
\* and identified there, every selected row the goal's and shown there, every effect counted.
THEOREM SuccessesGrounded == BrowserSpec => []SuccessIsGrounded
<1>1. BrowserInv => SuccessIsGrounded
  BY DEF BrowserInv
<1>2. QED
  BY <1>1, BrowserInvariance, PTL

\* The discovery performs as many actions as it reports, within its limit, but for the one
\* that is in flight, and for the one that the time limit caught in flight.
THEOREM EffectsCounted == BrowserSpec => []EffectsAreCounted
<1>1. BrowserInv => EffectsAreCounted
  <2> SUFFICES ASSUME BrowserInv PROVE EffectsAreCounted
    OBVIOUS
  <2>1. effects \in Nat /\ loop.actions \in Nat /\ EffectsAgree
    BY DEF BrowserInv, SurfaceInv, SurfaceTyped, LoopTyped
  <2>2. QED
    BY <2>1 DEF EffectsAgree, EffectsAreCounted
<1>2. QED
  BY <1>1, BrowserInvariance, PTL

\* The loop calls the adapter only when no call is in progress.
LEMMA LoopWaits ==
    ASSUME Advance
    PROVE  call.pc = "idle" /\ effects' = effects
<1>1. call.pc = "idle"
  BY DEF Advance, Answers, StartTurn, ObservationFails, Observed, ModelFails, Declines, Inspects,
         Misanswers, Proposes, Completes, ResolutionFails, RefuseProposal, SubmitToGateway,
         GatewayRefuses, GatewayDispatches, Executed, ActionNotExecuted, ResolveEvidence,
         EvidenceResolved, Resolution, At
<1>2. effects' = effects
  BY DEF Advance, Answers, StartTurn, ObservationFails, Observed, ModelFails, Declines, Inspects,
         Misanswers, Proposes, Completes, ResolutionFails, RefuseProposal, SubmitToGateway,
         GatewayRefuses, GatewayDispatches, Executed, ActionNotExecuted, ResolveEvidence,
         EvidenceResolved, Resolution, GatewayFails, BeginObserve, BeginResolve, BeginPerform,
         Resolve, Still, surfaceVars
<1>3. QED
  BY <1>1, <1>2

\* When BrowserSurfaceAdapter finds a frame's watch quiet, the frame shows just the elements
\* of the observation, although the observation was put together from several steps.
THEOREM CheckedShown == BrowserSpec => CheckedIsShown
<1> DEFINE Passes == call.pc = "ask" /\ (call'.frame > call.frame \/ call'.pc = "locate")
           IsShown == \A n \in InFrame : surface.seen[n] = page.view[n]
<1>1. ASSUME BrowserInv, [BrowserNext]_discoveryVars, Passes PROVE IsShown
  <2>1. /\ call \in Calls /\ call.frame \in Nat /\ surface \in Surfaces /\ page \in Pages
        /\ call.pc = "ask"
    BY <1>1 DEF BrowserInv, SurfaceInv, SurfaceTyped, Calls, Frames
  <2>2. ~ UNCHANGED call
    BY <1>1, <2>1
  <2>3. AskWatch
    <3>1. CASE Advance
      BY <2>1, <3>1, LoopWaits
    <3>2. CASE Adapter
      BY <2>1, <3>2 DEF Adapter, Watch, Read, Bind, NotStable, BrowserRaises, ObserveFails, Locate,
                        LocateRaises, Aim, Effect, Applied, ActionTimesOut, ActionRaises, ActionFails
    <3>3. CASE PageChanges \/ UNCHANGED discoveryVars
      BY <2>2, <3>3 DEF PageChanges, Mutates, Navigates, Reframes, Hides, Changes, discoveryVars,
                        surfaceVars
    <3>4. CASE TimesOut
      <4>1. call' = NoCall /\ call.frame >= 1
        BY <2>1, <3>4, SurfaceAssumption DEF TimesOut, Abandon, Calls, Frames
      <4>2. QED
        BY <1>1, <2>1, <4>1 DEF NoCall
    <3>5. QED
      BY <1>1, <3>1, <3>2, <3>3, <3>4 DEF BrowserNext
  <2>4. page.version[call.frame] = surface.watch[call.frame]
    <3>1. CASE Returns(Refuse(call.perform, "STALE_ELEMENT_REF"))
      BY <1>1, <2>1, <3>1 DEF Returns, Calls
    <3>2. QED
      BY <2>3, <3>1 DEF AskWatch
  <2>5. \A n \in InFrame : /\ surface.seen[n] \in Elements /\ page.view[n] \in Elements
                          /\ surface.seen[n].text = page.view[n].text
                          /\ surface.seen[n].nodes = page.view[n].nodes
    BY <1>1, <2>1, <2>4 DEF InFrame, BrowserInv, SurfaceInv, WatchVouches, Surfaces, Pages,
                            Observations
  <2>6. QED
    BY <2>5 DEF Elements
<1>2. BrowserInv /\ [BrowserNext]_discoveryVars => [Passes => IsShown]_surfaceVars
  BY <1>1
<1>3. QED
  BY <1>2, BrowserInvariance, PTL DEF BrowserSpec, CheckedIsShown

\* An action lands on the node its reference was shown for, unless the page changed while
\* perform_action was under way: no change before that is missed.
THEOREM EffectsHitWhatWasShown == BrowserSpec => EffectHitsWhatWasShown
<1> DEFINE Hits == \/ page.clock > call.began
                   \/ /\ call.ref.generation = surface.generation
                      /\ surface.seen[call.ref.name].nodes = Matched(call.ref.name)
<1>1. ASSUME BrowserInv, [BrowserNext]_discoveryVars, effects' # effects PROVE Hits
  <2>1. \E v \in Views : Effect(v)
    <3>1. CASE Advance
      BY <1>1, <3>1, LoopWaits
    <3>2. CASE Adapter
      BY <1>1, <3>2 DEF Adapter, Watch, Read, Bind, NotStable, BrowserRaises, ObserveFails, AskWatch,
                        Locate, LocateRaises, Aim, Applied, ActionTimesOut, ActionRaises, ActionFails
    <3>3. CASE PageChanges \/ UNCHANGED discoveryVars \/ TimesOut
      BY <1>1, <3>3 DEF PageChanges, Mutates, Navigates, Reframes, Hides, Changes, discoveryVars,
                        surfaceVars, TimesOut, Abandon
    <3>4. QED
      BY <1>1, <3>1, <3>2, <3>3 DEF BrowserNext
  <2>2. call.pc \in Performing
    BY <2>1 DEF Effect, Performing
  <2>3. call.began <= page.clock /\ call.began \in Nat /\ page.clock \in Nat
    BY <1>1, <2>2 DEF BrowserInv, SurfaceInv, SurfaceTyped, ReferenceIsCurrent, Calls, Pages
  <2>4. QED
    BY <1>1, <2>2, <2>3 DEF BrowserInv, SurfaceInv, ReferenceIsCurrent
<1>2. BrowserInv /\ [BrowserNext]_discoveryVars => [effects' # effects => Hits]_surfaceVars
  BY <1>1
<1>3. QED
  BY <1>2, BrowserInvariance, PTL DEF BrowserSpec, EffectHitsWhatWasShown
=============================================================================
