----------------------- MODULE DiscoveryEngineProofs ------------------------
(***************************************************************************)
(* Proofs about the discovery engine, for every set of targets, texts and  *)
(* completion requirements, and every limit on turns and actions.          *)
(*                                                                         *)
(* The argument.  What a snapshot says of a target, the target has had     *)
(* since it was first visible in this turn: once it was found visible its  *)
(* texts are followed, also while it is hidden again, until one is read;   *)
(* and a turn keeps nothing of the last snapshot.  What a fill is          *)
(* remembered for was dispatched and executed.  While the loop runs, every *)
(* dispatched action was executed, they are counted, each took a turn, and *)
(* the loop's memory is the last of them with its snapshot, so that the    *)
(* comparison before a dispatch is with what was really dispatched last:   *)
(* an invalid answer takes a turn but leaves the memory alone.             *)
(***************************************************************************)
EXTENDS DiscoveryEngine, TLAPS

Places == Targets \cup {Stranger}
Snapshots == UNION {[seen -> Observations] : seen \in SUBSET Targets}
Memories == [proposal : Seq(Proposals), snapshot : Snapshots]
Verified == UNION {[cited -> [text : Texts, sources : SUBSET Places]] : cited \in SUBSET Targets}
Looping == {"start", "turn", "collecting", "thinking"}

Endings ==
    {"REQUIRED_COMPLETION_TARGET_UNKNOWN", "TURN_LIMIT_REACHED", "MODEL_ERROR",
     "MODEL_INVALID_RESPONSE", "MODEL_DECLARED_FAILURE", "MODEL_REASON",
     "COMPLETION_NOT_GROUNDED", "COMPLETION_EVIDENCE_MISSING", "COMPLETED", "UNKNOWN_TARGET",
     "ACTION_LIMIT_REACHED", "NO_PROGRESS", "POLICY_DENIED", "APPROVAL_REQUIRED",
     "ACTION_EFFECT_UNCERTAIN", "ACTION_FAILED"}
Reasons == {"none", "DISCOVERY_TIMEOUT"} \cup Endings

Runs ==
    [pc : {"start", "turn", "collecting", "thinking", "acting", "done"},
     required : SUBSET Places, turn : Nat, actions : Nat,
     invalid : Nat, previous : Memories, proposal : Seq(Proposals), verified : Verified,
     outcome : {"none", "SUCCESS", "FAILED", "INTERVENTION_REQUIRED", "RAISED"},
     reason : Reasons]

Entries ==
    [proposal : Proposals, snapshot : Snapshots,
     answer : {"none", "EXECUTED", "DENIED", "APPROVAL_REQUIRED", "UNCERTAIN", "FAILED"}]

EngineTyped ==
    /\ page \in [Targets -> Shows]
    /\ shown \in [Targets -> SUBSET (Texts \cup {NoText})]
    /\ found \in SUBSET Targets
    /\ snapshot \in Snapshots
    /\ log \in Seq(Entries)
    /\ run \in Runs

\* The snapshot is of this turn, and complete once the model thinks about it; the target whose
\* text is awaited was visible in this turn.
SnapshotIsOfThisTurn ==
    /\ \A t \in Targets :
           \/ page[t].state = "VISIBLE"
           \/ page[t].state = "HIDDEN" /\ shown[t] # {}
           => page[t].text \in shown[t]
    /\ \A t \in found : shown[t] # {} /\ t \notin DOMAIN snapshot
    /\ found # {} => run.pc \in {"collecting", "done"}
    /\ \A t \in DOMAIN snapshot : snapshot[t] \in shown[t] \cup {NotVisible, Unavailable}
    /\ run.pc = "thinking" => DOMAIN snapshot = Targets

\* The loop remembers what it dispatched last and on which snapshot, and counts it.
LastIsRemembered ==
    /\ run.pc \in Looping =>
           /\ \A i \in 1 .. Len(log) : log[i].answer = "EXECUTED"
           /\ Len(log) > 0 =>
                  run.previous = [proposal |-> <<log[Len(log)].proposal>>,
                                  snapshot |-> log[Len(log)].snapshot]
           /\ run.actions = Len(log)
    /\ run.pc = "acting" =>
           /\ Len(log) > 0
           /\ run.proposal = <<log[Len(log)].proposal>>
           /\ log[Len(log)].snapshot = snapshot
           /\ log[Len(log)].answer = "none"
           /\ run.actions = Len(log) - 1

\* Each turn so far took at most one dispatch or invalid answer, and this turn's is to come.
TurnsAreCounted ==
    /\ run.pc \in {"collecting", "thinking"} => Len(log) + run.invalid < run.turn
    /\ run.pc # "done" => ~ TimedOut

FillsWereExecuted ==
    /\ DOMAIN filled \subseteq Places
    /\ \A s \in DOMAIN filled :
           \E i \in DOMAIN log :
               /\ log[i].proposal = Fill(s, filled[s])
               /\ log[i].answer = "EXECUTED"

EngineInv ==
    /\ EngineTyped
    /\ SnapshotIsOfThisTurn
    /\ LastIsRemembered
    /\ TurnsAreCounted
    /\ FillsWereExecuted
    /\ run.outcome # "none" => run.pc = "done"
    /\ CompletionIsGrounded
    /\ DispatchesAreAccounted

-----------------------------------------------------------------------------
\* The empty dictionary is a snapshot, and a set of verified texts.
LEMMA NothingYet ==
    << >> \in Snapshots /\ << >> \in Verified /\ DOMAIN << >> = {}
<1>1. DOMAIN << >> = {} /\ << >> \in [{} -> Observations]
  OBVIOUS
<1>2. << >> \in [{} -> [text : Texts, sources : SUBSET Places]]
  OBVIOUS
<1>3. QED
  BY <1>1, <1>2 DEF Snapshots, Verified

\* A discovery starts with nothing seen, filled or dispatched.
LEMMA EngineInitInv == EngineInit => EngineInv
<1> SUFFICES ASSUME EngineInit PROVE EngineInv
  OBVIOUS
<1>1. log = << >> /\ log \in Seq(Entries) /\ Len(log) = 0 /\ DOMAIN filled = {}
  BY NothingYet DEF EngineInit
<1>2. /\ run \in Runs /\ run.pc = "start" /\ run.actions = 0 /\ run.outcome = "none"
      /\ run.turn = 0 /\ run.invalid = 0 /\ run.reason = "none"
      /\ run.pc \in Looping
  <2>1. NoMemory \in Memories
    BY NothingYet DEF NoMemory, Memories
  <2>2. \A r \in RequiredSets : r \in SUBSET Places
    BY EngineAssumption DEF Places
  <2>3. PICK required \in RequiredSets :
            run = [pc |-> "start", required |-> required, turn |-> 0, actions |-> 0,
                   invalid |-> 0, previous |-> NoMemory, proposal |-> << >>,
                   verified |-> << >>, outcome |-> "none", reason |-> "none"]
    BY DEF EngineInit
  <2>4. << >> \in Seq(Proposals) /\ << >> \in Verified
    BY NothingYet
  <2>5. QED
    BY <2>1, <2>2, <2>3, <2>4 DEF Reasons, Runs, Looping
<1>3. EngineTyped
  BY <1>1, <1>2, NothingYet DEF EngineInit, EngineTyped, Shows, Absent
<1>4. SnapshotIsOfThisTurn
  <2>1. Absent.state = "ABSENT"
    BY DEF Absent, Element
  <2>2. QED
    BY <1>2, <2>1, NothingYet DEF EngineInit, SnapshotIsOfThisTurn
<1>5. LastIsRemembered /\ TurnsAreCounted /\ FillsWereExecuted
  BY <1>1, <1>2 DEF LastIsRemembered, TurnsAreCounted, FillsWereExecuted, TimedOut
<1>6. CompletionIsGrounded /\ DispatchesAreAccounted
  BY <1>1, <1>2, EngineAssumption DEF CompletionIsGrounded, DispatchesAreAccounted, TimedOut
<1>7. QED
  BY <1>2, <1>3, <1>4, <1>5, <1>6 DEF EngineInv

\* A step of the loop that dispatches nothing and completes nothing.
LEMMA TurnsOn ==
    ASSUME EngineInv, Steady, run.pc \in Looping, run' \in Runs,
           run'.pc \in Looping \cup {"done"},
           run'.actions = run.actions, run'.previous = run.previous,
           run'.outcome # "SUCCESS",
           run'.outcome # "none" => run'.pc = "done",
           run'.pc = "thinking" => DOMAIN snapshot = Targets,
           found # {} => run'.pc \in {"collecting", "done"},
           run'.reason # "DISCOVERY_TIMEOUT", run'.turn <= MaxTurns,
           Len(log) + run'.invalid <= run'.turn,
           run'.pc \in {"collecting", "thinking"} => Len(log) + run'.invalid < run'.turn
    PROVE  EngineInv'
<1> USE DEF EngineInv, Steady, Looping
<1>1. EngineTyped'
  BY DEF EngineTyped
<1>2. SnapshotIsOfThisTurn'
  BY DEF SnapshotIsOfThisTurn
<1>3. LastIsRemembered'
  BY DEF LastIsRemembered
<1>4. FillsWereExecuted' /\ TurnsAreCounted'
  BY DEF FillsWereExecuted, TurnsAreCounted, TimedOut
<1>5. CompletionIsGrounded' /\ DispatchesAreAccounted'
  BY DEF CompletionIsGrounded, DispatchesAreAccounted, LastIsRemembered, TimedOut
<1>6. QED
  BY <1>1, <1>2, <1>3, <1>4, <1>5

\* A failure is such a step.
LEMMA FailsInv ==
    ASSUME EngineInv, Steady, run.pc \in Looping, NEW reason \in Endings, Fail(reason)
    PROVE  EngineInv'
<1>1. /\ run \in Runs /\ run.turn <= MaxTurns /\ Len(log) + run.invalid <= run.turn
  BY DEF EngineInv, EngineTyped, DispatchesAreAccounted, TurnsAreCounted, Looping
<1>2. /\ run' \in Runs /\ run'.pc = "done" /\ run'.outcome = "FAILED"
      /\ run'.actions = run.actions /\ run'.previous = run.previous
      /\ run'.turn = run.turn /\ run'.invalid = run.invalid
      /\ run'.reason # "DISCOVERY_TIMEOUT"
  BY <1>1 DEF Fail, Ended, Runs, Reasons, Endings
<1>3. QED
  BY <1>1, <1>2, TurnsOn

\* So is an invalid answer: it uses up the turn it was given in.
LEMMA InvalidInv ==
    ASSUME EngineInv, Steady, run.pc = "thinking", NEW reason \in Endings, Invalid(reason)
    PROVE  EngineInv'
<1> DEFINE next == [run EXCEPT !.invalid = @ + 1]
<1>1. /\ run \in Runs /\ run.outcome = "none" /\ run.reason # "DISCOVERY_TIMEOUT"
      /\ run.turn \in Nat /\ run.invalid \in Nat /\ Len(log) \in Nat
  <2>1. log \in Seq(Entries)
    BY DEF EngineInv, EngineTyped
  <2>2. QED
    BY <2>1 DEF EngineInv, EngineTyped, TurnsAreCounted, TimedOut, Runs
<1>2. /\ next \in Runs /\ next.actions = run.actions /\ next.previous = run.previous
      /\ next.outcome = "none" /\ next.turn = run.turn /\ next.invalid = run.invalid + 1
      /\ next.reason = run.reason
  BY <1>1 DEF Runs
<1>3. \/ run' = Ended(next, "FAILED", reason)
      \/ run' = [next EXCEPT !.pc = "turn"]
  BY DEF Invalid
<1>4. /\ run' \in Runs /\ run'.pc \in {"turn", "done"} /\ run'.outcome # "SUCCESS"
      /\ run'.outcome # "none" => run'.pc = "done"
      /\ run'.actions = run.actions /\ run'.previous = run.previous
      /\ run'.turn = run.turn /\ run'.invalid = run.invalid + 1
      /\ run'.reason # "DISCOVERY_TIMEOUT"
  <2> HIDE DEF next
  <2>1. CASE run' = [next EXCEPT !.pc = "turn"]
    BY <1>1, <1>2, <2>1 DEF Runs
  <2>2. CASE run' = Ended(next, "FAILED", reason)
    BY <1>2, <2>2 DEF Ended, Runs, Reasons, Endings
  <2>3. QED
    BY <1>3, <2>1, <2>2
<1>5. found = {} /\ run'.turn <= MaxTurns /\ Len(log) + run'.invalid <= run'.turn
  <2>1. /\ found = {} /\ run.turn <= MaxTurns /\ Len(log) + run.invalid < run.turn
    BY DEF EngineInv, SnapshotIsOfThisTurn, TurnsAreCounted, DispatchesAreAccounted
  <2>2. QED
    BY <1>1, <1>4, <2>1
<1>6. QED
  BY <1>4, <1>5, TurnsOn DEF Looping

\* What the evidence of a completion cites is grounded in what was shown and executed.
LEMMA AttributedIsGrounded ==
    ASSUME EngineInv, run.pc = "thinking", NEW evidence \in Evidences, Grounded(evidence)
    PROVE  /\ Attributed(evidence) \in Verified
           /\ DOMAIN Attributed(evidence) = DOMAIN evidence
           /\ \E t \in DOMAIN evidence : Attributed(evidence)[t].text \in GoalTexts
           /\ \A t \in DOMAIN evidence :
                  /\ Attributed(evidence)[t].text \in shown[t]
                  /\ \A s \in Attributed(evidence)[t].sources :
                         \E i \in DOMAIN log :
                             /\ log[i].proposal = Fill(s, Attributed(evidence)[t].text)
                             /\ log[i].answer = "EXECUTED"
<1> DEFINE sources(t) == {s \in DOMAIN filled : filled[s] = evidence[t]}
<1>1. \A t \in DOMAIN evidence :
          t \in Targets /\ snapshot[t] = evidence[t] /\ evidence[t] \in Texts
  BY DEF Grounded
<1>2. \A t \in DOMAIN evidence :
          /\ Attributed(evidence)[t].text = evidence[t]
          /\ Attributed(evidence)[t].sources = sources(t)
  BY DEF Attributed
<1>3. \A t \in DOMAIN evidence : sources(t) \in SUBSET Places
  BY DEF EngineInv, FillsWereExecuted
<1>4. Attributed(evidence) \in [DOMAIN evidence -> [text : Texts, sources : SUBSET Places]]
  BY <1>1, <1>3 DEF Attributed
<1>5. \A t \in DOMAIN evidence : evidence[t] \in shown[t]
  <2>1. DOMAIN snapshot = Targets
    BY DEF EngineInv, SnapshotIsOfThisTurn
  <2>2. Unavailable \notin Texts /\ NotVisible \notin Texts
    BY EngineAssumption
  <2>3. QED
    BY <1>1, <2>1, <2>2 DEF EngineInv, SnapshotIsOfThisTurn
<1>6. \A t \in DOMAIN evidence : \A s \in sources(t) :
          \E i \in DOMAIN log :
              log[i].proposal = Fill(s, evidence[t]) /\ log[i].answer = "EXECUTED"
  BY DEF EngineInv, FillsWereExecuted
<1>7. \E t \in DOMAIN evidence : evidence[t] \in GoalTexts
  BY DEF Grounded
<1>8. DOMAIN evidence \subseteq Targets /\ DOMAIN Attributed(evidence) = DOMAIN evidence
  BY <1>1 DEF Attributed
<1>9. Attributed(evidence) \in Verified
  BY <1>4, <1>8 DEF Verified
<1>10. QED
  BY <1>2, <1>5, <1>6, <1>7, <1>8, <1>9

\* A completion is accepted on evidence that is grounded.
LEMMA CompletesInv ==
    ASSUME EngineInv, NEW evidence \in Evidences, Completes(evidence)
    PROVE  EngineInv'
<1>1. Steady /\ run.pc = "thinking" /\ run \in Runs /\ run.outcome = "none"
  BY DEF Completes, Thinking, EngineInv, EngineTyped, Runs
<1>2. CASE ~ (Grounded(evidence) /\ run.required \subseteq DOMAIN evidence)
  <2>1. Invalid("COMPLETION_NOT_GROUNDED") \/ Invalid("COMPLETION_EVIDENCE_MISSING")
    BY <1>2 DEF Completes
  <2>2. {"COMPLETION_NOT_GROUNDED", "COMPLETION_EVIDENCE_MISSING"}
            \subseteq Endings
    BY DEF Endings
  <2>3. QED
    BY <1>1, <2>1, <2>2, InvalidInv
<1>3. CASE Grounded(evidence) /\ run.required \subseteq DOMAIN evidence
  <2>1. run' = [Ended(run, "SUCCESS", "COMPLETED") EXCEPT !.verified = Attributed(evidence)]
    BY <1>3 DEF Completes
  <2>2. /\ run' \in Runs /\ run'.pc = "done" /\ run'.outcome = "SUCCESS"
        /\ run'.verified = Attributed(evidence) /\ run'.required = run.required
        /\ run'.actions = run.actions /\ run'.turn = run.turn /\ run'.invalid = run.invalid
        /\ run'.reason # "DISCOVERY_TIMEOUT"
    <3>1. Attributed(evidence) \in Verified
      BY <1>1, <1>3, AttributedIsGrounded
    <3> DEFINE r == Ended(run, "SUCCESS", "COMPLETED")
    <3>2. /\ r \in Runs /\ r.pc = "done" /\ r.outcome = "SUCCESS" /\ r.required = run.required
          /\ r.actions = run.actions /\ r.turn = run.turn /\ r.invalid = run.invalid
          /\ r.reason = "COMPLETED"
      BY <1>1 DEF Ended, Runs, Reasons, Endings
    <3>3. run' = [r EXCEPT !.verified = Attributed(evidence)]
      BY <2>1
    <3> HIDE DEF r
    <3>4. QED
      BY <3>1, <3>2, <3>3 DEF Runs
  <2>3. CompletionIsGrounded'
    BY <1>1, <1>3, <2>2, AttributedIsGrounded DEF CompletionIsGrounded, Steady
  <2>4. EngineTyped' /\ SnapshotIsOfThisTurn'
    BY <1>1, <2>2 DEF EngineInv, EngineTyped, SnapshotIsOfThisTurn, Steady
  <2>5. LastIsRemembered' /\ TurnsAreCounted' /\ FillsWereExecuted'
    BY <1>1, <2>2 DEF EngineInv, LastIsRemembered, TurnsAreCounted, FillsWereExecuted, Steady,
                      Looping
  <2>6. DispatchesAreAccounted'
    BY <1>1, <2>2 DEF EngineInv, DispatchesAreAccounted, LastIsRemembered, TurnsAreCounted,
                      TimedOut, Steady, Looping
  <2>7. QED
    BY <2>2, <2>3, <2>4, <2>5, <2>6 DEF EngineInv
<1>4. QED
  BY <1>2, <1>3

\* A dispatch differs from the last one, or is made on another snapshot.
LEMMA ProposesInv ==
    ASSUME EngineInv, NEW p \in Proposals, Proposes(p)
    PROVE  EngineInv'
<1>1. run.pc = "thinking" /\ run \in Runs /\ run.outcome = "none" /\ run.pc \in Looping
  BY DEF Proposes, EngineInv, EngineTyped, Runs, Looping
<1> DEFINE n == Len(log)
           e == [proposal |-> p, snapshot |-> snapshot, answer |-> "none"]
           Dispatched ==
               /\ run' = [run EXCEPT !.pc = "acting", !.proposal = <<p>>]
               /\ log' = Append(log, e)
               /\ run.previous # [proposal |-> <<p>>, snapshot |-> snapshot]
               /\ ~ run.actions >= MaxActions
               /\ UNCHANGED <<page, changes, shown, found, snapshot, filled>>
<1>2. CASE ~ Dispatched
  <2>1. /\ Invalid("UNKNOWN_TARGET") \/ Fail("ACTION_LIMIT_REACHED") \/ Fail("NO_PROGRESS")
        /\ Steady
    BY <1>2 DEF Proposes, Steady
  <2>2. {"UNKNOWN_TARGET", "ACTION_LIMIT_REACHED", "NO_PROGRESS"}
            \subseteq Endings
    BY DEF Endings
  <2>3. QED
    BY <1>1, <2>1, <2>2, FailsInv, InvalidInv
<1>3. CASE Dispatched
  <2>1. /\ run' = [run EXCEPT !.pc = "acting", !.proposal = <<p>>]
        /\ log' = Append(log, e)
        /\ run.previous # [proposal |-> <<p>>, snapshot |-> snapshot]
        /\ ~ run.actions >= MaxActions
        /\ UNCHANGED <<page, changes, shown, found, snapshot, filled>>
    BY <1>3
  <2>2. /\ run' \in Runs /\ run'.pc = "acting" /\ run'.outcome = "none"
        /\ run'.proposal = <<p>> /\ run'.actions = run.actions
        /\ run'.turn = run.turn /\ run'.invalid = run.invalid /\ run'.reason = run.reason
    <3>1. <<p>> \in Seq(Proposals)
      OBVIOUS
    <3>2. QED
      BY <1>1, <2>1, <3>1 DEF Runs
  <2>3. log \in Seq(Entries) /\ e \in Entries /\ snapshot \in Snapshots
    BY DEF EngineInv, EngineTyped, Entries
  <2>4. /\ n \in Nat /\ Len(log') = n + 1 /\ log' \in Seq(Entries)
        /\ log'[n + 1] = e /\ \A i \in 1 .. n : log'[i] = log[i]
        /\ DOMAIN log = 1 .. n /\ DOMAIN log' = 1 .. n + 1
    BY <2>1, <2>3
  <2>5. EngineTyped' /\ SnapshotIsOfThisTurn'
    BY <1>1, <2>1, <2>2, <2>4 DEF EngineInv, EngineTyped, SnapshotIsOfThisTurn
  <2>6. /\ \A i \in 1 .. n : log[i].answer = "EXECUTED"
        /\ n > 0 => run.previous = [proposal |-> <<log[n].proposal>>, snapshot |-> log[n].snapshot]
        /\ run.actions = n
    BY <1>1 DEF EngineInv, LastIsRemembered
  <2>7. LastIsRemembered'
    BY <2>1, <2>2, <2>4, <2>6 DEF LastIsRemembered, Looping
  <2>8. FillsWereExecuted' /\ TurnsAreCounted'
    BY <1>1, <2>1, <2>2, <2>4 DEF EngineInv, FillsWereExecuted, TurnsAreCounted, TimedOut
  <2>9. n > 0 => ~ (log[n].proposal = p /\ log[n].snapshot = snapshot)
    BY <2>1, <2>6
  <2>10. DispatchesAreAccounted'
    <3>1. \A i \in 1 .. n - 1 :
              log[i].proposal = log[i + 1].proposal => log[i].snapshot # log[i + 1].snapshot
      BY DEF EngineInv, DispatchesAreAccounted
    <3>2. ASSUME NEW i \in 1 .. n
          PROVE  /\ log'[i].answer = "EXECUTED"
                 /\ log'[i].proposal = log'[i + 1].proposal
                        => log'[i].snapshot # log'[i + 1].snapshot
      <4>1. log'[i] = log[i] /\ log[i].answer = "EXECUTED"
        BY <2>4, <2>6
      <4>2. CASE i = n
        BY <2>4, <2>9, <4>1, <4>2
      <4>3. CASE i \in 1 .. n - 1
        <5>1. log'[i + 1] = log[i + 1]
          BY <2>4, <4>3
        <5>2. QED
          BY <3>1, <4>1, <4>3, <5>1
      <4>4. i = n \/ i \in 1 .. n - 1
        <5>1. n \in Nat
          BY <2>4
        <5>2. QED
          BY <5>1
      <4>5. QED
        BY <4>2, <4>3, <4>4
    <3>3. 1 .. Len(log') - 1 = 1 .. n
      BY <2>4
    <3>4. /\ n + 1 <= MaxActions /\ run.turn <= MaxTurns /\ n + 1 + run.invalid <= run.turn
      <4>1. n \in Nat /\ run.turn \in Nat /\ run.invalid \in Nat /\ MaxActions \in Nat
        BY <1>1, <2>4, EngineAssumption DEF Runs
      <4>2. n < MaxActions
        BY <2>1, <2>6, <4>1
      <4>3. run.turn <= MaxTurns /\ n + run.invalid < run.turn
        BY <1>1 DEF EngineInv, DispatchesAreAccounted, TurnsAreCounted
      <4>4. QED
        BY <4>1, <4>2, <4>3
    <3>5. QED
      BY <2>2, <2>4, <3>2, <3>3, <3>4 DEF DispatchesAreAccounted
  <2>11. CompletionIsGrounded'
    BY <2>2 DEF CompletionIsGrounded
  <2>12. QED
    BY <2>2, <2>5, <2>7, <2>8, <2>10, <2>11 DEF EngineInv
<1>4. QED
  BY <1>2, <1>3

\* The gateway's answer completes the log's last entry.
LEMMA AnsweredLog ==
    ASSUME EngineInv, NEW answer \in {"EXECUTED", "DENIED", "APPROVAL_REQUIRED", "UNCERTAIN",
                                      "FAILED"},
           Answered(answer)
    PROVE  /\ run \in Runs /\ run.outcome = "none"
           /\ Len(log) \in Nat \ {0} /\ DOMAIN log = 1 .. Len(log)
           /\ run.actions = Len(log) - 1
           /\ run.proposal = <<log[Len(log)].proposal>> /\ log[Len(log)].snapshot = snapshot
           /\ log' \in Seq(Entries) /\ Len(log') = Len(log) /\ DOMAIN log' = DOMAIN log
           /\ \A i \in 1 .. Len(log) : log'[i].proposal = log[i].proposal
                                       /\ log'[i].snapshot = log[i].snapshot
           /\ \A i \in 1 .. Len(log) - 1 : log'[i].answer = "EXECUTED"
           /\ log'[Len(log)].answer = answer
           /\ \A i \in DOMAIN log : log[i].answer = "EXECUTED" => log'[i] = log[i]
           /\ found = {} /\ ~ TimedOut
<1> DEFINE n == Len(log)
<1>1. /\ run.pc = "acting" /\ run \in Runs /\ log \in Seq(Entries)
      /\ log' = [log EXCEPT ![n].answer = answer]
  BY DEF Answered, EngineInv, EngineTyped
<1>2. /\ n \in Nat /\ n > 0 /\ DOMAIN log = 1 .. n /\ log[n] \in Entries
      /\ run.proposal = <<log[n].proposal>> /\ log[n].snapshot = snapshot
      /\ log[n].answer = "none" /\ run.actions = n - 1
  BY <1>1 DEF EngineInv, LastIsRemembered
<1>3. [log[n] EXCEPT !.answer = answer] \in Entries
  BY <1>2 DEF Entries
<1>4. /\ log' \in Seq(Entries) /\ Len(log') = n /\ DOMAIN log' = 1 .. n
      /\ log'[n] = [log[n] EXCEPT !.answer = answer]
      /\ \A i \in 1 .. n - 1 : log'[i] = log[i]
  BY <1>1, <1>2, <1>3
<1>5. /\ log'[n].proposal = log[n].proposal /\ log'[n].snapshot = log[n].snapshot
      /\ log'[n].answer = answer
  BY <1>2, <1>4 DEF Entries
<1>6. \A i \in 1 .. n - 1 : log[i].answer = "EXECUTED"
  BY DEF EngineInv, DispatchesAreAccounted
<1>7. run.outcome = "none"
  BY <1>1 DEF EngineInv, Runs
<1>8. found = {} /\ ~ TimedOut
  BY <1>1 DEF EngineInv, SnapshotIsOfThisTurn, TurnsAreCounted
<1>9. QED
  BY <1>1, <1>2, <1>4, <1>5, <1>6, <1>7, <1>8

\* What was dispatched keeps to the limits while the loop is at work.
LEMMA Accounted ==
    ASSUME EngineInv, run.pc # "done"
    PROVE  /\ Len(log) <= MaxActions /\ run.turn <= MaxTurns
           /\ Len(log) + run.invalid <= run.turn
BY DEF EngineInv, TurnsAreCounted, DispatchesAreAccounted

\* After an answer the action is counted, and remembered with its snapshot.
LEMMA ActedTyped ==
    ASSUME EngineInv, run.actions + 1 \in Nat
    PROVE  /\ Acted \in Runs /\ Acted.actions = run.actions + 1 /\ Acted.outcome = run.outcome
           /\ Acted.previous = [proposal |-> run.proposal, snapshot |-> snapshot]
           /\ Acted.turn = run.turn /\ Acted.invalid = run.invalid /\ Acted.reason = run.reason
<1>1. run \in Runs /\ << >> \in Seq(Proposals)
  BY DEF EngineInv, EngineTyped
<1>2. [proposal |-> run.proposal, snapshot |-> snapshot] \in Memories
  BY DEF EngineInv, EngineTyped, Runs, Memories
<1>3. QED
  BY <1>1, <1>2 DEF Acted, Runs

\* A dispatch that was executed is remembered; the loop goes on.
LEMMA ExecutedInv ==
    ASSUME EngineInv, Executed
    PROVE  EngineInv'
<1> DEFINE n == Len(log)
           p == log[n].proposal
<1>1. Answered("EXECUTED") /\ UNCHANGED <<page, changes, shown, found, snapshot>>
  BY DEF Executed, Answered
<1>2. /\ n \in Nat \ {0} /\ DOMAIN log = 1 .. n /\ n \in DOMAIN log
      /\ Proposed = p /\ run.proposal = <<p>> /\ log[n].snapshot = snapshot
      /\ log'[n].proposal = p /\ log'[n].snapshot = snapshot
      /\ Len(log') = n /\ DOMAIN log' = DOMAIN log /\ log' \in Seq(Entries)
      /\ p \in Proposals /\ run.actions = n - 1
      /\ \A i \in 1 .. n : log'[i].answer = "EXECUTED"
      /\ \A i \in DOMAIN log : log[i].answer = "EXECUTED" => log'[i] = log[i]
  <2>1. p \in Proposals
    <3>1. n \in DOMAIN log /\ log \in Seq(Entries)
      BY <1>1, AnsweredLog DEF EngineInv, EngineTyped
    <3>2. log[n] \in Entries
      BY <3>1
    <3>3. QED
      BY <3>2 DEF Entries
  <2>2. QED
    BY <1>1, <2>1, AnsweredLog DEF Proposed
<1>3. /\ run' \in Runs /\ run'.pc = "turn" /\ run'.outcome = "none" /\ run'.actions = n
      /\ run'.turn = run.turn /\ run'.invalid = run.invalid /\ run'.reason = run.reason
      /\ run'.previous = [proposal |-> <<p>>, snapshot |-> snapshot]
  <2>1. run \in Runs /\ run.outcome = "none"
    BY <1>1, AnsweredLog
  <2>2. run' = [Acted EXCEPT !.pc = "turn"]
    BY DEF Executed
  <2>3. /\ Acted \in Runs /\ Acted.actions = n /\ Acted.outcome = "none"
        /\ Acted.turn = run.turn /\ Acted.invalid = run.invalid /\ Acted.reason = run.reason
        /\ Acted.previous = [proposal |-> <<p>>, snapshot |-> snapshot]
    BY <1>2, <2>1, ActedTyped
  <2>4. QED
    BY <2>2, <2>3 DEF Runs
<1>4. EngineTyped' /\ SnapshotIsOfThisTurn'
  BY <1>1, <1>2, <1>3, AnsweredLog DEF EngineInv, EngineTyped, SnapshotIsOfThisTurn
<1>5. LastIsRemembered' /\ TurnsAreCounted'
  BY <1>1, <1>2, <1>3, AnsweredLog DEF LastIsRemembered, TurnsAreCounted, TimedOut, Looping
<1>6. FillsWereExecuted'
  <2>1. CASE p.kind # "fill"
    BY <1>2, <2>1 DEF EngineInv, FillsWereExecuted, Executed
  <2>2. CASE p.kind = "fill"
    <3>1. filled' = With(filled, p.target, p.value)
      BY <1>2, <2>2 DEF Executed
    <3>2. p = Fill(p.target, p.value) /\ p.target \in Places
      BY <1>2, <2>2 DEF Proposals, Fill, Click, Places
    <3>3. /\ DOMAIN filled' = DOMAIN filled \cup {p.target}
          /\ \A s \in DOMAIN filled' : filled'[s] = IF s = p.target THEN p.value ELSE filled[s]
      BY <3>1 DEF With
    <3>4. log'[n].proposal = Fill(p.target, p.value) /\ log'[n].answer = "EXECUTED"
      BY <1>2, <3>2
    <3>5. \A s \in DOMAIN filled : \E i \in DOMAIN log' :
              log'[i].proposal = Fill(s, filled[s]) /\ log'[i].answer = "EXECUTED"
      BY <1>2 DEF EngineInv, FillsWereExecuted
    <3>6. DOMAIN filled' \subseteq Places
      BY <3>2, <3>3 DEF EngineInv, FillsWereExecuted
    <3>7. QED
      BY <1>2, <3>3, <3>4, <3>5, <3>6 DEF FillsWereExecuted
  <2>3. QED
    BY <2>1, <2>2
<1>7. CompletionIsGrounded'
  BY <1>3 DEF CompletionIsGrounded
<1>8. DispatchesAreAccounted'
  <2>1. /\ \A i \in 1 .. n - 1 :
               log[i].proposal = log[i + 1].proposal => log[i].snapshot # log[i + 1].snapshot
        /\ run.pc = "acting"
    BY <1>1 DEF EngineInv, DispatchesAreAccounted, Answered
  <2>2. \A i \in 1 .. n : log'[i].proposal = log[i].proposal /\ log'[i].snapshot = log[i].snapshot
    BY <1>1, AnsweredLog
  <2>3. /\ n <= MaxActions /\ run.turn <= MaxTurns /\ n + run.invalid <= run.turn
    BY <2>1, Accounted
  <2>4. Len(log') = n /\ \A i \in 1 .. n - 1 : i \in 1 .. n /\ i + 1 \in 1 .. n
    BY <1>2
  <2>5. QED
    BY <1>2, <1>3, <2>1, <2>2, <2>3, <2>4 DEF DispatchesAreAccounted
<1>9. QED
  BY <1>3, <1>4, <1>5, <1>6, <1>7, <1>8 DEF EngineInv

\* A dispatch that was not ends the discovery, and is counted.
LEMMA RefusedInv ==
    ASSUME EngineInv, NEW answer \in {"DENIED", "APPROVAL_REQUIRED", "UNCERTAIN", "FAILED"},
           NEW outcome \in {"FAILED", "INTERVENTION_REQUIRED"}, NEW reason \in Endings,
           Refused(answer, outcome, reason)
    PROVE  EngineInv'
<1> DEFINE n == Len(log)
<1>1. Answered(answer) /\ UNCHANGED <<page, changes, shown, found, snapshot, filled>>
  BY DEF Refused, Answered
<1>2. /\ n \in Nat \ {0} /\ run.actions = n - 1 /\ run \in Runs /\ run.outcome = "none"
      /\ Len(log') = n /\ DOMAIN log' = DOMAIN log /\ log' \in Seq(Entries)
      /\ \A i \in 1 .. n : log'[i].proposal = log[i].proposal /\ log'[i].snapshot = log[i].snapshot
      /\ \A i \in 1 .. n - 1 : log'[i].answer = "EXECUTED"
      /\ \A i \in DOMAIN log : log[i].answer = "EXECUTED" => log'[i] = log[i]
      /\ run.proposal \in Seq(Proposals)
  <2>1. run.proposal \in Seq(Proposals)
    BY DEF EngineInv, EngineTyped, Runs
  <2>2. QED
    BY <1>1, <2>1, AnsweredLog
<1>3. /\ run' \in Runs /\ run'.pc = "done" /\ run'.outcome = outcome /\ run'.actions = n
      /\ run'.turn = run.turn /\ run'.invalid = run.invalid /\ run'.reason = reason
  <2>1. run' = Ended(Acted, outcome, reason)
    BY DEF Refused
  <2>2. Acted \in Runs /\ Acted.actions = n /\ Acted.turn = run.turn /\ Acted.invalid = run.invalid
    BY <1>2, ActedTyped
  <2>3. QED
    BY <2>1, <2>2 DEF Ended, Runs, Reasons, Endings
<1>4. EngineTyped' /\ SnapshotIsOfThisTurn'
  BY <1>1, <1>2, <1>3 DEF EngineInv, EngineTyped, SnapshotIsOfThisTurn
<1>5. LastIsRemembered' /\ TurnsAreCounted'
  BY <1>3 DEF LastIsRemembered, TurnsAreCounted, Looping
<1>6. FillsWereExecuted'
  BY <1>1, <1>2 DEF EngineInv, FillsWereExecuted
<1>7. CompletionIsGrounded'
  BY <1>3 DEF CompletionIsGrounded
<1>8. DispatchesAreAccounted'
  <2>1. \A i \in 1 .. n - 1 :
            log[i].proposal = log[i + 1].proposal => log[i].snapshot # log[i + 1].snapshot
    BY DEF EngineInv, DispatchesAreAccounted
  <2>2. run.pc = "acting"
    BY <1>1 DEF Answered
  <2>3. QED
    BY <1>2, <1>3, <2>1, <2>2, Accounted DEF DispatchesAreAccounted
<1>9. QED
  BY <1>3, <1>4, <1>5, <1>6, <1>7, <1>8 DEF EngineInv

\* A page change exposes more; what was exposed before stays so.
LEMMA PageChangesInv ==
    ASSUME EngineInv, NEW t \in Targets, NEW show \in Shows, PageChanges(t, show)
    PROVE  EngineInv'
<1>1. /\ page' = [page EXCEPT ![t] = show]
      /\ shown' = [shown EXCEPT ![t] = Exposed(@, show)]
      /\ UNCHANGED <<found, snapshot, filled, log, run>>
  BY DEF PageChanges
<1>2. /\ shown \in [Targets -> SUBSET (Texts \cup {NoText})] /\ page \in [Targets -> Shows]
      /\ show.text \in Texts \cup {NoText}
  BY DEF EngineInv, EngineTyped, Shows, Absent, Element
<1>3. /\ page' \in [Targets -> Shows] /\ shown' \in [Targets -> SUBSET (Texts \cup {NoText})]
      /\ \A s \in Targets : shown[s] \subseteq shown'[s]
      /\ shown'[t] = Exposed(shown[t], show) /\ page'[t] = show
      /\ \A s \in Targets \ {t} : shown'[s] = shown[s] /\ page'[s] = page[s]
  BY <1>1, <1>2 DEF Exposed
<1>4. EngineTyped'
  BY <1>1, <1>3 DEF EngineInv, EngineTyped
<1>5. DOMAIN snapshot \subseteq Targets /\ DOMAIN run.verified \subseteq Targets
  BY DEF EngineInv, EngineTyped, Snapshots, Runs, Verified
<1>6. SnapshotIsOfThisTurn'
  <2>1. ASSUME NEW s \in Targets,
               \/ page'[s].state = "VISIBLE"
               \/ page'[s].state = "HIDDEN" /\ shown'[s] # {}
        PROVE  page'[s].text \in shown'[s]
    <3>1. CASE s = t
      BY <1>3, <2>1, <3>1 DEF Exposed
    <3>2. CASE s # t
      BY <1>3, <2>1, <3>2 DEF EngineInv, SnapshotIsOfThisTurn
    <3>3. QED
      BY <3>1, <3>2
  <2>2. \A s \in found' : shown'[s] # {} /\ s \notin DOMAIN snapshot'
    BY <1>1, <1>3 DEF EngineInv, EngineTyped, SnapshotIsOfThisTurn
  <2>3. \A s \in DOMAIN snapshot' : snapshot'[s] \in shown'[s] \cup {NotVisible, Unavailable}
    BY <1>1, <1>3, <1>5 DEF EngineInv, SnapshotIsOfThisTurn
  <2>4. QED
    BY <1>1, <2>1, <2>2, <2>3 DEF EngineInv, SnapshotIsOfThisTurn
<1>7. CompletionIsGrounded'
  BY <1>1, <1>3, <1>5 DEF EngineInv, CompletionIsGrounded
<1>8. LastIsRemembered' /\ TurnsAreCounted' /\ FillsWereExecuted' /\ DispatchesAreAccounted'
  BY <1>1 DEF EngineInv, LastIsRemembered, TurnsAreCounted, FillsWereExecuted,
              DispatchesAreAccounted, TimedOut
<1>9. QED
  BY <1>1, <1>4, <1>6, <1>7, <1>8 DEF EngineInv

\* A turn begins with an empty snapshot, and with what the page shows now; it uses up a turn.
LEMMA StartTurnInv ==
    ASSUME EngineInv, StartTurn
    PROVE  EngineInv'
<1>1. run.pc = "turn" /\ run \in Runs /\ run.outcome = "none" /\ run.pc \in Looping
  BY DEF StartTurn, EngineInv, EngineTyped, Looping
<1> /\ run.turn \in Nat /\ run.invalid \in Nat /\ Len(log) \in Nat /\ MaxTurns \in Nat
    /\ run.turn <= MaxTurns /\ Len(log) + run.invalid <= run.turn /\ ~ TimedOut /\ found = {}
  <2>1. log \in Seq(Entries)
    BY DEF EngineInv, EngineTyped
  <2>2. QED
    BY <1>1, <2>1, EngineAssumption
       DEF EngineInv, Runs, TurnsAreCounted, DispatchesAreAccounted, SnapshotIsOfThisTurn
<1>2. CASE run.turn = MaxTurns
  <2>1. Fail("TURN_LIMIT_REACHED") /\ Steady
    BY <1>2 DEF StartTurn
  <2>2. "TURN_LIMIT_REACHED" \in Endings
    BY DEF Endings
  <2>3. QED
    BY <1>1, <2>1, <2>2, FailsInv
<1>3. CASE run.turn # MaxTurns
  <2>1. /\ run' = [run EXCEPT !.pc = "collecting", !.turn = @ + 1]
        /\ snapshot' = [t \in DOMAIN snapshot \ Outdated |-> snapshot[t]]
        /\ shown' = [t \in Targets |-> Exposed({}, page[t])]
        /\ UNCHANGED <<page, changes, found, filled, log>>
    BY <1>3 DEF StartTurn
  <2>2. /\ run' \in Runs /\ run'.pc = "collecting" /\ run'.outcome = "none"
        /\ run'.actions = run.actions /\ run'.previous = run.previous
        /\ run'.turn = run.turn + 1 /\ run'.invalid = run.invalid /\ run'.reason = run.reason
    <3>1. run.turn + 1 \in Nat
      OBVIOUS
    <3> DEFINE r == [run EXCEPT !.pc = "collecting"]
    <3>2. /\ r \in Runs /\ r.pc = "collecting" /\ r.outcome = "none" /\ r.turn = run.turn
          /\ r.actions = run.actions /\ r.previous = run.previous
          /\ r.invalid = run.invalid /\ r.reason = run.reason
      BY <1>1 DEF Runs
    <3>3. run' = [r EXCEPT !.turn = run.turn + 1]
      BY <1>1, <2>1 DEF Runs
    <3> HIDE DEF r
    <3>4. QED
      BY <3>1, <3>2, <3>3 DEF Runs
  <2>3. DOMAIN snapshot' = {} /\ snapshot' \in [{} -> Observations]
    BY <2>1 DEF Outdated
  <2>4. snapshot' \in Snapshots
    BY <2>3 DEF Snapshots
  <2>5. EngineTyped'
    <3>1. \A t \in Targets : page[t].text \in Texts \cup {NoText}
      BY DEF EngineInv, EngineTyped, Shows, Absent, Element
    <3>2. shown' \in [Targets -> SUBSET (Texts \cup {NoText})]
      BY <2>1, <3>1 DEF Exposed
    <3>3. QED
      BY <2>1, <2>2, <2>4, <3>2 DEF EngineInv, EngineTyped
  <2>6. SnapshotIsOfThisTurn'
    BY <2>1, <2>2, <2>3 DEF SnapshotIsOfThisTurn, Exposed
  <2>7. LastIsRemembered' /\ TurnsAreCounted' /\ FillsWereExecuted'
    BY <1>1, <2>1, <2>2
       DEF EngineInv, LastIsRemembered, TurnsAreCounted, TimedOut, FillsWereExecuted
  <2>8. CompletionIsGrounded'
    BY <2>2 DEF CompletionIsGrounded
  <2>9. DispatchesAreAccounted'
    <3>1. run'.turn = run.turn + 1 /\ run'.invalid = run.invalid
      BY <2>2
    <3>2. run.turn < MaxTurns
      BY <1>3
    <3>3. run'.turn <= MaxTurns /\ Len(log) + run'.invalid <= run'.turn
      BY <3>1, <3>2
    <3>4. QED
      BY <2>1, <2>2, <3>3 DEF EngineInv, DispatchesAreAccounted
  <2>10. QED
    BY <2>2, <2>5, <2>6, <2>7, <2>8, <2>9 DEF EngineInv
<1>4. QED
  BY <1>2, <1>3

\* An observation of what its target has had in this turn keeps the snapshot of this turn.
LEMMA ObservedInv ==
    ASSUME EngineInv, Collecting, NEW t \in Targets, NEW seen,
           seen \in shown[t] \cup {NotVisible, Unavailable},
           snapshot' = With(snapshot, t, seen), found' = {}
    PROVE  EngineInv'
<1>1. /\ run.pc = "collecting" /\ UNCHANGED <<page, changes, shown, filled, log, run>>
      /\ run.outcome = "none"
  BY DEF Collecting, EngineInv
<1>2. /\ DOMAIN snapshot' = DOMAIN snapshot \cup {t}
      /\ \A k \in DOMAIN snapshot' : snapshot'[k] = IF k = t THEN seen ELSE snapshot[k]
      /\ snapshot' = [k \in DOMAIN snapshot' |-> snapshot'[k]]
  BY DEF With
<1>3. seen \in Observations
  BY DEF EngineInv, EngineTyped, Observations
<1>4. snapshot' \in Snapshots
  <2>1. /\ DOMAIN snapshot \subseteq Targets
        /\ \A k \in DOMAIN snapshot : snapshot[k] \in Observations
    BY DEF EngineInv, EngineTyped, Snapshots
  <2>2. DOMAIN snapshot' \in SUBSET Targets
    BY <1>2, <2>1
  <2>3. snapshot' \in [DOMAIN snapshot' -> Observations]
    BY <1>2, <1>3, <2>1
  <2>4. QED
    BY <2>2, <2>3 DEF Snapshots
<1>5. EngineTyped'
  BY <1>1, <1>4 DEF EngineInv, EngineTyped
<1>6. SnapshotIsOfThisTurn'
  BY <1>1, <1>2 DEF EngineInv, SnapshotIsOfThisTurn
<1>7. LastIsRemembered' /\ TurnsAreCounted' /\ FillsWereExecuted' /\ CompletionIsGrounded'
  BY <1>1 DEF EngineInv, LastIsRemembered, TurnsAreCounted, TimedOut, FillsWereExecuted,
              CompletionIsGrounded
<1>8. DispatchesAreAccounted'
  BY <1>1 DEF EngineInv, DispatchesAreAccounted, TimedOut
<1>9. QED
  BY <1>1, <1>5, <1>6, <1>7, <1>8 DEF EngineInv

\* A target found visible is one whose text now counts; else it is not visible or unavailable.
LEMMA InspectInv ==
    ASSUME EngineInv, NEW t \in Targets, Inspect(t)
    PROVE  EngineInv'
<1>1. Collecting /\ found = {} /\ t \notin DOMAIN snapshot
  BY DEF Inspect
<1>2. CASE page[t].state = "VISIBLE" /\ found' = {t} /\ UNCHANGED snapshot
  <2>1. /\ run.pc = "collecting" /\ UNCHANGED <<page, changes, shown, snapshot, filled, log, run>>
        /\ run.outcome = "none"
    BY <1>1, <1>2 DEF Collecting, EngineInv
  <2>2. EngineTyped'
    BY <1>2, <2>1 DEF EngineInv, EngineTyped
  <2>3. SnapshotIsOfThisTurn'
    BY <1>1, <1>2, <2>1 DEF EngineInv, SnapshotIsOfThisTurn
  <2>4. LastIsRemembered' /\ TurnsAreCounted' /\ FillsWereExecuted' /\ CompletionIsGrounded'
    BY <2>1 DEF EngineInv, LastIsRemembered, TurnsAreCounted, TimedOut, FillsWereExecuted,
                CompletionIsGrounded
  <2>5. DispatchesAreAccounted'
    BY <2>1 DEF EngineInv, DispatchesAreAccounted, TimedOut
  <2>6. QED
    BY <2>1, <2>2, <2>3, <2>4, <2>5 DEF EngineInv
<1>3. CASE /\ UNCHANGED found
           /\ \/ snapshot' = With(snapshot, t, NotVisible)
              \/ snapshot' = With(snapshot, t, Unavailable)
  BY <1>1, <1>3, ObservedInv
<1>4. QED
  BY <1>2, <1>3 DEF Inspect

\* The text that is read is one the target has had since it was found visible.
LEMMA ReadTextInv ==
    ASSUME EngineInv, NEW t \in Targets, ReadText(t)
    PROVE  EngineInv'
<1>1. Collecting /\ t \in found /\ found' = {}
  BY DEF ReadText
<1>2. CASE page[t].state \in {"VISIBLE", "HIDDEN"} /\ snapshot' = With(snapshot, t, page[t].text)
  <2>1. page[t].text \in shown[t]
    BY <1>1, <1>2 DEF EngineInv, SnapshotIsOfThisTurn
  <2>2. QED
    BY <1>1, <1>2, <2>1, ObservedInv
<1>3. CASE snapshot' = With(snapshot, t, Unavailable)
  BY <1>1, <1>3, ObservedInv
<1>4. QED
  BY <1>2, <1>3 DEF ReadText

\* The time limit ends the discovery wherever it is, and reports nothing done.
LEMMA TimesOutInv ==
    ASSUME EngineInv, TimesOut
    PROVE  EngineInv'
<1>1. Steady /\ run \in Runs
  BY DEF TimesOut, EngineInv, EngineTyped
<1>2. /\ run' \in Runs /\ run'.pc = "done" /\ run'.outcome = "FAILED"
      /\ run'.reason = "DISCOVERY_TIMEOUT"
  <2> DEFINE r == [run EXCEPT !.turn = 0, !.actions = 0]
  <2>1. r \in Runs
    BY <1>1 DEF Runs
  <2>2. run' = Ended(r, "FAILED", "DISCOVERY_TIMEOUT")
    BY DEF TimesOut
  <2> HIDE DEF r
  <2>3. QED
    BY <2>1, <2>2 DEF Ended, Runs, Reasons, Endings
<1>3. EngineTyped' /\ SnapshotIsOfThisTurn'
  BY <1>1, <1>2 DEF EngineInv, EngineTyped, SnapshotIsOfThisTurn, Steady
<1>4. LastIsRemembered' /\ TurnsAreCounted' /\ FillsWereExecuted' /\ CompletionIsGrounded'
  BY <1>1, <1>2 DEF EngineInv, LastIsRemembered, TurnsAreCounted, FillsWereExecuted,
                    CompletionIsGrounded, Steady, Looping
<1>5. DispatchesAreAccounted'
  BY <1>1, <1>2 DEF EngineInv, DispatchesAreAccounted, TimedOut, Steady
<1>6. QED
  BY <1>2, <1>3, <1>4, <1>5 DEF EngineInv

\* The loop starts, collects, and ends without a completion.
LEMMA LoopInv ==
    ASSUME EngineInv,
           \/ Start \/ Collected \/ ModelFails \/ Unparsable \/ DeclaresFailure
           \/ AsksForHelp \/ EvidenceRaises
    PROVE  EngineInv'
<1>1. /\ run.pc \in Looping /\ Steady /\ run \in Runs /\ run.outcome = "none"
      /\ run.reason # "DISCOVERY_TIMEOUT" /\ run.turn <= MaxTurns
      /\ Len(log) + run.invalid <= run.turn
      /\ found # {} => run.pc = "collecting"
  <2>1. run.pc \in Looping /\ Steady
    BY DEF Start, Collected, ModelFails, Unparsable, DeclaresFailure, AsksForHelp,
           EvidenceRaises, Thinking, Looping
  <2>2. QED
    BY <2>1 DEF EngineInv, EngineTyped, TurnsAreCounted, DispatchesAreAccounted, TimedOut,
                SnapshotIsOfThisTurn, Looping
<1>2. CASE \/ Start /\ ~ (run.required \subseteq Targets)
           \/ ModelFails \/ Unparsable \/ DeclaresFailure
  <2>1. \/ \E reason \in {"REQUIRED_COMPLETION_TARGET_UNKNOWN", "MODEL_ERROR",
                           "MODEL_DECLARED_FAILURE"} : Fail(reason)
        \/ run.pc = "thinking" /\ Invalid("MODEL_INVALID_RESPONSE")
    BY <1>2 DEF Start, ModelFails, Unparsable, DeclaresFailure, Thinking
  <2>2. QED
    BY <1>1, <2>1, FailsInv, InvalidInv DEF Endings
<1>3. CASE Start /\ run.required \subseteq Targets
  <2>1. run' = [run EXCEPT !.pc = "turn"] /\ run.pc = "start"
    BY <1>3 DEF Start
  <2>2. /\ run' \in Runs /\ run'.pc = "turn" /\ run'.outcome = "none"
        /\ run'.actions = run.actions /\ run'.previous = run.previous
        /\ run'.turn = run.turn /\ run'.invalid = run.invalid /\ run'.reason = run.reason
    BY <1>1, <2>1 DEF Runs
  <2>3. QED
    BY <1>1, <2>1, <2>2, TurnsOn DEF Looping
<1>4. CASE Collected
  <2>1. /\ run' = [run EXCEPT !.pc = "thinking"] /\ DOMAIN snapshot = Targets /\ found = {}
        /\ Len(log) + run.invalid < run.turn
    BY <1>4 DEF Collected, EngineInv, EngineTyped, SnapshotIsOfThisTurn, TurnsAreCounted
  <2>2. /\ run' \in Runs /\ run'.pc = "thinking" /\ run'.outcome = "none"
        /\ run'.actions = run.actions /\ run'.previous = run.previous
        /\ run'.turn = run.turn /\ run'.invalid = run.invalid /\ run'.reason = run.reason
    BY <1>1, <2>1 DEF Runs
  <2>3. QED
    BY <1>1, <2>1, <2>2, TurnsOn DEF Looping
<1>5. CASE AsksForHelp \/ EvidenceRaises
  <2>1. \/ run' = Ended(run, "INTERVENTION_REQUIRED", "MODEL_REASON")
        \/ run' = Ended(run, "RAISED", "none")
    BY <1>5 DEF AsksForHelp, EvidenceRaises
  <2>2. /\ run' \in Runs /\ run'.pc = "done" /\ run'.outcome # "SUCCESS"
        /\ run'.actions = run.actions /\ run'.previous = run.previous
        /\ run'.turn = run.turn /\ run'.invalid = run.invalid
        /\ run'.reason # "DISCOVERY_TIMEOUT"
    BY <1>1, <2>1 DEF Ended, Runs, Reasons, Endings
  <2>3. QED
    BY <1>1, <2>2, TurnsOn
<1>6. QED
  BY <1>2, <1>3, <1>4, <1>5

\* Every step keeps the invariant.
LEMMA EngineStepInv == EngineInv /\ [EngineNext]_engineVars => EngineInv'
<1> SUFFICES ASSUME EngineInv, [EngineNext]_engineVars PROVE EngineInv'
  OBVIOUS
<1>1. ASSUME NEW t \in Targets, NEW show \in Shows, PageChanges(t, show) PROVE EngineInv'
  BY <1>1, PageChangesInv
<1>2. CASE \/ Start \/ Collected \/ ModelFails \/ Unparsable \/ DeclaresFailure
           \/ AsksForHelp \/ EvidenceRaises
  BY <1>2, LoopInv
<1>3. CASE StartTurn
  BY <1>3, StartTurnInv
<1>4. ASSUME NEW t \in Targets, Inspect(t) \/ ReadText(t) PROVE EngineInv'
  BY <1>4, InspectInv, ReadTextInv
<1>5. ASSUME NEW evidence \in Evidences, Completes(evidence) PROVE EngineInv'
  BY <1>5, CompletesInv
<1>6. ASSUME NEW p \in Proposals, Proposes(p) PROVE EngineInv'
  BY <1>6, ProposesInv
<1>7. CASE Executed
  BY <1>7, ExecutedInv
<1>8. CASE PolicyDenies \/ PolicyAsks \/ EffectUncertain \/ ActionFails
  <2>1. {"POLICY_DENIED", "APPROVAL_REQUIRED", "ACTION_EFFECT_UNCERTAIN", "ACTION_FAILED"}
            \subseteq Endings
    BY DEF Endings
  <2>2. \E answer \in {"DENIED", "APPROVAL_REQUIRED", "UNCERTAIN", "FAILED"},
           outcome \in {"FAILED", "INTERVENTION_REQUIRED"},
           reason \in Endings :
            Refused(answer, outcome, reason)
    BY <1>8, <2>1 DEF PolicyDenies, PolicyAsks, EffectUncertain, ActionFails
  <2>3. QED
    BY <2>2, RefusedInv
<1>9. CASE TimesOut
  BY <1>9, TimesOutInv
<1>10. CASE UNCHANGED engineVars
  BY <1>10 DEF engineVars, EngineInv, EngineTyped, SnapshotIsOfThisTurn, LastIsRemembered,
               TurnsAreCounted, FillsWereExecuted, CompletionIsGrounded,
               DispatchesAreAccounted, TimedOut
<1>11. QED
  BY <1>1, <1>2, <1>3, <1>4, <1>5, <1>6, <1>7, <1>8, <1>9, <1>10 DEF EngineNext

\* Every reachable state satisfies it.
LEMMA EngineInvariance == EngineSpec => []EngineInv
BY EngineInitInv, EngineStepInv, PTL DEF EngineSpec

-----------------------------------------------------------------------------
\* A completion cites only texts its targets had since they were first visible in its own turn,
\* all that the caller requires and a text of the goal, and attributes a text to an input only
\* if a fill that typed it was executed, however the page changes while it is read, also
\* between finding a target visible and reading its text.
THEOREM CompletionsGrounded == EngineSpec => []CompletionIsGrounded
<1>1. EngineInv => CompletionIsGrounded
  BY DEF EngineInv
<1>2. QED
  BY <1>1, EngineInvariance, PTL

\* Whatever invalid answers and turns lie between two successive dispatches, the second is not
\* the first again on the same snapshot; after one that was not surely executed none follows;
\* they keep to the limits on actions and turns; and every result, a failure too, counts them
\* all, but for the time limit's.
THEOREM DispatchesAccounted == EngineSpec => []DispatchesAreAccounted
<1>1. EngineInv => DispatchesAreAccounted
  BY DEF EngineInv
<1>2. QED
  BY <1>1, EngineInvariance, PTL
=============================================================================
