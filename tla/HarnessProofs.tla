--------------------------- MODULE HarnessProofs ---------------------------
(***************************************************************************)
(* Proofs about module Harness, for every length of the queue, every limit  *)
(* and every set of replies: the supervisor loses no worker, and what it    *)
(* records as decision events is what its result says.  The invariant is a  *)
(* ledger: the workers behind are settled, the one that leaves has exactly  *)
(* the events of its outcome, and those ahead have none.                    *)
(*                                                                          *)
(* Then about the spans that a run leaves behind: they form one closed      *)
(* tree, each turn links to exactly the tool results that it consumes, and  *)
(* the supervisor's limits, measured on the spans, are kept.  The invariant *)
(* says at every step what the batch holds, what the open spans will close  *)
(* over, and how the supervisor's counters follow from the spans of the     *)
(* worker at work.                                                          *)
(*                                                                          *)
(* Behind them, an invariant about what the spans of a run tell to those    *)
(* who read them without the run, for the proofs about the verdict.         *)
(***************************************************************************)
EXTENDS Harness, SpanListProofs

Interventions == {"halt", "reroute"}

Reasons == {"tool failures", "step limit exceeded", "token limit exceeded",
            "no successor", "terminal"}

Event == [worker : Nat, action : Interventions \cup {"escalate", "complete"},
          reason : Reasons]

Settled(w) ==
    /\ w \in halted <=> Ruled(w, "halt")
    /\ w \in rerouted <=> Ruled(w, "reroute") /\ ~Ruled(w, "halt")

Untouched(w) == \A action \in Interventions : ~Ruled(w, action)

Ledger ==
    /\ events \in Seq(Event)
    /\ \A w \in Left : Settled(w)
    /\ \A w \in Workers : w > idx => Untouched(w)
    /\ phase \in {"dispatch", "turn", "tools"} /\ idx \in Workers =>
          Untouched(idx)
    /\ phase = "leaving" =>
          /\ Ruled(idx, "halt") <=> outcome = "halt"
          /\ Ruled(idx, "reroute") <=> outcome = "reroute"

AtWork ==
    /\ phase \in Phases
    /\ idx \in 1..NWorkers + 1
    /\ phase \in {"turn", "tools", "leaving"} => idx \in Workers
    /\ phase = "closed" => idx = NWorkers + 1

LedgerInv ==
    /\ AtWork
    /\ EveryWorkerIsAccounted
    /\ Ledger
    /\ DecisionsMatchResult

-----------------------------------------------------------------------------
\* Recording one more decision adds that ruling and no other.
LEMMA RecordOne ==
    ASSUME events \in Seq(Event), NEW d \in Event,
           events' = Append(events, d),
           NEW w, NEW action
    PROVE  Ruled(w, action)' <=>
               Ruled(w, action) \/ (d.worker = w /\ d.action = action)
<1>1. /\ Len(events') = Len(events) + 1
      /\ \A i \in 1..Len(events) : events'[i] = events[i]
      /\ events'[Len(events) + 1] = d
      BY DEF Event
<1>2. DOMAIN events = 1..Len(events) /\ DOMAIN events' = 1..Len(events) + 1
      BY DEF Event
<1> QED
    BY <1>1, <1>2 DEF Ruled

\* Nothing recorded, no ruling changed.
LEMMA RecordNone ==
    ASSUME UNCHANGED events, NEW w, NEW action
    PROVE  Ruled(w, action)' <=> Ruled(w, action)
BY DEF Ruled

\* The supervisor intervenes in two ways, for known reasons.
LEMMA RulingIsKnown ==
    ASSUME NEW kind, NEW s
    PROVE  LET r == Ruling(kind, s) IN
              r.action # "continue" =>
                  r.action \in Interventions /\ r.reason \in Reasons
<1> DEFINE reroutes == kind = "tool" /\ s.failures > MaxFailures
           steps == s.steps > MaxSteps
           tokens == s.tokens > MaxTokens
<1>1. CASE reroutes
      BY <1>1 DEF Ruling, Interventions, Reasons
<1>2. CASE ~reroutes /\ steps
      BY <1>2 DEF Ruling, Interventions, Reasons
<1>3. CASE ~reroutes /\ ~steps /\ tokens
      BY <1>3 DEF Ruling, Interventions, Reasons
<1>4. CASE ~reroutes /\ ~steps /\ ~tokens
      BY <1>4 DEF Ruling
<1> QED
    BY <1>1, <1>2, <1>3, <1>4

-----------------------------------------------------------------------------
\* The worker goes on and nothing was recorded, or it leaves for a reason of
\* its own, or its interruption was recorded and it leaves.
GoesOn == events' = events /\ phase' \in {"turn", "tools"}

LeavesByItself ==
    events' = events /\ phase' = "leaving" /\ outcome' \in {"answered", "exhausted"}

Interrupted ==
    \E action \in Interventions, reason \in Reasons :
        /\ events' = Append(events, Decision(idx, action, reason))
        /\ phase' = "leaving"
        /\ outcome' = action

\* While a worker is at work the ledger of the others is left alone.
LEMMA WorkKeepsLedger ==
    ASSUME LedgerInv, phase \in {"turn", "tools"},
           UNCHANGED <<idx, resultVars>>,
           GoesOn \/ LeavesByItself \/ Interrupted
    PROVE  LedgerInv'
<1> USE DEF LedgerInv
<1>1. AtWork'
      BY DEF AtWork, Phases, GoesOn, LeavesByItself, Interrupted
<1>2. EveryWorkerIsAccounted'
      BY DEF EveryWorkerIsAccounted, Left, resultVars
<1>3. idx \in Workers /\ Untouched(idx)
      BY DEF AtWork, Ledger
<1>4. phase' # "closed" /\ Left' = Left /\ idx' = idx
      BY DEF GoesOn, LeavesByItself, Interrupted, Left
<1>5. CASE GoesOn \/ LeavesByItself
  <2>1. \A w, action : Ruled(w, action)' <=> Ruled(w, action)
        BY <1>5, RecordNone DEF GoesOn, LeavesByItself
  <2>2. events' \in Seq(Event)
        BY <1>5 DEF Ledger, GoesOn, LeavesByItself
  <2>3. \A w \in Left : Settled(w)'
        BY <2>1 DEF Ledger, Settled, resultVars
  <2>4. \A w : Untouched(w)' <=> Untouched(w)
        BY <2>1 DEF Untouched
  <2>5. ~Ruled(idx, "halt")' /\ ~Ruled(idx, "reroute")'
        BY <1>3, <2>1 DEF Untouched, Interventions
  <2>6. Ledger'
        BY <1>3, <1>4, <1>5, <2>2, <2>3, <2>4, <2>5
           DEF Ledger, GoesOn, LeavesByItself
  <2>7. DecisionsMatchResult'
        BY <1>4, <2>3 DEF DecisionsMatchResult, Settled
  <2> QED
      BY <1>1, <1>2, <2>6, <2>7
<1>6. CASE Interrupted
  <2> PICK action \in Interventions, reason \in Reasons :
              /\ events' = Append(events, Decision(idx, action, reason))
              /\ phase' = "leaving"
              /\ outcome' = action
      BY <1>6 DEF Interrupted
  <2> DEFINE d == Decision(idx, action, reason)
  <2>1. d \in Event /\ d.worker = idx /\ d.action = action
        BY <1>3 DEF Decision, Event, Workers, Interventions
  <2>2. events \in Seq(Event) /\ events' = Append(events, d)
        BY DEF Ledger
  <2> HIDE DEF d
  <2>3. \A w, a : Ruled(w, a)' <=> Ruled(w, a) \/ (w = idx /\ a = action)
        BY <2>1, <2>2, RecordOne
  <2>4. events' \in Seq(Event)
        BY <2>1, <2>2
  <2>5. idx \notin Left
        BY DEF Left, Workers, AtWork
  <2>6. \A w \in Left : Settled(w)'
        BY <2>3, <2>5 DEF Ledger, Settled, resultVars
  <2>7. \A w : w # idx /\ Untouched(w) => Untouched(w)'
        BY <2>3 DEF Untouched
  <2>8. /\ Ruled(idx, "halt")' <=> action = "halt"
        /\ Ruled(idx, "reroute")' <=> action = "reroute"
        BY <1>3, <2>3 DEF Untouched, Interventions
  <2>9. \A w \in Workers : w > idx => Untouched(w)'
        BY <2>7, <1>3 DEF Ledger, Workers, AtWork
  <2>10. Ledger'
        BY <1>4, <2>4, <2>6, <2>8, <2>9 DEF Ledger
  <2>11. DecisionsMatchResult'
        BY <1>4, <2>6 DEF DecisionsMatchResult, Settled
  <2> QED
      BY <1>1, <1>2, <2>10, <2>11
<1> QED
    BY <1>5, <1>6

-----------------------------------------------------------------------------
\* What the turns and tool calls of a worker do to the ledger.
LEMMA ChatKeeps ==
    ASSUME LedgerInv, Chat
    PROVE  LedgerInv'
<1>1. ASSUME NEW calls \in CallLists, NEW tokens \in TokenCounts,
             ChatCalls(calls, tokens)
      PROVE  LedgerInv'
      BY <1>1, WorkKeepsLedger DEF ChatCalls, EndTurn, GoesOn
<1>2. ASSUME NEW output, NEW tokens, NEW span,
             EndTurn(span, tokens),
             Monitor("llm", TRUE, tokens, Return(output))
      PROVE  LedgerInv'
  <2> DEFINE ruling == Ruling("llm", Observed("llm", TRUE, tokens))
  <2>1. phase = "turn" /\ UNCHANGED <<idx, resultVars>>
        BY <1>2 DEF EndTurn
  <2>2. CASE ruling.action = "continue"
        BY <1>2, <2>1, <2>2, WorkKeepsLedger DEF Monitor, Return, LeavesByItself
  <2>3. CASE ruling.action # "continue"
        BY <1>2, <2>1, <2>3, WorkKeepsLedger, RulingIsKnown
           DEF Monitor, Interrupted
  <2> QED
      BY <2>2, <2>3
<1> QED
    BY <1>1, <1>2 DEF Chat, ChatAnswer, ChatError

\* A tool call, or the interruption after it, keeps the ledger.
LEMMA ExecToolKeeps ==
    ASSUME LedgerInv, ExecTool
    PROVE  LedgerInv'
<1> DEFINE ok == Head(todo).ok
           ruling == Ruling("tool", Observed("tool", ok, reply))
<1>1. phase = "tools" /\ UNCHANGED <<idx, resultVars>>
      BY DEF ExecTool
<1>2. CASE ruling.action = "continue"
      BY <1>1, <1>2, WorkKeepsLedger DEF ExecTool, Monitor, GoesOn
<1>3. CASE ruling.action # "continue"
      BY <1>1, <1>3, WorkKeepsLedger, RulingIsKnown
         DEF ExecTool, Monitor, Interrupted
<1> QED
    BY <1>2, <1>3

\* A worker that runs out of turns records nothing.
LEMMA OutOfTurnsKeeps ==
    ASSUME LedgerInv, OutOfTurns
    PROVE  LedgerInv'
BY WorkKeepsLedger DEF OutOfTurns, LeavesByItself, resultVars

\* The next worker starts with no event of its own.
LEMMA StartWorkerKeeps ==
    ASSUME LedgerInv, StartWorker
    PROVE  LedgerInv'
<1> USE DEF LedgerInv
<1>1. /\ phase = "dispatch" /\ phase' = "turn" /\ idx \in Workers
      /\ UNCHANGED <<idx, events, answers, halted, rerouted>>
      BY DEF StartWorker, AtWork, Workers, resultVars
<1>2. \A w, action : Ruled(w, action)' <=> Ruled(w, action)
      BY <1>1, RecordNone
<1>3. AtWork'
      BY <1>1 DEF AtWork, Phases
<1>4. EveryWorkerIsAccounted'
      BY <1>1 DEF EveryWorkerIsAccounted, Left
<1>5. /\ \A w : Settled(w)' <=> Settled(w)
      /\ \A w : Untouched(w)' <=> Untouched(w)
      /\ Left' = Left
      BY <1>1, <1>2 DEF Settled, Untouched, Left
<1>6. Ledger'
      BY <1>1, <1>5 DEF Ledger
<1>7. DecisionsMatchResult'
      BY <1>1, <1>2 DEF DecisionsMatchResult, Left
<1> QED
    BY <1>3, <1>4, <1>6, <1>7

-----------------------------------------------------------------------------
\* A worker leaves: its outcome and its events become an entry of the result.
LEMMA LeaveWorkerKeeps ==
    ASSUME LedgerInv, LeaveWorker
    PROVE  LedgerInv'
<1> USE DEF LedgerInv
<1> DEFINE reroutes == outcome = "reroute" /\ idx < NWorkers
<1>1. /\ phase = "leaving" /\ phase' = "dispatch"
      /\ idx \in Workers /\ idx' = idx + 1
      BY DEF LeaveWorker, AtWork
<1>2. /\ idx \notin Left /\ Left' = Left \cup {idx}
      /\ idx \notin answers /\ idx \notin rerouted /\ idx \notin halted
      BY <1>1, HarnessAssumption DEF Left, Workers, EveryWorkerIsAccounted
<1>3. AtWork'
      BY <1>1, HarnessAssumption DEF AtWork, Phases, Workers
<1>4. PICK me \in Workers : me = idx
      BY <1>1
<1>5. /\ reroutes =>
             /\ rerouted' = rerouted \cup {me}
             /\ answers' = answers /\ halted' = halted
      /\ ~reroutes =>
             /\ answers' = answers \cup {me}
             /\ halted' = IF outcome \in {"halt", "reroute"}
                          THEN halted \cup {me} ELSE halted
             /\ rerouted' = rerouted
      BY <1>4 DEF LeaveWorker
<1>6. EveryWorkerIsAccounted'
  <2>1. /\ answers \cup rerouted = Left /\ answers \cap rerouted = {}
        /\ halted \subseteq answers /\ NWorkers \notin rerouted
        BY DEF EveryWorkerIsAccounted
  <2>2. reroutes => me # NWorkers
        BY <1>1, <1>4 DEF Workers
  <2>3. /\ me \notin answers /\ me \notin rerouted
        /\ Left' = Left \cup {me}
        BY <1>2, <1>4
  <2> HIDE DEF reroutes
  <2>4. answers' \cup rerouted' = Left' /\ answers' \cap rerouted' = {}
        BY <1>5, <2>1, <2>3
  <2>5. halted' \subseteq answers'
        BY <1>5, <2>1
  <2>6. NWorkers \notin rerouted'
        BY <1>5, <2>1, <2>2
  <2> QED
      BY <2>4, <2>5, <2>6 DEF EveryWorkerIsAccounted
<1>7. /\ events' \in Seq(Event)
      /\ \A w, a : Ruled(w, a)' <=>
             \/ Ruled(w, a)
             \/ w = idx /\ a = "halt" /\ outcome = "reroute" /\ ~reroutes
  <2>1. CASE outcome = "reroute" /\ ~reroutes
    <3> DEFINE d == Decision(idx, "halt", "no successor")
    <3>1. d \in Event /\ d.worker = idx /\ d.action = "halt"
          BY <1>1 DEF Decision, Event, Workers, Interventions, Reasons
    <3>2. events' = Append(events, d) /\ events \in Seq(Event)
          BY <2>1 DEF LeaveWorker, Ledger
    <3> HIDE DEF d
    <3> QED
        BY <2>1, <3>1, <3>2, RecordOne
  <2>2. CASE outcome # "reroute" \/ reroutes
    <3>1. events' = events
          BY <2>2 DEF LeaveWorker
    <3> QED
        BY <2>2, <3>1, RecordNone DEF Ledger
  <2> QED
      BY <2>1, <2>2
<1>8. /\ Ruled(me, "halt") <=> outcome = "halt"
      /\ Ruled(me, "reroute") <=> outcome = "reroute"
      BY <1>1, <1>4 DEF Ledger
<1>9. Settled(me)'
  <2>1. /\ Ruled(me, "halt")' <=>
               outcome = "halt" \/ (outcome = "reroute" /\ ~reroutes)
        /\ Ruled(me, "reroute")' <=> outcome = "reroute"
        BY <1>4, <1>7, <1>8
  <2>2. /\ me \in halted' <=>
               outcome = "halt" \/ (outcome = "reroute" /\ ~reroutes)
        /\ me \in rerouted' <=> reroutes
        BY <1>2, <1>4, <1>5
  <2> QED
      BY <2>1, <2>2 DEF Settled
<1>10. ASSUME NEW w \in Left PROVE Settled(w)'
  <2>1. w # me /\ (w \in halted' <=> w \in halted)
               /\ (w \in rerouted' <=> w \in rerouted)
        BY <1>2, <1>4, <1>5
  <2> QED
      BY <1>4, <1>7, <2>1 DEF Settled, Ledger
<1>11. \A w \in Workers : w > idx => Untouched(w)'
      BY <1>1, <1>7 DEF Ledger, Untouched, Workers
<1>12. Ledger'
  <2>1. \A w \in Left' : Settled(w)'
        BY <1>2, <1>4, <1>9, <1>10
  <2>2. \A w \in Workers : w > idx' \/ w = idx' => w > idx
        BY <1>1 DEF Workers
  <2> QED
      BY <1>1, <1>7, <1>11, <2>1, <2>2 DEF Ledger
<1>13. DecisionsMatchResult'
       BY <1>1, <1>2, <1>4, <1>9, <1>10 DEF DecisionsMatchResult, Settled
<1> QED
    BY <1>3, <1>6, <1>12, <1>13

-----------------------------------------------------------------------------
\* The batch is a sequence, whatever the spans in it look like.
Batched == \E T : batch \in Seq(T)

\* A span that ends is the last of the batch.
LEMMA AppendBatched ==
    ASSUME Batched, NEW span, batch' = Append(batch, span)
    PROVE  /\ Batched'
           /\ batch'[Len(batch')] = span
<1> PICK T : batch \in Seq(T)
    BY DEF Batched
<1>1. batch \in Seq(T \cup {span})
      BY SMT
<1>2. batch' \in Seq(T \cup {span}) /\ batch'[Len(batch')] = span
      BY <1>1
<1> QED
    BY <1>2 DEF Batched

\* The terminal decision is about no worker and is exported with the root.
LEMMA CloseRunKeeps ==
    ASSUME LedgerInv, Batched, CloseRun
    PROVE  LedgerInv'
<1> USE DEF LedgerInv
<1> DEFINE last == Decision(0, IF halted # {} THEN "escalate" ELSE "complete",
                            "terminal")
<1>1. /\ phase = "dispatch" /\ phase' = "closed" /\ idx = NWorkers + 1
      /\ UNCHANGED <<idx, answers, halted, rerouted>>
      BY HarnessAssumption DEF CloseRun, AtWork, resultVars
<1>2. /\ events' = Append(events, last)
      /\ batch' = Append(batch, RootSpan(events'))
      BY DEF CloseRun
<1>3. /\ last \in Event /\ last.worker = 0
      /\ last.action = IF halted # {} THEN "escalate" ELSE "complete"
      BY DEF Decision, Event, Reasons
<1> HIDE DEF last
<1>4. events \in Seq(Event)
      BY DEF Ledger
<1>5. \A w \in Workers : \A a : Ruled(w, a)' <=> Ruled(w, a)
      BY <1>2, <1>3, <1>4, RecordOne DEF Workers
<1>6. events' \in Seq(Event) /\ events'[Len(events')] = last
      BY <1>2, <1>3, <1>4
<1>7. AtWork'
      BY <1>1, HarnessAssumption DEF AtWork, Phases
<1>8. EveryWorkerIsAccounted'
      BY <1>1 DEF EveryWorkerIsAccounted, Left
<1>9. /\ Left' = Left
      /\ \A w \in Workers : Settled(w)' <=> Settled(w)
      /\ \A w \in Workers : Untouched(w)' <=> Untouched(w)
      BY <1>1, <1>5 DEF Left, Settled, Untouched
<1>10. \A w \in Left : w \in Workers
       BY DEF Left
<1>11. Ledger'
       BY <1>1, <1>6, <1>9, <1>10 DEF Ledger
<1>12. batch'[Len(batch')].decisions = events'
       BY <1>2, AppendBatched DEF RootSpan, Span
<1>13. DecisionsMatchResult'
       BY <1>1, <1>3, <1>6, <1>9, <1>10, <1>11, <1>12
          DEF DecisionsMatchResult, Ledger, Settled
<1> QED
    BY <1>7, <1>8, <1>11, <1>13

-----------------------------------------------------------------------------
\* Only the spans that end are added to the batch.
LEMMA BatchedNext ==
    ASSUME Batched, Next
    PROVE  Batched'
<1>1. (\E span : batch' = Append(batch, span)) \/ batch' = batch
  <2>1. CASE StartWorker
        BY <2>1 DEF StartWorker
  <2>2. CASE Chat
        BY <2>2 DEF Chat, ChatCalls, ChatAnswer, ChatError, EndTurn
  <2>3. CASE ExecTool
        BY <2>3 DEF ExecTool
  <2>4. CASE OutOfTurns
        BY <2>4 DEF OutOfTurns
  <2>5. CASE LeaveWorker
        BY <2>5 DEF LeaveWorker
  <2>6. CASE CloseRun
        BY <2>6 DEF CloseRun
  <2> QED
      BY <2>1, <2>2, <2>3, <2>4, <2>5, <2>6 DEF Next
<1>2. CASE batch' = batch
      BY <1>2 DEF Batched
<1>3. CASE \E span : batch' = Append(batch, span)
      BY <1>3, AppendBatched
<1> QED
    BY <1>1, <1>2, <1>3

\* Before the first worker nothing is recorded.
LEMMA LedgerInit == Init => LedgerInv /\ Batched
<1> SUFFICES ASSUME Init PROVE LedgerInv /\ Batched
    OBVIOUS
<1>1. AtWork /\ EveryWorkerIsAccounted /\ Left = {}
      BY HarnessAssumption
         DEF Init, AtWork, Phases, EveryWorkerIsAccounted, Left, Workers
<1>2. \A w, action : ~Ruled(w, action)
      BY DEF Init, Ruled
<1>3. Ledger
      BY <1>1, <1>2 DEF Init, Ledger, Untouched
<1>4. DecisionsMatchResult
      BY <1>1 DEF Init, DecisionsMatchResult
<1>5. Batched
      BY DEF Init, Batched
<1> QED
    BY <1>1, <1>3, <1>4, <1>5 DEF LedgerInv

\* Every step of the run preserves the ledger.
LEMMA LedgerNext == LedgerInv /\ Batched /\ [Next]_vars => (LedgerInv /\ Batched)'
<1> SUFFICES ASSUME LedgerInv, Batched, [Next]_vars
             PROVE  LedgerInv' /\ Batched'
    OBVIOUS
<1>1. CASE UNCHANGED vars
      BY <1>1 DEF LedgerInv, AtWork, EveryWorkerIsAccounted, Ledger,
         DecisionsMatchResult, Settled, Untouched, Ruled, Left, Batched,
         vars, workerVars, resultVars
<1>2. CASE Next
  <2>1. LedgerInv'
        BY <1>2, StartWorkerKeeps, ChatKeeps, ExecToolKeeps, OutOfTurnsKeeps,
           LeaveWorkerKeeps, CloseRunKeeps DEF Next
  <2> QED
      BY <1>2, <2>1, BatchedNext
<1> QED
    BY <1>1, <1>2

\* Whatever the replies, the tools and the limits, the supervisor's result
\* and its recorded decisions are one ledger.
THEOREM LedgerInvariant == Spec => [](LedgerInv /\ Batched)
<1> QED
    BY LedgerInit, LedgerNext, PTL DEF Spec

\* Supervisor.run loses no worker and counts none twice.
THEOREM NoWorkerIsLost == Spec => []EveryWorkerIsAccounted
<1>1. LedgerInv => EveryWorkerIsAccounted
      BY DEF LedgerInv
<1> QED
    BY <1>1, LedgerInvariant, PTL

\* The decision events on the root span and the supervisor's result agree,
\* worker by worker and in the terminal event.
THEOREM EvidenceTellsTheDecisions == Spec => []DecisionsMatchResult
<1>1. LedgerInv => DecisionsMatchResult
      BY DEF LedgerInv
<1> QED
    BY <1>1, LedgerInvariant, PTL

-----------------------------------------------------------------------------
Working == {"turn", "tools"}

\* The variables outside the batch, apart from the ledger's.
ControlInv ==
    /\ now \in Nat /\ RootId < now
    /\ turn \in 1..MaxTurns + 1
    /\ reply \in Nat
    /\ outcome \in Outcomes
    /\ answer \in Outputs
    /\ state \in [steps : Nat, tokens : Nat, failures : Nat]
    /\ phase = "tools" =>
          turn <= MaxTurns /\ todo # <<>> /\ \E T : todo \in Seq(T)

\* Each span that ended has a number of its own, from before it ended.
Ended(s) ==
    /\ s.id \in Nat /\ s.end \in Nat /\ s.parent \in Int
    /\ RootId <= s.id /\ s.id < s.end /\ s.end < now
    /\ s.start = s.id /\ s.parent < s.id
    /\ s.tokens \in Nat
    /\ s.output \in Outputs

BatchInv ==
    /\ Batched
    /\ \A i \in DOMAIN batch : Ended(batch[i])
    /\ \A i, j \in DOMAIN batch : batch[i].id = batch[j].id => i = j

\* The spans that are still open: the root's, and the one of the worker at
\* work.
OpenInv ==
    /\ phase # "closed" => \A i \in DOMAIN batch : batch[i].id # RootId
    /\ phase \in Working \cup {"leaving"} =>
          /\ runSpan \in Nat /\ RootId < runSpan /\ runSpan < now
          /\ \A i \in DOMAIN batch : batch[i].id # runSpan

Encloses(p, s) ==
    p.id = s.parent /\ IsAgent(p) /\ p.start < s.start /\ s.end < p.end

\* A span's parent has ended, or is still open; the root has none.
Parented(i) ==
    IF phase = "closed" /\ i = Len(batch)
    THEN batch[i].parent = NoSpan /\ batch[i].closed
    ELSE \/ phase # "closed" /\ batch[i].parent = RootId
         \/ phase \in Working \cup {"leaving"} /\ batch[i].parent = runSpan
         \/ \E p \in DOMAIN batch : Encloses(batch[p], batch[i])

TreeInv == \A i \in DOMAIN batch : Parented(i)

\* The tools of the spans numbered S that no later turn among them consumed.
Waiting(S) ==
    {t \in S : IsTool(batch[t]) /\ \A i \in S : i > t => ~IsChat(batch[i])}

\* The links that the next turn will take are those results.
PendingInv ==
    phase \in Working =>
        /\ pending \in Seq(Nat)
        /\ ToSet(pending) = {batch[t].id : t \in Waiting(Mine)}
        /\ Len(pending) = Cardinality(Waiting(Mine))

Tools == {i \in Mine : IsTool(batch[i])}
Chats == {i \in Mine : IsChat(batch[i])}

\* Failures that nothing but failures follow.
LastFailures(F) ==
    /\ \A i \in F : ~batch[i].ok
    /\ \A i \in F, j \in Tools : j > i => j \in F

\* The supervisor's counters, told from the spans.  While tools of a turn
\* are outstanding, that turn's own tokens may not have been reported yet.
LimitInv ==
    phase \in Working =>
        /\ state.steps <= MaxSteps
        /\ state.tokens <= MaxTokens
        /\ state.failures <= MaxFailures
        /\ Cardinality(Tools) = state.steps
        /\ Spent(batch, Chats) <=
              state.tokens + (IF phase = "tools" THEN reply ELSE 0)
        /\ phase = "tools" =>
              \E c \in Chats : /\ \A i \in Chats : i <= c
                               /\ batch[c].tokens = reply
        /\ \A F \in SUBSET Tools :
              LastFailures(F) => Cardinality(F) <= state.failures

SpanInv ==
    /\ ControlInv /\ BatchInv /\ OpenInv /\ TreeInv
    /\ PendingInv /\ LinksAreExact /\ LimitInv

-----------------------------------------------------------------------------
\* What a batch is after one more span has ended.
LEMMA AppendFacts ==
    ASSUME Batched, NEW span, batch' = Append(batch, span)
    PROVE  /\ Len(batch) \in Nat /\ DOMAIN batch = 1..Len(batch)
           /\ Len(batch') = Len(batch) + 1
           /\ DOMAIN batch' = 1..Len(batch) + 1
           /\ \A i \in DOMAIN batch : batch'[i] = batch[i]
           /\ batch'[Len(batch) + 1] = span
           /\ Batched'
<1> PICK T : batch \in Seq(T)
    BY DEF Batched
<1>1. batch \in Seq(T \cup {span})
      BY SMT
<1>2. batch' \in Seq(T \cup {span})
      BY <1>1
<1>3. Batched'
      BY <1>2 DEF Batched
<1> QED
    BY <1>1, <1>3

\* Each kind of span, attribute by attribute, as far as the proofs look.
LEMMA ChatFields ==
    ASSUME NEW error, NEW tokens, NEW calls, NEW output,
           NEW s, s = ChatSpan(error, tokens, calls, output)
    PROVE  /\ s.name = "chat" /\ s.id = now /\ s.start = now
           /\ s.end = now + 1 /\ s.parent = runSpan
           /\ s.links = pending /\ s.tokens = tokens /\ s.output = output
BY DEF ChatSpan, Span

\* The span of a tool call.
LEMMA ToolFields ==
    ASSUME NEW call, NEW s,
           s = [Span("tool.call", now, runSpan, now + 1) EXCEPT
                    !.tool = call.tool, !.args = call.args,
                    !.callId = call.id, !.ok = call.ok]
    PROVE  /\ s.name = "tool.call" /\ s.id = now /\ s.start = now
           /\ s.end = now + 1 /\ s.parent = runSpan
           /\ s.ok = call.ok /\ s.tokens = 0 /\ s.output = "none"
BY DEF Span

\* The span of a worker's run.
LEMMA WorkerFields ==
    ASSUME ControlInv
    PROVE  /\ WorkerSpan.name = "agent.run" /\ WorkerSpan.id = runSpan
           /\ WorkerSpan.start = runSpan /\ WorkerSpan.end = now
           /\ WorkerSpan.parent = RootId /\ WorkerSpan.tokens = 0
           /\ WorkerSpan.output \in Outputs
BY DEF ControlInv, WorkerSpan, Span, Outputs

\* The root span.
LEMMA RootFields ==
    ASSUME NEW decisions, NEW s, s = RootSpan(decisions)
    PROVE  /\ s.name = "agent.run" /\ s.id = RootId /\ s.start = RootId
           /\ s.end = now /\ s.parent = NoSpan /\ s.closed = TRUE
           /\ s.tokens = 0 /\ s.output = "none"
BY DEF RootSpan, Span

-----------------------------------------------------------------------------
\* A turn's or a tool call's span ends: it is the newest and lies under the
\* span of the worker at work.
Child(s) ==
    /\ s.id = now /\ s.start = now /\ s.end = now + 1
    /\ s.parent = runSpan
    /\ s.tokens \in Nat /\ s.output \in Outputs
    /\ batch' = Append(batch, s)
    /\ now' = now + 2
    /\ runSpan' = runSpan

\* A span that ends with a number of its own keeps the batch in order.
LEMMA AppendKeepsBatch ==
    ASSUME BatchInv, now \in Nat, now' \in Nat, now <= now',
           NEW s, batch' = Append(batch, s), Ended(s)',
           \A i \in DOMAIN batch : batch[i].id # s.id
    PROVE  BatchInv'
<1> DEFINE n == Len(batch) + 1
<1>1. /\ Len(batch) \in Nat /\ DOMAIN batch = 1..Len(batch)
      /\ DOMAIN batch' = 1..n /\ batch'[n] = s /\ Batched'
      /\ \A i \in DOMAIN batch : batch'[i] = batch[i]
      BY AppendFacts DEF BatchInv
<1>2. ASSUME NEW i \in DOMAIN batch' PROVE i = n \/ i \in DOMAIN batch
      BY <1>1
<1>3. ASSUME NEW i \in DOMAIN batch PROVE Ended(batch[i])'
  <2>1. Ended(batch[i]) /\ batch'[i] = batch[i]
        BY <1>1 DEF BatchInv
  <2> QED
      BY <2>1 DEF Ended, RootId
<1>4. \A i \in DOMAIN batch' : Ended(batch[i])'
  <2> SUFFICES ASSUME NEW i \in DOMAIN batch' PROVE Ended(batch[i])'
      OBVIOUS
  <2>1. CASE i = n
    <3>1. batch'[i] = s
          BY <1>1, <2>1
    <3> QED
        BY <3>1 DEF Ended, RootId
  <2> QED
      BY <1>2, <1>3, <2>1
<1>5. ASSUME NEW i \in DOMAIN batch', NEW j \in DOMAIN batch',
             batch'[i].id = batch'[j].id
      PROVE  i = j
      BY <1>1, <1>2, <1>5 DEF BatchInv
<1> QED
    BY <1>1, <1>4, <1>5 DEF BatchInv

\* A child's span keeps the batch, what is open, and the tree.
LEMMA ChildKeeps ==
    ASSUME ControlInv, BatchInv, OpenInv, TreeInv, phase \in Working,
           phase' \in Working \cup {"leaving"}, NEW s, Child(s)
    PROVE  BatchInv' /\ OpenInv' /\ TreeInv'
<1> DEFINE n == Len(batch) + 1
<1>1. /\ Len(batch) \in Nat /\ DOMAIN batch = 1..Len(batch)
      /\ DOMAIN batch' = 1..n /\ batch'[n] = s
      /\ \A i \in DOMAIN batch : batch'[i] = batch[i]
      BY AppendFacts DEF BatchInv, Child
<1>2. /\ now \in Nat /\ runSpan \in Nat /\ RootId < runSpan /\ runSpan < now
      /\ \A i \in DOMAIN batch : batch[i].id # runSpan /\ batch[i].id # RootId
      /\ phase # "closed" /\ phase' # "closed"
      BY DEF ControlInv, OpenInv, Working
<1>3. /\ s.id = now /\ s.start = now /\ s.end = now + 1 /\ s.parent = runSpan
      /\ s.tokens \in Nat /\ s.output \in Outputs
      /\ batch' = Append(batch, s) /\ now' = now + 2 /\ runSpan' = runSpan
      BY DEF Child
<1>4. \A i \in DOMAIN batch : batch[i].id \in Nat /\ batch[i].id < now
      BY <1>2 DEF BatchInv, Ended, RootId
<1>5. BatchInv'
  <2>1. Ended(s)'
        BY <1>2, <1>3 DEF Ended, RootId
  <2>2. \A i \in DOMAIN batch : batch[i].id # s.id
        BY <1>2, <1>3, <1>4
  <2> QED
      BY <1>2, <1>3, <2>1, <2>2, AppendKeepsBatch
<1>6. OpenInv'
  <2>1. \A i \in DOMAIN batch' :
            batch'[i].id # runSpan /\ batch'[i].id # RootId
        BY <1>1, <1>2, <1>3 DEF RootId
  <2> QED
      BY <1>2, <1>3, <2>1 DEF OpenInv, RootId
<1>7. TreeInv'
  <2> SUFFICES ASSUME NEW i \in DOMAIN batch' PROVE Parented(i)'
      BY DEF TreeInv
  <2>1. CASE i = n
        BY <1>1, <1>2, <1>3, <2>1 DEF Parented
  <2>2. CASE i \in DOMAIN batch
    <3>1. Parented(i) /\ batch'[i] = batch[i]
          BY <1>1, <2>2 DEF TreeInv
    <3>2. CASE batch[i].parent \in {RootId, runSpan}
          BY <1>2, <1>3, <3>1, <3>2 DEF Parented
    <3>3. ASSUME NEW p \in DOMAIN batch, Encloses(batch[p], batch[i])
          PROVE  Parented(i)'
      <4>1. p \in DOMAIN batch' /\ batch'[p] = batch[p]
            BY <1>1
      <4>2. Encloses(batch'[p], batch'[i])
            BY <3>1, <3>3, <4>1
      <4> QED
          BY <1>2, <4>1, <4>2 DEF Parented, Encloses, IsAgent
    <3> QED
        BY <1>2, <3>1, <3>2, <3>3 DEF Parented
  <2> QED
      BY <1>1, <2>1, <2>2
<1> QED
    BY <1>5, <1>6, <1>7

\* The worker's span closes over those of its turns and tools.
LEMMA LeaveKeepsTree ==
    ASSUME ControlInv, BatchInv, OpenInv, TreeInv, LeaveWorker
    PROVE  BatchInv' /\ OpenInv' /\ TreeInv'
<1> DEFINE n == Len(batch) + 1
<1> PICK s : s = WorkerSpan
    OBVIOUS
<1>1. /\ phase = "leaving" /\ phase' = "dispatch" /\ now' = now + 1
      /\ batch' = Append(batch, s)
      BY DEF LeaveWorker
<1>2. /\ now \in Nat /\ runSpan \in Nat /\ RootId < runSpan /\ runSpan < now
      /\ \A i \in DOMAIN batch : batch[i].id # runSpan /\ batch[i].id # RootId
      BY <1>1 DEF ControlInv, OpenInv
<1>3. /\ s.name = "agent.run" /\ s.id = runSpan /\ s.start = runSpan
      /\ s.end = now /\ s.parent = RootId /\ s.tokens = 0
      /\ s.output \in Outputs
      BY WorkerFields
<1>4. /\ Len(batch) \in Nat /\ DOMAIN batch = 1..Len(batch)
      /\ DOMAIN batch' = 1..n /\ batch'[n] = s
      /\ \A i \in DOMAIN batch : batch'[i] = batch[i]
      BY <1>1, AppendFacts DEF BatchInv
<1>5. BatchInv'
  <2>1. Ended(s)'
        BY <1>1, <1>2, <1>3 DEF Ended, RootId
  <2> QED
      BY <1>1, <1>2, <1>3, <2>1, AppendKeepsBatch
<1>6. OpenInv'
  <2>1. \A i \in DOMAIN batch' : batch'[i].id # RootId
        BY <1>2, <1>3, <1>4 DEF RootId
  <2> QED
      BY <1>1, <2>1 DEF OpenInv, RootId, Working
<1>7. TreeInv'
  <2> SUFFICES ASSUME NEW i \in DOMAIN batch' PROVE Parented(i)'
      BY DEF TreeInv
  <2>1. CASE i = n
        BY <1>1, <1>3, <1>4, <2>1 DEF Parented, RootId
  <2>2. CASE i \in DOMAIN batch
    <3>1. Parented(i) /\ batch'[i] = batch[i]
          BY <1>4, <2>2 DEF TreeInv
    <3>2. CASE batch[i].parent = RootId
          BY <1>1, <3>1, <3>2 DEF Parented, RootId
    <3>3. CASE batch[i].parent = runSpan
      <4>1. Ended(batch[i])
            BY <2>2 DEF BatchInv
      <4>2. Encloses(batch'[n], batch'[i])
            BY <1>2, <1>3, <1>4, <3>1, <3>3, <4>1
               DEF Encloses, IsAgent, Ended
      <4>3. n \in DOMAIN batch'
            BY <1>4
      <4> QED
          BY <1>1, <4>2, <4>3 DEF Parented, Encloses, IsAgent
    <3>4. ASSUME NEW p \in DOMAIN batch, Encloses(batch[p], batch[i])
          PROVE  Parented(i)'
      <4>1. p \in DOMAIN batch' /\ batch'[p] = batch[p]
            BY <1>4
      <4>2. Encloses(batch'[p], batch'[i])
            BY <3>1, <3>4, <4>1
      <4> QED
          BY <1>1, <4>1, <4>2 DEF Parented, Encloses, IsAgent
    <3> QED
        BY <1>1, <3>1, <3>2, <3>3, <3>4 DEF Parented
  <2> QED
      BY <1>4, <2>1, <2>2
<1> QED
    BY <1>5, <1>6, <1>7

\* The root's span closes over those of the workers.
LEMMA CloseKeepsTree ==
    ASSUME ControlInv, BatchInv, OpenInv, TreeInv, CloseRun
    PROVE  BatchInv' /\ OpenInv' /\ TreeInv'
<1> DEFINE n == Len(batch) + 1
<1> PICK s : s = RootSpan(events')
    OBVIOUS
<1>1. /\ phase = "dispatch" /\ phase' = "closed" /\ now' = now + 1
      /\ batch' = Append(batch, s)
      BY DEF CloseRun
<1>2. /\ now \in Nat /\ RootId < now
      /\ \A i \in DOMAIN batch : batch[i].id # RootId
      BY <1>1 DEF ControlInv, OpenInv
<1>3. /\ s.name = "agent.run" /\ s.id = RootId /\ s.start = RootId
      /\ s.end = now /\ s.parent = NoSpan /\ s.closed /\ s.tokens = 0
      /\ s.output \in Outputs
      BY RootFields DEF Outputs
<1>4. /\ Len(batch) \in Nat /\ DOMAIN batch = 1..Len(batch)
      /\ DOMAIN batch' = 1..n /\ batch'[n] = s /\ Len(batch') = n
      /\ \A i \in DOMAIN batch : batch'[i] = batch[i]
      BY <1>1, AppendFacts DEF BatchInv
<1>5. BatchInv'
  <2>1. Ended(s)'
        BY <1>1, <1>2, <1>3 DEF Ended, RootId, NoSpan
  <2> QED
      BY <1>1, <1>2, <1>3, <2>1, AppendKeepsBatch
<1>6. OpenInv'
      BY <1>1 DEF OpenInv, Working
<1>7. TreeInv'
  <2> SUFFICES ASSUME NEW i \in DOMAIN batch' PROVE Parented(i)'
      BY DEF TreeInv
  <2>1. CASE i = n
        BY <1>1, <1>3, <1>4, <2>1 DEF Parented, NoSpan
  <2>2. CASE i \in DOMAIN batch
    <3>1. /\ Parented(i) /\ batch'[i] = batch[i] /\ i # Len(batch')
          /\ Ended(batch[i])
          BY <1>4, <2>2 DEF TreeInv, BatchInv
    <3>2. CASE batch[i].parent = RootId
      <4>1. Encloses(batch'[n], batch'[i])
            BY <1>2, <1>3, <1>4, <3>1, <3>2 DEF Encloses, IsAgent, Ended
      <4>2. n \in DOMAIN batch'
            BY <1>4
      <4> QED
          BY <3>1, <4>1, <4>2 DEF Parented, Encloses, IsAgent
    <3>3. ASSUME NEW p \in DOMAIN batch, Encloses(batch[p], batch[i])
          PROVE  Parented(i)'
      <4>1. p \in DOMAIN batch' /\ batch'[p] = batch[p]
            BY <1>4
      <4>2. Encloses(batch'[p], batch'[i])
            BY <3>1, <3>3, <4>1
      <4> QED
          BY <3>1, <4>1, <4>2 DEF Parented, Encloses, IsAgent
    <3> QED
        BY <1>1, <3>1, <3>2, <3>3 DEF Parented, Working
  <2> QED
      BY <1>4, <2>1, <2>2
<1> QED
    BY <1>5, <1>6, <1>7

\* A step that ends no span and starts none, or starts a worker's.
LEMMA QuietKeepsTree ==
    ASSUME ControlInv, BatchInv, OpenInv, TreeInv, batch' = batch,
           \/ /\ now' = now /\ runSpan' = runSpan
              /\ phase \in Working /\ phase' = "leaving"
           \/ /\ now' = now + 1 /\ runSpan' = now
              /\ phase = "dispatch" /\ phase' = "turn"
    PROVE  BatchInv' /\ OpenInv' /\ TreeInv'
<1>1. /\ now \in Nat /\ RootId < now /\ now' \in Nat /\ now <= now'
      /\ \A i \in DOMAIN batch : Ended(batch[i]) /\ batch[i].id # RootId
      /\ phase # "closed" /\ phase' # "closed"
      BY DEF ControlInv, BatchInv, OpenInv, Working
<1>2. \A i \in DOMAIN batch : batch[i].id # now /\ batch[i].id < now
      BY <1>1 DEF Ended
<1>3. BatchInv'
  <2>1. \A i \in DOMAIN batch' : Ended(batch[i])'
        BY <1>1 DEF Ended, RootId
  <2> QED
      BY <2>1 DEF BatchInv, Batched
<1>4. OpenInv'
      BY <1>1, <1>2 DEF OpenInv, RootId, Working
<1>5. TreeInv'
  <2> SUFFICES ASSUME NEW i \in DOMAIN batch PROVE Parented(i)'
      BY DEF TreeInv
  <2>1. Parented(i)
        BY DEF TreeInv
  <2>2. ASSUME NEW p \in DOMAIN batch, Encloses(batch[p], batch[i])
        PROVE  Parented(i)'
    <3>1. p \in DOMAIN batch' /\ Encloses(batch'[p], batch'[i])
          BY <2>2
    <3> QED
        BY <3>1 DEF Parented, Encloses, IsAgent
  <2>3. CASE batch[i].parent = RootId
        BY <1>1, <2>3 DEF Parented, RootId
  <2>4. CASE phase \in Working \cup {"leaving"} /\ batch[i].parent = runSpan
        BY <2>4 DEF Parented, Working
  <2> QED
      BY <1>1, <2>1, <2>2, <2>3, <2>4 DEF Parented
<1> QED
    BY <1>3, <1>4, <1>5

-----------------------------------------------------------------------------
Counters == [steps : Nat, tokens : Nat, failures : Nat]

Within(s) ==
    s.steps <= MaxSteps /\ s.tokens <= MaxTokens /\ s.failures <= MaxFailures

\* There are calls to execute.
Asked(calls) == calls # <<>> /\ \E T : calls \in Seq(T)

\* What a turn does: its span takes the pending links, and its tool calls
\* are next or the worker leaves.
TurnStep(s) ==
    /\ phase = "turn" /\ turn <= MaxTurns
    /\ Child(s) /\ IsChat(s) /\ s.links = pending
    /\ pending' = <<>> /\ reply' = s.tokens /\ turn' = turn
    /\ \/ /\ phase' = "tools" /\ Asked(todo')
          /\ UNCHANGED <<outcome, answer, state>>
       \/ /\ phase' = "leaving"
          /\ outcome' \in Outcomes /\ answer' \in Outputs
          /\ state' \in Counters

\* What a tool call does: its span is the next turn's to link, and the
\* supervisor lets the worker go on within the limits only.
CallStep(s) ==
    /\ phase = "tools"
    /\ Child(s) /\ IsTool(s)
    /\ pending' = Append(pending, s.id) /\ reply' = reply
    /\ state' = Observed("tool", s.ok, reply)
    /\ answer' = answer /\ outcome' \in Outcomes
    /\ \/ phase' = "turn" /\ turn' = turn + 1 /\ Within(state')
       \/ phase' = "tools" /\ turn' = turn /\ Within(state') /\ Asked(todo')
       \/ phase' = "leaving" /\ turn' = turn

\* The counters count.
LEMMA ObservedCounts ==
    ASSUME state \in Counters, NEW kind, NEW ok, NEW tokens \in Nat
    PROVE  Observed(kind, ok, tokens) \in Counters
BY DEF Observed, Counters

\* The supervisor rules out what is over a limit, and only then intervenes.
LEMMA ContinueIsWithin ==
    ASSUME NEW s \in Counters, Ruling("tool", s).action = "continue"
    PROVE  Within(s)
<1> DEFINE reroutes == s.failures > MaxFailures
           steps == s.steps > MaxSteps
           tokens == s.tokens > MaxTokens
<1>1. CASE reroutes
      BY <1>1 DEF Ruling
<1>2. CASE ~reroutes /\ steps
      BY <1>2 DEF Ruling
<1>3. CASE ~reroutes /\ ~steps /\ tokens
      BY <1>3 DEF Ruling
<1>4. CASE ~reroutes /\ ~steps /\ ~tokens
      BY <1>4, HarnessAssumption DEF Within, Counters
<1> QED
    BY <1>1, <1>2, <1>3, <1>4

\* A turn that asks for tools.
LEMMA ChatCallsTurns ==
    ASSUME ControlInv, NEW calls \in CallLists, NEW tokens \in TokenCounts,
           ChatCalls(calls, tokens)
    PROVE  \E s : TurnStep(s)
<1> PICK s : s = ChatSpan(FALSE, tokens, [i \in DOMAIN calls |->
                     Requested(calls)[i].id], "none")
    OBVIOUS
<1>1. EndTurn(s, tokens)
      BY DEF ChatCalls
<1>2. tokens \in Nat /\ calls \in Seq(Calls) /\ calls # <<>>
      BY HarnessAssumption
<1>3. /\ s.name = "chat" /\ s.id = now /\ s.start = now /\ s.end = now + 1
      /\ s.parent = runSpan /\ s.links = pending /\ s.tokens = tokens
      /\ s.output = "none"
      BY DEF ChatSpan, Span
<1>4. Child(s) /\ IsChat(s)
      BY <1>1, <1>2, <1>3 DEF Child, EndTurn, IsChat, Outputs
<1>5. Asked(Requested(calls))
  <2> PICK req : req = Requested(calls)
      OBVIOUS
  <2>1. req \in [1..Len(calls) -> {req[i] : i \in 1..Len(calls)}]
        BY <1>2 DEF Requested
  <2>2. Len(calls) \in Nat /\ Len(calls) # 0
        BY <1>2
  <2>3. req \in Seq({req[i] : i \in 1..Len(calls)}) /\ req # <<>>
        BY <2>1, <2>2
  <2> QED
      BY <2>3 DEF Asked
<1>6. /\ phase' = "tools" /\ todo' = Requested(calls)
      /\ UNCHANGED <<turn, outcome, answer, state>>
      BY DEF ChatCalls
<1> QED
    BY <1>1, <1>3, <1>4, <1>5, <1>6 DEF TurnStep, EndTurn

\* A turn that answers, or whose provider raises.
LEMMA LastTurns ==
    ASSUME ControlInv, NEW error, NEW tokens \in Nat, NEW calls,
           NEW output \in Outputs, NEW text \in Outputs,
           EndTurn(ChatSpan(error, tokens, calls, output), tokens),
           Monitor("llm", TRUE, tokens, Return(text))
    PROVE  \E s : TurnStep(s)
<1> PICK s : s = ChatSpan(error, tokens, calls, output)
    OBVIOUS
<1>1. EndTurn(s, tokens)
      OBVIOUS
<1>2. /\ s.name = "chat" /\ s.id = now /\ s.start = now /\ s.end = now + 1
      /\ s.parent = runSpan /\ s.links = pending /\ s.tokens = tokens
      /\ s.output = output
      BY ChatFields
<1>3. Child(s) /\ IsChat(s)
      BY <1>1, <1>2 DEF Child, EndTurn, IsChat
<1> DEFINE observed == Observed("llm", TRUE, tokens)
           ruling == Ruling("llm", observed)
<1>4. observed \in Counters /\ state' = observed
      BY ObservedCounts DEF Monitor, ControlInv, Counters
<1>5. /\ phase' = "leaving" /\ outcome' \in Outcomes /\ answer' \in Outputs
      /\ turn' = turn
  <2>1. CASE ruling.action = "continue"
        BY <2>1 DEF Monitor, Return, Outcomes
  <2>2. CASE ruling.action # "continue"
    <3>1. ruling.action \in Interventions
          BY <2>2, RulingIsKnown
    <3>2. phase' = "leaving" /\ outcome' = ruling.action
          /\ UNCHANGED <<turn, answer>>
          BY <2>2 DEF Monitor
    <3> QED
        BY <3>1, <3>2 DEF Interventions, Outcomes, ControlInv
  <2> QED
      BY <2>1, <2>2
<1> QED
    BY <1>1, <1>2, <1>3, <1>4, <1>5 DEF TurnStep, EndTurn

\* Every reply of the provider, an exception included, is a turn.
LEMMA ChatTurns ==
    ASSUME ControlInv, Chat
    PROVE  \E s : TurnStep(s)
<1>1. ASSUME NEW calls \in CallLists, NEW tokens \in TokenCounts,
             ChatCalls(calls, tokens)
      PROVE  \E s : TurnStep(s)
      BY <1>1, ChatCallsTurns
<1>2. ASSUME NEW output \in Outputs, NEW tokens \in TokenCounts,
             ChatAnswer(output, tokens)
      PROVE  \E s : TurnStep(s)
      BY <1>2, LastTurns, HarnessAssumption DEF ChatAnswer
<1>3. ChatError => \E s : TurnStep(s)
  <2>1. "none" \in Outputs /\ "bad" \in Outputs
        BY DEF Outputs
  <2> QED
      BY <2>1, LastTurns DEF ChatError
<1> QED
    BY <1>1, <1>2, <1>3 DEF Chat

\* Every execution of a tool is a call.
LEMMA ExecToolCalls ==
    ASSUME ControlInv, ExecTool
    PROVE  \E s : CallStep(s)
<1> DEFINE call == Head(todo)
<1> PICK s : s = [Span("tool.call", now, runSpan, now + 1) EXCEPT
                    !.tool = call.tool, !.args = call.args,
                    !.callId = call.id, !.ok = call.ok]
    OBVIOUS
<1>1. /\ s.name = "tool.call" /\ s.id = now /\ s.start = now
      /\ s.end = now + 1 /\ s.parent = runSpan
      /\ s.ok = call.ok /\ s.tokens = 0 /\ s.output = "none"
      BY ToolFields
<1>2. /\ phase = "tools" /\ now' = now + 2 /\ batch' = Append(batch, s)
      /\ pending' = Append(pending, s.id) /\ UNCHANGED <<reply, runSpan>>
      BY DEF ExecTool
<1>3. Child(s) /\ IsTool(s)
      BY <1>1, <1>2 DEF Child, IsTool, Outputs
<1> DEFINE observed == Observed("tool", call.ok, reply)
           ruling == Ruling("tool", observed)
<1>4. observed \in Counters /\ state' = observed
      BY ObservedCounts DEF ExecTool, Monitor, ControlInv, Counters
<1>5. CASE ruling.action = "continue"
  <2>1. /\ todo' = Tail(todo) /\ UNCHANGED <<outcome, answer>>
        /\ IF Len(todo) = 1 THEN phase' = "turn" /\ turn' = turn + 1
                            ELSE UNCHANGED <<phase, turn>>
        BY <1>5 DEF ExecTool, Monitor
  <2>2. Within(state')
        BY <1>4, <1>5, ContinueIsWithin
  <2>3. Len(todo) # 1 => Asked(Tail(todo))
    <3> PICK T : todo \in Seq(T)
        BY <1>2 DEF ControlInv
    <3>1. todo # <<>> /\ Len(todo) \in Nat /\ Len(todo) # 0
          BY <1>2 DEF ControlInv
    <3>2. Tail(todo) \in Seq(T) /\ Len(Tail(todo)) = Len(todo) - 1
          BY <3>1
    <3>3. Len(todo) # 1 => Len(Tail(todo)) # 0
          BY <3>1, <3>2
    <3>4. Len(todo) # 1 => Tail(todo) # <<>>
          BY <3>3
    <3> QED
        BY <3>2, <3>4 DEF Asked
  <2> QED
      BY <1>1, <1>2, <1>3, <1>4, <2>1, <2>2, <2>3 DEF CallStep, ControlInv
<1>6. CASE ruling.action # "continue"
  <2>1. /\ phase' = "leaving" /\ outcome' = ruling.action
        /\ UNCHANGED <<turn, answer>>
        BY <1>6 DEF ExecTool, Monitor
  <2>2. outcome' \in Outcomes
        BY <1>6, <2>1, RulingIsKnown DEF Interventions, Outcomes
  <2> QED
      BY <1>1, <1>2, <1>3, <1>4, <2>1, <2>2 DEF CallStep
<1> QED
    BY <1>5, <1>6

-----------------------------------------------------------------------------
\* The loop variables stay in range, and tools are never run without calls.
LEMMA ControlNext ==
    ASSUME ControlInv, [Next]_vars
    PROVE  ControlInv'
<1>1. CASE UNCHANGED vars
      BY <1>1 DEF ControlInv, vars, workerVars
<1>2. CASE StartWorker
      BY <1>2, HarnessAssumption
         DEF ControlInv, StartWorker, NewState, Outcomes, Outputs, RootId
<1>3. CASE Chat
  <2>1. PICK s : TurnStep(s)
        BY <1>3, ChatTurns
  <2> QED
      BY <2>1 DEF ControlInv, TurnStep, Child, Asked, Counters, RootId
<1>4. CASE ExecTool
  <2>1. PICK s : CallStep(s)
        BY <1>4, ExecToolCalls
  <2>2. state' \in Counters
        BY <2>1, ObservedCounts DEF CallStep, ControlInv, Counters
  <2>3. turn \in 1..MaxTurns /\ turn' \in 1..MaxTurns + 1
        BY <2>1, HarnessAssumption DEF CallStep, ControlInv
  <2>4. phase' = "tools" => turn' = turn /\ Asked(todo')
        BY <2>1 DEF CallStep
  <2>5. /\ now' = now + 2 /\ reply' = reply /\ answer' = answer
        /\ outcome' \in Outcomes
        BY <2>1 DEF CallStep, Child
  <2> QED
      BY <2>2, <2>3, <2>4, <2>5 DEF ControlInv, Asked, Counters, RootId
<1>5. CASE OutOfTurns
      BY <1>5 DEF ControlInv, OutOfTurns, Outcomes, RootId
<1>6. CASE LeaveWorker
  <2>1. /\ phase' = "dispatch" /\ now' = now + 1
        /\ UNCHANGED <<turn, todo, reply, outcome, answer, state>>
        BY <1>6 DEF LeaveWorker, workerVars
  <2> QED
      BY <2>1 DEF ControlInv, RootId
<1>7. CASE CloseRun
      BY <1>7 DEF ControlInv, CloseRun, workerVars, RootId
<1> QED
    BY <1>1, <1>2, <1>3, <1>4, <1>5, <1>6, <1>7 DEF Next

\* Every step keeps the batch, what is open, and the tree.
LEMMA TreeNext ==
    ASSUME ControlInv, BatchInv, OpenInv, TreeInv, [Next]_vars
    PROVE  BatchInv' /\ OpenInv' /\ TreeInv'
<1>1. CASE UNCHANGED vars
  <2>1. UNCHANGED <<phase, now, batch, runSpan>>
        BY <1>1 DEF vars, workerVars
  <2> QED
      BY <2>1 DEF BatchInv, Batched, Ended, OpenInv, TreeInv, Parented,
         Encloses, IsAgent, RootId, Working
<1>2. CASE StartWorker
      BY <1>2, QuietKeepsTree DEF StartWorker
<1>3. CASE Chat
  <2>1. PICK s : TurnStep(s)
        BY <1>3, ChatTurns
  <2> QED
      BY <2>1, ChildKeeps DEF TurnStep, Working
<1>4. CASE ExecTool
  <2>1. PICK s : CallStep(s)
        BY <1>4, ExecToolCalls
  <2> QED
      BY <2>1, ChildKeeps DEF CallStep, Working
<1>5. CASE OutOfTurns
      BY <1>5, QuietKeepsTree DEF OutOfTurns, Working
<1>6. CASE LeaveWorker
      BY <1>6, LeaveKeepsTree
<1>7. CASE CloseRun
      BY <1>7, CloseKeepsTree
<1> QED
    BY <1>1, <1>2, <1>3, <1>4, <1>5, <1>6, <1>7 DEF Next

-----------------------------------------------------------------------------
\* The spans of the worker at work are finitely many.
LEMMA MineIsFinite ==
    ASSUME BatchInv
    PROVE  /\ Len(batch) \in Nat /\ DOMAIN batch = 1..Len(batch)
           /\ \A S \in SUBSET DOMAIN batch :
                 IsFiniteSet(S) /\ Cardinality(S) \in Nat
           /\ Mine \in SUBSET DOMAIN batch
           /\ Tools \in SUBSET DOMAIN batch /\ Chats \in SUBSET DOMAIN batch
           /\ Waiting(Mine) \in SUBSET DOMAIN batch
<1> PICK T : batch \in Seq(T)
    BY DEF BatchInv, Batched
<1>1. Len(batch) \in Nat /\ DOMAIN batch = 1..Len(batch)
      OBVIOUS
<1>2. IsFiniteSet(DOMAIN batch)
      BY <1>1, FS_Interval
<1>3. \A S \in SUBSET DOMAIN batch : IsFiniteSet(S) /\ Cardinality(S) \in Nat
      BY <1>2, FS_Subset, FS_CardinalityType
<1> QED
    BY <1>1, <1>3 DEF Mine, Tools, Chats, Waiting

\* A child's span is one more of the worker's own, and the last.
LEMMA MineGrows ==
    ASSUME BatchInv, NEW s, Child(s)
    PROVE  LET n == Len(batch) + 1
           IN  /\ n \in Nat /\ n \notin DOMAIN batch
               /\ batch'[n] = s /\ Mine' = Mine \cup {n}
               /\ \A i \in Mine : i \in Int /\ i < n /\ batch'[i] = batch[i]
               /\ Tools' = IF IsTool(s) THEN Tools \cup {n} ELSE Tools
               /\ Chats' = IF IsChat(s) THEN Chats \cup {n} ELSE Chats
<1> DEFINE n == Len(batch) + 1
<1>1. /\ Len(batch) \in Nat /\ DOMAIN batch = 1..Len(batch)
      /\ DOMAIN batch' = 1..n /\ batch'[n] = s
      /\ \A i \in DOMAIN batch : batch'[i] = batch[i]
      BY AppendFacts DEF BatchInv, Child
<1>2. s.parent = runSpan /\ runSpan' = runSpan
      BY DEF Child
<1>3. /\ n \in Nat /\ n \notin DOMAIN batch
      /\ \A i \in Mine : i \in DOMAIN batch /\ i \in Int /\ i < n
      BY <1>1 DEF Mine
<1>4. Mine' = Mine \cup {n}
      BY <1>1, <1>2 DEF Mine
<1>5. Tools' = {i \in Mine' : IsTool(batch'[i])}
      BY DEF Tools, IsTool
<1>6. Chats' = {i \in Mine' : IsChat(batch'[i])}
      BY DEF Chats, IsChat
<1>7. \A i \in Mine : batch'[i] = batch[i]
      BY <1>1, <1>3
<1>8. Tools' = IF IsTool(s) THEN Tools \cup {n} ELSE Tools
      BY <1>1, <1>4, <1>5, <1>7 DEF Tools
<1>9. Chats' = IF IsChat(s) THEN Chats \cup {n} ELSE Chats
      BY <1>1, <1>4, <1>6, <1>7 DEF Chats
<1> QED
    BY <1>1, <1>3, <1>4, <1>7, <1>8, <1>9

\* A span is of one kind.
LEMMA OneKind == \A s : ~(IsChat(s) /\ IsTool(s))
BY DEF IsChat, IsTool

\* A turn consumes all results that wait; a call adds its own.
LEMMA WaitingGrows ==
    ASSUME BatchInv, NEW s, Child(s), IsChat(s) \/ IsTool(s)
    PROVE  Waiting(Mine)' = IF IsChat(s) THEN {}
                            ELSE Waiting(Mine) \cup {Len(batch) + 1}
<1> DEFINE n == Len(batch) + 1
<1>1. /\ n \in Nat /\ n \notin DOMAIN batch
      /\ batch'[n] = s /\ Mine' = Mine \cup {n}
      /\ \A i \in Mine : i \in Int /\ i < n /\ batch'[i] = batch[i]
      BY MineGrows
<1>2. Waiting(Mine)' =
          {t \in Mine' : IsTool(batch'[t])
              /\ \A i \in Mine' : i > t => ~IsChat(batch'[i])}
      BY DEF Waiting, IsTool, IsChat
<1> HIDE DEF n
<1>3. CASE IsChat(s)
  <2>1. ASSUME NEW t \in Mine', IsTool(batch'[t]) PROVE n > t
        BY <1>1, <1>3, <2>1, OneKind
  <2> QED
      BY <1>1, <1>2, <1>3, <2>1
<1>4. CASE ~IsChat(s)
  <2>1. IsTool(s)
        BY <1>4
  <2>2. ASSUME NEW t \in Mine
        PROVE  t \in Waiting(Mine)' <=> t \in Waiting(Mine)
        BY <1>1, <1>2, <1>4, <2>2 DEF Waiting
  <2>3. n \in Waiting(Mine)'
        BY <1>1, <1>2, <1>4, <2>1
  <2>4. Waiting(Mine)' \subseteq Mine \cup {n} /\ Waiting(Mine) \subseteq Mine
        BY <1>1, <1>2 DEF Waiting
  <2>5. Waiting(Mine)' = Waiting(Mine) \cup {n}
        BY <2>2, <2>3, <2>4
  <2> QED
      BY <1>4, <2>5 DEF n
<1> QED
    BY <1>3, <1>4

-----------------------------------------------------------------------------
\* A step that leaves the batch and the worker's own variables alone.
LEMMA QuietKeepsSpans ==
    ASSUME LinksAreExact, batch' = batch
    PROVE  LinksAreExact'
BY DEF LinksAreExact, IsChat, IsTool

\* One more span keeps the links exact, if it is no turn's or if it links to
\* what waits for its worker.
LEMMA OneMoreLinked ==
    ASSUME BatchInv, LinksAreExact, NEW s, batch' = Append(batch, s),
           IsChat(s) =>
              LET mine == {i \in DOMAIN batch : batch[i].parent = s.parent}
              IN  /\ ToSet(s.links) = {batch[t].id : t \in Waiting(mine)}
                  /\ Len(s.links) = Cardinality(Waiting(mine))
    PROVE  LinksAreExact'
<1> DEFINE n == Len(batch) + 1
<1>1. /\ Len(batch) \in Nat /\ DOMAIN batch = 1..Len(batch)
      /\ DOMAIN batch' = 1..n /\ batch'[n] = s
      /\ \A i \in DOMAIN batch : batch'[i] = batch[i]
      BY AppendFacts DEF BatchInv
<1> DEFINE Before(b, c) == {i \in 1..c - 1 : b[i].parent = b[c].parent}
           Used(b, c) == {t \in Before(b, c) : IsTool(b[t])
                             /\ \A i \in Before(b, c) : i > t => ~IsChat(b[i])}
           Exact(b, c) ==
               /\ ToSet(b[c].links) = {b[t].id : t \in Used(b, c)}
               /\ Len(b[c].links) = Cardinality(Used(b, c))
<1>2. ASSUME NEW c \in DOMAIN batch, IsChat(batch[c]) PROVE Exact(batch, c)
      BY <1>2 DEF LinksAreExact
<1>3. ASSUME NEW c \in DOMAIN batch', IsChat(batch'[c]) PROVE Exact(batch', c)
  <2>1. CASE c \in DOMAIN batch
    <3>1. \A i \in 1..c - 1 : batch'[i] = batch[i]
          BY <1>1, <2>1
    <3>2. batch'[c] = batch[c]
          BY <1>1, <2>1
    <3>3. Before(batch', c) = Before(batch, c)
          BY <3>1, <3>2
    <3>4. Used(batch', c) = Used(batch, c)
          BY <3>1, <3>3
    <3>5. {batch'[t].id : t \in Used(batch', c)}
              = {batch[t].id : t \in Used(batch, c)}
      <4>1. \A t \in Used(batch, c) : batch'[t].id = batch[t].id
            BY <3>1
      <4> HIDE DEF Used
      <4> QED
          BY <3>4, <4>1
    <3> QED
        BY <1>2, <1>3, <2>1, <3>2, <3>4, <3>5
  <2>2. CASE c = n
    <3> DEFINE mine == {i \in DOMAIN batch : batch[i].parent = s.parent}
    <3>1. Before(batch', n) = mine
          BY <1>1
    <3>2. Used(batch', n) = Waiting(mine)
          BY <1>1, <3>1 DEF Waiting
    <3>3. {batch'[t].id : t \in Waiting(mine)}
              = {batch[t].id : t \in Waiting(mine)}
          BY <1>1 DEF Waiting
    <3>4. IsChat(s)
          BY <1>1, <1>3, <2>2
    <3> QED
        BY <1>1, <2>2, <3>2, <3>3, <3>4
  <2>3. c = n \/ c \in DOMAIN batch
        BY <1>1, <1>3
  <2> HIDE DEF Exact, n
  <2> QED
      BY <2>1, <2>2, <2>3
<1> QED
    BY <1>3 DEF LinksAreExact, IsChat, IsTool

-----------------------------------------------------------------------------
\* Every step leaves the links of all turns exact.
LEMMA LinksNext ==
    ASSUME ControlInv, BatchInv, PendingInv, LinksAreExact, [Next]_vars
    PROVE  LinksAreExact'
<1>1. CASE UNCHANGED vars
      BY <1>1, QuietKeepsSpans DEF vars
<1>2. CASE StartWorker
      BY <1>2, QuietKeepsSpans DEF StartWorker
<1>3. CASE Chat
  <2>1. PICK s : TurnStep(s)
        BY <1>3, ChatTurns
  <2>2. /\ batch' = Append(batch, s) /\ s.parent = runSpan
        /\ s.links = pending /\ phase \in Working
        BY <2>1 DEF TurnStep, Child, Working
  <2>3. /\ ToSet(pending) = {batch[t].id : t \in Waiting(Mine)}
        /\ Len(pending) = Cardinality(Waiting(Mine))
        BY <2>2 DEF PendingInv
  <2> QED
      BY <2>2, <2>3, OneMoreLinked DEF Mine
<1>4. CASE ExecTool
  <2>1. PICK s : CallStep(s)
        BY <1>4, ExecToolCalls
  <2>2. batch' = Append(batch, s) /\ ~IsChat(s)
        BY <2>1, OneKind DEF CallStep, Child
  <2> QED
      BY <2>2, OneMoreLinked
<1>5. CASE OutOfTurns
      BY <1>5, QuietKeepsSpans DEF OutOfTurns
<1>6. CASE LeaveWorker
  <2>1. batch' = Append(batch, WorkerSpan) /\ ~IsChat(WorkerSpan)
        BY <1>6, WorkerFields DEF LeaveWorker, IsChat
  <2> QED
      BY <2>1, OneMoreLinked
<1>7. CASE CloseRun
  <2> PICK s : s = RootSpan(events')
      OBVIOUS
  <2>1. batch' = Append(batch, s) /\ ~IsChat(s)
        BY <1>7, RootFields DEF CloseRun, IsChat
  <2> QED
      BY <2>1, OneMoreLinked
<1> QED
    BY <1>1, <1>2, <1>3, <1>4, <1>5, <1>6, <1>7 DEF Next

\* A worker that starts has no spans yet.
LEMMA StartsEmpty ==
    ASSUME BatchInv, StartWorker
    PROVE  Mine' = {} /\ Waiting(Mine)' = {} /\ Tools' = {} /\ Chats' = {}
<1>1. batch' = batch /\ runSpan' = now
      BY DEF StartWorker
<1>2. \A i \in DOMAIN batch : batch[i].parent # now
  <2> SUFFICES ASSUME NEW i \in DOMAIN batch PROVE batch[i].parent # now
      OBVIOUS
  <2>1. /\ batch[i].parent \in Int /\ batch[i].id \in Nat
        /\ batch[i].end \in Nat /\ batch[i].parent < batch[i].id
        /\ batch[i].id < batch[i].end /\ batch[i].end < now
        BY DEF BatchInv, Ended
  <2> QED
      BY <2>1
<1>3. Mine' = {}
      BY <1>1, <1>2 DEF Mine
<1> QED
    BY <1>3 DEF Waiting, Tools, Chats

\* The pending links are those results that no turn has consumed yet.
LEMMA PendingNext ==
    ASSUME ControlInv, BatchInv, PendingInv, [Next]_vars
    PROVE  PendingInv'
<1>1. CASE UNCHANGED vars
  <2>1. UNCHANGED <<phase, batch, runSpan, pending>>
        BY <1>1 DEF vars, workerVars
  <2> QED
      BY <2>1 DEF PendingInv, Waiting, Mine, IsTool, IsChat
<1>2. CASE StartWorker
  <2>1. pending' = <<>> /\ Waiting(Mine)' = {}
        BY <1>2, StartsEmpty DEF StartWorker
  <2>2. ToSet(pending') = {} /\ Len(pending') = 0 /\ pending' \in Seq(Nat)
        BY <2>1 DEF ToSet
  <2> QED
      BY <2>1, <2>2, FS_EmptySet DEF PendingInv
<1>3. CASE Chat
  <2>1. PICK s : TurnStep(s)
        BY <1>3, ChatTurns
  <2>2. pending' = <<>> /\ Waiting(Mine)' = {}
        BY <2>1, WaitingGrows DEF TurnStep
  <2>3. ToSet(pending') = {} /\ Len(pending') = 0 /\ pending' \in Seq(Nat)
        BY <2>2 DEF ToSet
  <2> QED
      BY <2>2, <2>3, FS_EmptySet DEF PendingInv
<1>4. CASE ExecTool
  <2>1. PICK s : CallStep(s)
        BY <1>4, ExecToolCalls
  <2> DEFINE n == Len(batch) + 1
             W == Waiting(Mine)
  <2>2. /\ pending \in Seq(Nat) /\ ToSet(pending) = {batch[t].id : t \in W}
        /\ Len(pending) = Cardinality(W) /\ phase \in Working
        BY <2>1 DEF PendingInv, CallStep, Working
  <2>3. /\ Child(s) /\ IsTool(s) /\ ~IsChat(s) /\ s.id \in Nat
        /\ pending' = Append(pending, s.id)
        BY <2>1, OneKind DEF CallStep, Child, ControlInv
  <2>4. Waiting(Mine)' = W \cup {n}
        BY <2>3, WaitingGrows
  <2>5. /\ n \notin W /\ batch'[n] = s
        /\ \A t \in W : batch'[t] = batch[t]
        BY <2>3, MineGrows DEF Waiting
  <2>6. IsFiniteSet(W) /\ Cardinality(W) \in Nat
        BY MineIsFinite
  <2> HIDE DEF W, n
  <2>7. Cardinality(W \cup {n}) = Cardinality(W) + 1
        BY <2>5, <2>6, FS_AddElement
  <2>8. /\ pending' \in Seq(Nat) /\ Len(pending') = Len(pending) + 1
        /\ ToSet(pending') = ToSet(pending) \cup {s.id}
    <3>1. /\ pending' \in Seq(Nat) /\ Len(pending) \in Nat
          /\ DOMAIN pending = 1..Len(pending)
          /\ DOMAIN pending' = 1..Len(pending) + 1
          /\ Len(pending') = Len(pending) + 1
          /\ \A i \in DOMAIN pending : pending'[i] = pending[i]
          /\ pending'[Len(pending) + 1] = s.id
          BY <2>2, <2>3
    <3>2. DOMAIN pending' = DOMAIN pending \cup {Len(pending) + 1}
          BY <3>1
    <3> QED
        BY <3>1, <3>2 DEF ToSet
  <2>9. {batch'[t].id : t \in W \cup {n}} = {batch[t].id : t \in W} \cup {s.id}
        BY <2>5
  <2> QED
      BY <2>2, <2>4, <2>7, <2>8, <2>9 DEF PendingInv
<1>5. CASE OutOfTurns
      BY <1>5 DEF OutOfTurns, PendingInv, Working
<1>6. CASE LeaveWorker
      BY <1>6 DEF LeaveWorker, PendingInv, Working
<1>7. CASE CloseRun
      BY <1>7 DEF CloseRun, PendingInv, Working
<1> QED
    BY <1>1, <1>2, <1>3, <1>4, <1>5, <1>6, <1>7 DEF Next

-----------------------------------------------------------------------------
\* The tokens of spans are numbers, also after one more span.
LEMMA SpansAreCounted ==
    ASSUME BatchInv
    PROVE  \A S \in SUBSET DOMAIN batch : Counted(batch, S)
BY DEF BatchInv, Ended, Counted

\* One more failure, or a success, after the failures that came last.
LEMMA FailuresAreCounted ==
    ASSUME BatchInv, NEW s, Child(s), IsTool(s), state \in Counters,
           state' = Observed("tool", s.ok, reply),
           \A F \in SUBSET Tools :
              LastFailures(F) => Cardinality(F) <= state.failures,
           NEW G \in SUBSET Tools', LastFailures(G)'
    PROVE  Cardinality(G) <= state'.failures
<1> DEFINE n == Len(batch) + 1
           F == G \ {n}
<1>1. /\ n \in Nat /\ n \notin DOMAIN batch /\ batch'[n] = s
      /\ \A i \in Mine : i \in Int /\ i < n /\ batch'[i] = batch[i]
      /\ Tools' = Tools \cup {n}
      BY MineGrows
<1>2. Tools \in SUBSET Mine /\ n \notin Tools
      BY <1>1 DEF Tools, Mine
<1>3. /\ \A i \in G : ~batch'[i].ok
      /\ \A i \in G, j \in Tools' : j > i => j \in G
      BY DEF LastFailures
<1> HIDE DEF n
<1>4. F \in SUBSET Tools
      BY <1>1
<1>5. LastFailures(F)
  <2>1. \A i \in F : ~batch[i].ok
        BY <1>1, <1>2, <1>3, <1>4
  <2>2. \A i \in F, j \in Tools : j > i => j \in F
        BY <1>1, <1>2, <1>3
  <2> QED
      BY <2>1, <2>2 DEF LastFailures
<1>6. /\ IsFiniteSet(F) /\ Cardinality(F) \in Nat
      /\ Cardinality(F) <= state.failures
      BY <1>4, <1>5, MineIsFinite
<1>7. CASE s.ok
  <2>1. n \notin G
        BY <1>1, <1>3, <1>7
  <2>2. \A i \in G : i \in Tools /\ i < n
        BY <1>1, <1>2, <2>1
  <2>3. G = {}
        BY <1>1, <1>3, <2>1, <2>2
  <2>4. state'.failures = 0
        BY <1>7 DEF Observed
  <2> QED
      BY <2>3, <2>4, FS_EmptySet
<1>8. CASE ~s.ok
  <2>1. state'.failures = state.failures + 1
        BY <1>8 DEF Observed
  <2>2. Cardinality(F \cup {n}) = Cardinality(F) + 1
        BY <1>6, FS_AddElement
  <2>3. Cardinality(G) = Cardinality(F) \/ Cardinality(G) = Cardinality(F) + 1
    <3>1. CASE n \in G
      <4>1. G = F \cup {n}
            BY <3>1
      <4> QED
          BY <2>2, <4>1
    <3>2. CASE n \notin G
      <4>1. G = F
            BY <3>2
      <4> QED
          BY <4>1
    <3> QED
        BY <3>1, <3>2
  <2>4. state.failures \in Nat
        BY DEF Counters
  <2> HIDE DEF F
  <2> QED
      BY <1>6, <2>1, <2>3, <2>4
<1> QED
    BY <1>7, <1>8

\* A turn that asks for tools adds its tokens to what was spent.
LEMMA TurnKeepsLimits ==
    ASSUME ControlInv, BatchInv, LimitInv, NEW s, TurnStep(s),
           phase' = "tools"
    PROVE  LimitInv'
<1> DEFINE n == Len(batch) + 1
<1>1. /\ phase = "turn" /\ Child(s) /\ IsChat(s) /\ ~IsTool(s)
      /\ reply' = s.tokens /\ state' = state /\ s.tokens \in Nat
      BY OneKind DEF TurnStep, Child
<1>2. /\ n \in Nat /\ n \notin DOMAIN batch /\ batch'[n] = s
      /\ \A i \in Mine : i \in Int /\ i < n /\ batch'[i] = batch[i]
      /\ Tools' = Tools /\ Chats' = Chats \cup {n}
      BY <1>1, MineGrows
<1>3. /\ Tools \in SUBSET Mine /\ Chats \in SUBSET Mine
      /\ Chats \in SUBSET DOMAIN batch /\ IsFiniteSet(Chats)
      /\ Counted(batch, Chats)
      BY MineIsFinite, SpansAreCounted DEF Tools, Chats
<1>4. /\ state.steps <= MaxSteps /\ state.tokens <= MaxTokens
      /\ state.failures <= MaxFailures
      /\ Cardinality(Tools) = state.steps
      /\ Spent(batch, Chats) <= state.tokens
      /\ \A F \in SUBSET Tools :
            LastFailures(F) => Cardinality(F) <= state.failures
      /\ state.tokens \in Nat
  <2>1. phase \in Working /\ phase # "tools" /\ state.tokens \in Nat
        BY <1>1 DEF Working, ControlInv
  <2> QED
      BY <2>1 DEF LimitInv
<1>5. Spent(batch', Chats') <= state'.tokens + reply'
  <2>1. Spent(batch, Chats) \in Nat
        BY <1>3, SpentCounts
  <2>2. \A i \in Chats : batch'[i].tokens = batch[i].tokens
        BY <1>2, <1>3
  <2>3. Spent(batch', Chats) = Spent(batch, Chats)
        BY <1>3, <2>2, SpentAgrees
  <2>4. n \notin Chats /\ Counted(batch', Chats \cup {n})
        BY <1>1, <1>2, <1>3, <2>2 DEF Counted
  <2> HIDE DEF n
  <2>5. Spent(batch', Chats \cup {n}) = Spent(batch', Chats) + batch'[n].tokens
        BY <1>3, <2>4, SpentAdds
  <2> QED
      BY <1>1, <1>2, <1>4, <2>1, <2>3, <2>5
<1>6. \E c \in Chats' : /\ \A i \in Chats' : i <= c
                        /\ batch'[c].tokens = reply'
  <2>1. n \in Chats' /\ \A i \in Chats' : i <= n
        BY <1>2, <1>3
  <2>2. batch'[n].tokens = reply'
        BY <1>1, <1>2
  <2> QED
      BY <2>1, <2>2
<1>7. ASSUME NEW F \in SUBSET Tools', LastFailures(F)'
      PROVE  Cardinality(F) <= state.failures
  <2>1. /\ F \in SUBSET Tools
        /\ \A i \in F : ~batch[i].ok
        /\ \A i \in F, j \in Tools : j > i => j \in F
        BY <1>2, <1>3, <1>7 DEF LastFailures
  <2> QED
      BY <1>4, <2>1 DEF LastFailures
<1> QED
    BY <1>1, <1>2, <1>4, <1>5, <1>6, <1>7 DEF LimitInv

\* A tool call is one step more; its report covers what its turn spent.
LEMMA CallKeepsLimits ==
    ASSUME ControlInv, BatchInv, LimitInv, NEW s, CallStep(s),
           phase' \in Working
    PROVE  LimitInv'
<1> DEFINE n == Len(batch) + 1
<1>1. /\ phase = "tools" /\ Child(s) /\ IsTool(s) /\ ~IsChat(s)
      /\ reply' = reply /\ state' = Observed("tool", s.ok, reply)
      /\ Within(state') /\ reply \in Nat /\ state \in Counters
      BY OneKind DEF CallStep, ControlInv, Counters, Working
<1>2. /\ n \in Nat /\ n \notin DOMAIN batch /\ batch'[n] = s
      /\ \A i \in Mine : i \in Int /\ i < n /\ batch'[i] = batch[i]
      /\ Tools' = Tools \cup {n} /\ Chats' = Chats
      BY <1>1, MineGrows
<1>3. /\ Tools \in SUBSET Mine /\ Chats \in SUBSET Mine
      /\ Tools \in SUBSET DOMAIN batch /\ IsFiniteSet(Tools)
      /\ Cardinality(Tools) \in Nat /\ IsFiniteSet(Chats)
      /\ Counted(batch, Chats)
      BY MineIsFinite, SpansAreCounted DEF Tools, Chats
<1>4. /\ Cardinality(Tools) = state.steps
      /\ Spent(batch, Chats) <= state.tokens + reply
      /\ \A F \in SUBSET Tools :
            LastFailures(F) => Cardinality(F) <= state.failures
      /\ \E c \in Chats : /\ \A i \in Chats : i <= c
                          /\ batch[c].tokens = reply
      BY <1>1 DEF LimitInv, Working
<1>5. /\ state'.steps = state.steps + 1
      /\ state'.tokens = state.tokens + reply /\ state'.tokens \in Nat
      BY <1>1 DEF Observed, Counters
<1>6. Cardinality(Tools') = state'.steps
  <2> HIDE DEF n
  <2>1. n \notin Tools
        BY <1>2, <1>3
  <2>2. Cardinality(Tools \cup {n}) = Cardinality(Tools) + 1
        BY <1>3, <2>1, FS_AddElement
  <2> QED
      BY <1>2, <1>4, <1>5, <2>2
<1>7. Spent(batch', Chats') <=
          state'.tokens + (IF phase' = "tools" THEN reply' ELSE 0)
  <2>1. Spent(batch, Chats) \in Nat
        BY <1>3, SpentCounts
  <2>2. \A i \in Chats : batch'[i].tokens = batch[i].tokens
        BY <1>2, <1>3
  <2>3. Spent(batch', Chats) = Spent(batch, Chats)
        BY <1>3, <2>2, SpentAgrees
  <2> QED
      BY <1>1, <1>2, <1>4, <1>5, <2>1, <2>3
<1>8. \E c \in Chats' : /\ \A i \in Chats' : i <= c
                        /\ batch'[c].tokens = reply'
      BY <1>1, <1>2, <1>3, <1>4
<1>9. \A F \in SUBSET Tools' :
          LastFailures(F)' => Cardinality(F) <= state'.failures
      BY <1>1, <1>4, FailuresAreCounted
<1> QED
    BY <1>1, <1>6, <1>7, <1>8, <1>9 DEF LimitInv, Within

\* The limits hold for every worker that is still at work.
LEMMA LimitNext ==
    ASSUME ControlInv, BatchInv, LimitInv, [Next]_vars
    PROVE  LimitInv'
<1>1. CASE UNCHANGED vars
  <2>1. UNCHANGED <<phase, batch, runSpan, reply, state>>
        BY <1>1 DEF vars, workerVars
  <2>2. Tools' = Tools /\ Chats' = Chats
        BY <2>1 DEF Tools, Chats, Mine, IsTool, IsChat
  <2> QED
      BY <2>1, <2>2 DEF LimitInv, LastFailures
<1>2. CASE StartWorker
  <2>1. Tools' = {} /\ Chats' = {} /\ phase' = "turn" /\ state' = NewState
        BY <1>2, StartsEmpty DEF StartWorker
  <2>2. Spent(batch', {}) = 0
        BY FS_EmptySet, SpentCounts DEF Counted
  <2>3. Cardinality({}) = 0
        BY FS_EmptySet
  <2>4. \A F \in SUBSET Tools' : Cardinality(F) = 0
        BY <2>1, <2>3
  <2> QED
      BY <2>1, <2>2, <2>3, <2>4, HarnessAssumption DEF LimitInv, NewState
<1>3. CASE Chat
  <2>1. PICK s : TurnStep(s)
        BY <1>3, ChatTurns
  <2>2. CASE phase' = "tools"
        BY <2>1, <2>2, TurnKeepsLimits
  <2>3. CASE phase' = "leaving"
        BY <2>3 DEF LimitInv, Working
  <2> QED
      BY <2>1, <2>2, <2>3 DEF TurnStep
<1>4. CASE ExecTool
  <2>1. PICK s : CallStep(s)
        BY <1>4, ExecToolCalls
  <2>2. CASE phase' \in Working
        BY <2>1, <2>2, CallKeepsLimits
  <2>3. CASE phase' \notin Working
        BY <2>3 DEF LimitInv, Working
  <2> QED
      BY <2>2, <2>3
<1>5. CASE OutOfTurns
      BY <1>5 DEF OutOfTurns, LimitInv, Working
<1>6. CASE LeaveWorker
      BY <1>6 DEF LeaveWorker, LimitInv, Working
<1>7. CASE CloseRun
      BY <1>7 DEF CloseRun, LimitInv, Working
<1> QED
    BY <1>1, <1>2, <1>3, <1>4, <1>5, <1>6, <1>7 DEF Next

-----------------------------------------------------------------------------
\* A run starts with no spans and no worker at work.
LEMMA SpanInit == Init => SpanInv
<1> SUFFICES ASSUME Init PROVE SpanInv
    OBVIOUS
<1>1. /\ batch = <<>> /\ phase = "dispatch" /\ now = RootId + 1
      /\ DOMAIN batch = {}
      BY DEF Init
<1>2. ControlInv
      BY <1>1, HarnessAssumption
         DEF Init, ControlInv, NewState, Outcomes, Outputs, RootId
<1>3. BatchInv
      BY <1>1 DEF BatchInv, Batched
<1>4. OpenInv /\ TreeInv /\ PendingInv /\ LimitInv
      BY <1>1 DEF OpenInv, TreeInv, PendingInv, LimitInv, Working
<1>5. LinksAreExact
      BY <1>1 DEF LinksAreExact
<1> QED
    BY <1>2, <1>3, <1>4, <1>5 DEF SpanInv

\* Every step keeps the whole invariant.
LEMMA SpanNext == SpanInv /\ [Next]_vars => SpanInv'
BY ControlNext, TreeNext, PendingNext, LinksNext, LimitNext DEF SpanInv

\* What a run holds about its spans at every step.
THEOREM SpanInvariant == Spec => []SpanInv
<1> QED
    BY SpanInit, SpanNext, PTL DEF Spec

-----------------------------------------------------------------------------
\* Type correctness: the variables stay in range, and so does every span of
\* the evidence.
THEOREM HarnessTypes == Spec => []TypeOK
<1>1. LedgerInv /\ SpanInv => TypeOK
  <2> SUFFICES ASSUME LedgerInv, SpanInv PROVE TypeOK
      OBVIOUS
  <2>1. phase \in Phases /\ idx \in 1..NWorkers + 1
        BY HarnessAssumption DEF LedgerInv, AtWork, Workers, Phases
  <2>2. answers \subseteq Workers /\ halted \subseteq Workers
        /\ rerouted \subseteq Workers
        BY DEF LedgerInv, EveryWorkerIsAccounted, Left
  <2>3. ASSUME NEW i \in DOMAIN batch
        PROVE  batch[i].id \in 1..now /\ batch[i].output \in Outputs
        BY DEF SpanInv, ControlInv, BatchInv, Ended, RootId
  <2> QED
      BY <2>1, <2>2, <2>3 DEF TypeOK, SpanInv, ControlInv
<1> QED
    BY <1>1, LedgerInvariant, SpanInvariant, PTL

\* A turn links to exactly the tool results that it consumes: those of its
\* own worker since that worker's previous turn.
THEOREM LinksTellConsumption == Spec => []LinksAreExact
<1>1. SpanInv => LinksAreExact
      BY DEF SpanInv
<1> QED
    BY <1>1, SpanInvariant, PTL

\* What a run exports is one closed tree of spans.
THEOREM ExportedTree == Spec => []ExportIsATree
<1>1. SpanInv => ExportIsATree
  <2> SUFFICES ASSUME SpanInv, phase = "closed" PROVE ExportIsATree
      BY DEF ExportIsATree
  <2>1. \A i, j \in DOMAIN batch : batch[i].id = batch[j].id => i = j
        BY DEF SpanInv, BatchInv
  <2>2. ASSUME NEW i \in DOMAIN batch
        PROVE  IF i = Len(batch)
               THEN batch[i].parent = NoSpan /\ batch[i].closed
               ELSE \E p \in DOMAIN batch : Encloses(batch[p], batch[i])
        BY DEF SpanInv, TreeInv, Parented, Working
  <2> QED
      BY <2>1, <2>2 DEF ExportIsATree, Encloses
<1> QED
    BY <1>1, SpanInvariant, PTL

\* The supervisor's limits bite in time: a worker still at work is within
\* all three of them, measured on the spans that it left.
THEOREM LimitsBite == Spec => []StoppedInTime
<1>1. SpanInv => StoppedInTime
  <2> SUFFICES ASSUME SpanInv, phase \in Working PROVE StoppedInTime
      BY DEF StoppedInTime, Working
  <2> DEFINE lastTurns == {i \in Chats : \A j \in Chats : j <= i}
  <2>1. /\ state.steps <= MaxSteps /\ state.tokens <= MaxTokens
        /\ state.failures <= MaxFailures
        /\ Cardinality(Tools) = state.steps
        /\ Spent(batch, Chats) <=
              state.tokens + (IF phase = "tools" THEN reply ELSE 0)
        /\ phase = "tools" =>
              \E c \in Chats : /\ \A i \in Chats : i <= c
                               /\ batch[c].tokens = reply
        /\ \A F \in SUBSET Tools :
              LastFailures(F) => Cardinality(F) <= state.failures
        BY DEF SpanInv, LimitInv
  <2>2. /\ state.tokens \in Nat /\ state.failures \in Nat /\ reply \in Nat
        /\ MaxTokens \in Nat /\ MaxFailures \in Nat
        BY HarnessAssumption DEF SpanInv, ControlInv
  <2>3. Spent(batch, Chats \ lastTurns) <= MaxTokens
    <3>1. /\ Chats \in SUBSET DOMAIN batch /\ IsFiniteSet(Chats)
          /\ DOMAIN batch \subseteq Nat
          BY MineIsFinite DEF SpanInv
    <3>2. /\ IsFiniteSet(Chats \ lastTurns)
          /\ Counted(batch, Chats) /\ Counted(batch, Chats \ lastTurns)
          BY <3>1, FS_Subset, SpansAreCounted DEF SpanInv
    <3>3. ASSUME NEW c \in Chats, \A i \in Chats : i <= c
          PROVE  Spent(batch, Chats) =
                    Spent(batch, Chats \ lastTurns) + batch[c].tokens
      <4>1. lastTurns = {c}
            BY <3>1, <3>3
      <4>2. Chats = (Chats \ {c}) \cup {c} /\ c \notin Chats \ {c}
            OBVIOUS
      <4>3. Spent(batch, (Chats \ {c}) \cup {c}) =
               Spent(batch, Chats \ {c}) + batch[c].tokens
            BY <3>2, <4>1, <4>2, SpentAdds
      <4> QED
          BY <4>1, <4>2, <4>3
    <3>4. Spent(batch, Chats \ lastTurns) \in Nat /\ Spent(batch, Chats) \in Nat
          BY <3>1, <3>2, SpentCounts
    <3>5. CASE lastTurns = {}
      <4>1. phase # "tools" /\ Chats \ lastTurns = Chats
            BY <2>1, <3>5
      <4> QED
          BY <2>1, <2>2, <3>4, <4>1
    <3>6. ASSUME NEW c \in lastTurns
          PROVE  Spent(batch, Chats \ lastTurns) <= MaxTokens
      <4>1. /\ c \in Chats /\ \A i \in Chats : i <= c
            /\ batch[c].tokens \in Nat
            BY <3>2, <3>6 DEF Counted
      <4>2. Spent(batch, Chats) =
               Spent(batch, Chats \ lastTurns) + batch[c].tokens
            BY <3>3, <4>1
      <4>3. phase = "tools" => batch[c].tokens = reply
            BY <2>1, <3>1, <4>1
      <4> HIDE DEF lastTurns
      <4> QED
          BY <2>1, <2>2, <3>4, <4>1, <4>2, <4>3
    <3> QED
        BY <3>5, <3>6
  <2>4. ASSUME NEW F \in SUBSET Tools, LastFailures(F)
        PROVE  Cardinality(F) <= MaxFailures
    <3>1. /\ Cardinality(F) <= state.failures
          /\ Cardinality(F) \in Nat
          BY <2>1, <2>4, MineIsFinite DEF SpanInv
    <3> QED
        BY <2>1, <2>2, <3>1
  <2> QED
      BY <2>1, <2>3, <2>4 DEF StoppedInTime, Tools, Chats, Spent, LastFailures
<1> QED
    BY <1>1, SpanInvariant, PTL

-----------------------------------------------------------------------------
\* The contents of the batch.
Fields ==
    {"name", "id", "parent", "start", "end", "error", "links", "system",
     "tokens", "calls", "tool", "args", "callId", "ok", "final", "output",
     "contract", "completed", "closed", "decisions"}

IsARecord(s) == s = [f \in Fields |-> s[f]]

\* What a span holds, by its kind.
WellFormed(s) ==
    /\ IsARecord(s)
    /\ IsAgent(s) \/ IsChat(s) \/ IsTool(s)
    /\ IsAgent(s) <=> s.parent <= RootId
    /\ IsAgent(s) => s.completed
    /\ IsChat(s) => s.system
    /\ s.links \in Seq(Nat)
    /\ ~IsChat(s) => s.links = <<>>
    /\ s.contract => s.output # "none"

\* Turns and tool calls start when everything before them has ended.
ShapeInv ==
    \A i \in DOMAIN batch :
        /\ WellFormed(batch[i])
        /\ ~IsAgent(batch[i]) =>
              \A j \in 1..i - 1 : batch[j].end <= batch[i].start

\* Where in the batch the spans of the agents are: a worker's behind one of
\* its own, the root's last and behind a worker's.
PlaceInv ==
    /\ \A i \in DOMAIN batch :
          /\ batch[i].parent = RootId =>
                i > 1 /\ batch[i - 1].parent = batch[i].id
          /\ batch[i].parent = NoSpan => phase = "closed" /\ i = Len(batch)
    /\ phase \in {"tools", "leaving"} \/ (phase = "turn" /\ turn > 1) =>
          batch # <<>> /\ batch[Len(batch)].parent = runSpan
    /\ phase = "dispatch" /\ idx > 1 =>
          batch # <<>> /\ batch[Len(batch)].parent = RootId
    /\ phase = "closed" =>
          /\ Len(batch) > 1 /\ batch[Len(batch) - 1].parent = RootId
          /\ batch[Len(batch)].id = RootId
          /\ batch[Len(batch)].parent = NoSpan
          /\ batch[Len(batch)].decisions # <<>>

\* The first span to end is that of the first worker's first turn.
FirstInv ==
    IF batch = <<>>
    THEN \/ phase = "dispatch" /\ idx = 1 /\ now = 2
         \/ phase = "turn" /\ turn = 1 /\ runSpan = 2 /\ now = 3
    ELSE batch[1].id = 3 /\ batch[1].parent = 2

ToolSpans == {i \in DOMAIN batch : IsTool(batch[i])}

Declares(c, id) == IsChat(batch[c]) /\ id \in ToSet(batch[c].calls)

\* No tool is run that no turn asked for.
DeclaredInv ==
    /\ \A i \in ToolSpans : \E c \in DOMAIN batch : Declares(c, batch[i].callId)
    /\ phase = "tools" =>
          \E c \in DOMAIN batch : \A k \in DOMAIN todo : Declares(c, todo[k].id)

\* Call ids number worker, turn and call; those up to the turn at work may
\* have been used.
Numbers == (Nat \X Nat \X Nat) \ {NoCall}

SoFar == {id \in Numbers :
    \/ id[1] < idx
    \/ /\ phase \in {"turn", "tools", "leaving"} /\ id[1] = idx
       /\ \/ id[2] < turn
          \/ phase \in {"tools", "leaving"} /\ id[2] = turn}

FreshInv ==
    /\ \A i \in ToolSpans : batch[i].callId \in SoFar
    /\ \A i, j \in ToolSpans : batch[i].callId = batch[j].callId => i = j
    /\ phase = "tools" =>
          /\ \A k \in DOMAIN todo :
                /\ todo[k].id \in Numbers
                /\ todo[k].id[1] = idx /\ todo[k].id[2] = turn
                /\ \A i \in ToolSpans : batch[i].callId # todo[k].id
          /\ \A k, l \in DOMAIN todo : todo[k].id = todo[l].id => k = l

\* A turn that ended in an answer, or in an error.
Concluded(s) == IsChat(s) /\ (s.error \/ (s.final /\ s.output # "none"))

-----------------------------------------------------------------------------
\* A turn's span, and the calls it leaves to be run.
TurnGain(s) ==
    /\ phase = "turn" /\ turn <= MaxTurns
    /\ batch' = Append(batch, s) /\ now' = now + 2
    /\ UNCHANGED <<idx, runSpan, turn>>
    /\ IsARecord(s)
    /\ IsChat(s) /\ s.id = now /\ s.start = now /\ s.parent = runSpan
    /\ s.system /\ s.links = pending
    /\ s.contract => s.output # "none"
    /\ \/ /\ phase' = "tools"
          /\ \E T : todo' \in Seq(T)
          /\ s.calls = [k \in DOMAIN todo' |-> todo'[k].id]
          /\ \A k \in DOMAIN todo' : todo'[k].id = CallId(idx, turn, k)
       \/ /\ phase' = "leaving"
          /\ s.calls = <<>>
          /\ outcome' = "answered" /\ answer' # "none" => Concluded(s)

\* A tool call's span, and what becomes of the other calls.
CallGain(s) ==
    /\ phase = "tools"
    /\ batch' = Append(batch, s) /\ now' = now + 2
    /\ UNCHANGED <<idx, runSpan>>
    /\ IsARecord(s)
    /\ IsTool(s) /\ s.id = now /\ s.start = now /\ s.parent = runSpan
    /\ s.links = <<>> /\ ~s.contract /\ s.calls = <<>>
    /\ s.callId = Head(todo).id
    /\ \/ phase' = "turn" /\ turn' = turn + 1 /\ Len(todo) = 1
       \/ phase' = "tools" /\ turn' = turn /\ todo' = Tail(todo)
       \/ phase' = "leaving" /\ turn' = turn /\ outcome' \in Interventions

\* The span of a turn is a record, whatever its attributes.
LEMMA ChatIsARecord ==
    ASSUME NEW error, NEW tokens, NEW calls, NEW output,
           NEW s, s = ChatSpan(error, tokens, calls, output)
    PROVE  IsARecord(s)
<1>1. PICK r : r = Span("chat", now, runSpan, now + 1)
      OBVIOUS
<1>2. PICK final : final = (output # "none")
      OBVIOUS
<1>3. PICK contract : contract = (HasContract /\ output # "none")
      OBVIOUS
<1>4. s = [r EXCEPT !.links = pending, !.error = error, !.system = TRUE,
                    !.tokens = tokens, !.calls = calls, !.final = final,
                    !.output = output, !.contract = contract]
      BY <1>1, <1>2, <1>3 DEF ChatSpan
<1>5. DOMAIN r = Fields
      BY <1>1 DEF Span, Fields
<1> QED
    BY <1>4, <1>5 DEF IsARecord

\* Every reply of the provider gains such a span.
LEMMA ChatGains ==
    ASSUME Chat
    PROVE  \E s : TurnGain(s)
<1>1. ASSUME NEW calls \in CallLists, NEW tokens \in TokenCounts,
             ChatCalls(calls, tokens)
      PROVE  \E s : TurnGain(s)
  <2> PICK req : req = Requested(calls)
      OBVIOUS
  <2> PICK s : s = ChatSpan(FALSE, tokens, [i \in DOMAIN calls |-> req[i].id],
                            "none")
      OBVIOUS
  <2>1. EndTurn(s, tokens) /\ phase' = "tools" /\ todo' = req
        /\ turn' = turn
        BY <1>1 DEF ChatCalls
  <2>2. calls \in Seq(Calls)
        BY HarnessAssumption
  <2>3. PICK n \in Nat : DOMAIN calls = 1..n
        BY <2>2
  <2>4. /\ DOMAIN req = 1..n
        /\ \A k \in 1..n : req[k].id = CallId(idx, turn, k)
        /\ req \in [1..n -> {req[i] : i \in 1..n}]
        BY <2>3 DEF Requested
  <2>5. \E T : req \in Seq(T)
    <3>1. req \in Seq({req[i] : i \in 1..n})
          BY <2>4
    <3> QED
        BY <3>1
  <2>6. /\ s.name = "chat" /\ s.id = now /\ s.start = now
        /\ s.parent = runSpan /\ s.links = pending /\ s.system = TRUE
        /\ s.calls = [i \in DOMAIN calls |-> req[i].id]
        /\ s.contract = FALSE
        BY DEF ChatSpan, Span
  <2>7. IsARecord(s)
        BY ChatIsARecord
  <2> QED
      BY <2>1, <2>3, <2>4, <2>5, <2>6, <2>7 DEF TurnGain, EndTurn, IsChat
<1>2. ASSUME NEW error \in BOOLEAN, NEW output \in Outputs, NEW tokens,
             NEW text,
             EndTurn(ChatSpan(error, tokens, <<>>, output), tokens),
             Monitor("llm", TRUE, tokens, Return(text)),
             error \/ text = output
      PROVE  \E s : TurnGain(s)
  <2> PICK s : s = ChatSpan(error, tokens, <<>>, output)
      OBVIOUS
  <2>1. EndTurn(s, tokens)
        BY <1>2
  <2>2. /\ s.name = "chat" /\ s.id = now /\ s.start = now
        /\ s.parent = runSpan /\ s.links = pending /\ s.system = TRUE
        /\ s.calls = <<>> /\ s.error = error /\ s.output = output
        /\ s.final = (output # "none")
        /\ s.contract = (HasContract /\ output # "none")
        BY DEF ChatSpan, Span
  <2> DEFINE ruling == Ruling("llm", Observed("llm", TRUE, tokens))
  <2>3. phase' = "leaving" /\ turn' = turn
        BY <1>2 DEF Monitor, Return
  <2>4. outcome' = "answered" => answer' = text
    <3>1. CASE ruling.action = "continue"
          BY <1>2, <3>1 DEF Monitor, Return
    <3>2. CASE ruling.action # "continue"
      <4>1. outcome' \in Interventions
            BY <1>2, <3>2, RulingIsKnown DEF Monitor
      <4> QED
          BY <4>1 DEF Interventions
    <3> QED
        BY <3>1, <3>2
  <2>5. outcome' = "answered" /\ answer' # "none" => Concluded(s)
        BY <1>2, <2>2, <2>4 DEF Concluded, IsChat
  <2>6. s.contract => s.output # "none"
        BY <2>2
  <2>7. IsARecord(s)
        BY ChatIsARecord
  <2> QED
      BY <2>1, <2>2, <2>3, <2>5, <2>6, <2>7 DEF TurnGain, EndTurn, IsChat
<1>3. "none" \in Outputs
      BY DEF Outputs
<1> QED
    BY <1>1, <1>2, <1>3 DEF Chat, ChatAnswer, ChatError

\* Every execution of a tool gains a tool call's span.
LEMMA ExecToolGains ==
    ASSUME ExecTool
    PROVE  \E s : CallGain(s)
<1> DEFINE call == Head(todo)
<1> PICK s : s = [Span("tool.call", now, runSpan, now + 1) EXCEPT
                    !.tool = call.tool, !.args = call.args,
                    !.callId = call.id, !.ok = call.ok]
    OBVIOUS
<1>1. /\ s.name = "tool.call" /\ s.id = now /\ s.start = now
      /\ s.parent = runSpan /\ s.links = <<>> /\ s.contract = FALSE
      /\ s.calls = <<>> /\ s.callId = call.id
      BY DEF Span
<1>5. IsARecord(s)
      BY DEF Span, IsARecord, Fields
<1>2. /\ phase = "tools" /\ now' = now + 2 /\ batch' = Append(batch, s)
      /\ UNCHANGED <<idx, runSpan>>
      BY DEF ExecTool
<1> DEFINE ruling == Ruling("tool", Observed("tool", call.ok, reply))
<1>3. CASE ruling.action = "continue"
  <2>1. /\ todo' = Tail(todo)
        /\ IF Len(todo) = 1 THEN phase' = "turn" /\ turn' = turn + 1
                            ELSE UNCHANGED <<phase, turn>>
        BY <1>3 DEF ExecTool, Monitor
  <2> QED
      BY <1>1, <1>2, <1>5, <2>1 DEF CallGain, IsTool
<1>4. CASE ruling.action # "continue"
  <2>1. /\ phase' = "leaving" /\ outcome' = ruling.action
        /\ turn' = turn
        BY <1>4 DEF ExecTool, Monitor
  <2>2. outcome' \in Interventions
        BY <1>4, <2>1, RulingIsKnown
  <2> QED
      BY <1>1, <1>2, <1>5, <2>1, <2>2 DEF CallGain, IsTool
<1> QED
    BY <1>3, <1>4

\* What ends when a worker leaves, and when the run closes.
LEMMA WorkerGains ==
    ASSUME NEW s, s = WorkerSpan
    PROVE  /\ IsARecord(s) /\ IsAgent(s) /\ ~IsChat(s) /\ ~IsTool(s)
           /\ s.id = runSpan /\ s.parent = RootId /\ s.completed
           /\ s.links = <<>> /\ ~s.contract /\ s.calls = <<>>
           /\ s.final => outcome = "answered" /\ answer # "none"
BY DEF WorkerSpan, Span, IsARecord, Fields, IsAgent, IsChat, IsTool

\* The same of the root's span.
LEMMA RootGains ==
    ASSUME NEW decisions, NEW s, s = RootSpan(decisions)
    PROVE  /\ IsARecord(s) /\ IsAgent(s) /\ ~IsChat(s) /\ ~IsTool(s)
           /\ s.id = RootId /\ s.parent = NoSpan /\ s.completed
           /\ s.links = <<>> /\ ~s.contract /\ s.calls = <<>>
           /\ s.decisions = decisions
BY DEF RootSpan, Span, IsARecord, Fields, IsAgent, IsChat, IsTool

-----------------------------------------------------------------------------
\* A well-formed span keeps the batch well-formed.
LEMMA ShapeGrows ==
    ASSUME BatchInv, ShapeInv, now \in Nat, NEW s, batch' = Append(batch, s),
           WellFormed(s), ~IsAgent(s) => s.start = now
    PROVE  ShapeInv'
<1> DEFINE n == Len(batch) + 1
<1>1. /\ Len(batch) \in Nat /\ DOMAIN batch = 1..Len(batch)
      /\ DOMAIN batch' = 1..n /\ batch'[n] = s
      /\ \A i \in DOMAIN batch : batch'[i] = batch[i]
      BY AppendFacts DEF BatchInv
<1> SUFFICES ASSUME NEW i \in DOMAIN batch'
             PROVE  /\ WellFormed(batch'[i])
                    /\ ~IsAgent(batch'[i]) => \A j \in 1..i - 1 :
                          batch'[j].end <= batch'[i].start
    BY DEF ShapeInv, WellFormed, IsARecord, Fields, IsAgent, IsChat, IsTool
<1>2. CASE i = n
  <2>1. \A j \in 1..n - 1 : batch[j].end \in Nat /\ batch[j].end < now
        BY <1>1 DEF BatchInv, Ended
  <2> QED
      BY <1>1, <1>2, <2>1
<1>3. CASE i \in DOMAIN batch
  <2>1. \A j \in 1..i - 1 : j \in DOMAIN batch
        BY <1>1, <1>3
  <2>2. batch'[i] = batch[i] /\ \A j \in 1..i - 1 : batch'[j] = batch[j]
        BY <1>1, <1>3, <2>1
  <2>3. WellFormed(batch[i]) /\ (~IsAgent(batch[i]) =>
            \A j \in 1..i - 1 : batch[j].end <= batch[i].start)
        BY <1>3 DEF ShapeInv
  <2> QED
      BY <2>2, <2>3
<1> QED
    BY <1>1, <1>2, <1>3

\* Every step keeps the batch well-formed.
LEMMA ShapeNext ==
    ASSUME SpanInv, ShapeInv, [Next]_vars
    PROVE  ShapeInv'
<1> USE DEF SpanInv
<1>1. now \in Nat /\ BatchInv /\ PendingInv
      BY DEF ControlInv
<1>2. phase \in Working => runSpan \in Nat /\ RootId < runSpan
      BY DEF OpenInv
<1>3. ASSUME batch' = batch PROVE ShapeInv'
      BY <1>3 DEF ShapeInv, WellFormed, IsARecord, Fields, IsAgent, IsChat, IsTool
<1>4. CASE Chat
  <2>1. PICK s : TurnGain(s)
        BY <1>4, ChatGains
  <2>2. /\ batch' = Append(batch, s) /\ IsARecord(s) /\ IsChat(s) /\ s.start = now
        /\ s.parent = runSpan /\ s.system /\ s.links = pending
        /\ s.contract => s.output # "none"
        /\ phase \in Working
        BY <2>1 DEF TurnGain, Working
  <2>3. pending \in Seq(Nat)
        BY <1>1, <2>2 DEF PendingInv
  <2>4. ~IsAgent(s)
        BY <2>2 DEF IsChat, IsAgent
  <2>5. WellFormed(s)
        BY <1>2, <2>2, <2>3, <2>4 DEF WellFormed, RootId
  <2> QED
      BY <1>1, <2>2, <2>5, ShapeGrows
<1>5. CASE ExecTool
  <2>1. PICK s : CallGain(s)
        BY <1>5, ExecToolGains
  <2>2. /\ batch' = Append(batch, s) /\ IsARecord(s) /\ IsTool(s) /\ s.start = now
        /\ s.parent = runSpan /\ s.links = <<>> /\ ~s.contract
        /\ phase \in Working
        BY <2>1 DEF CallGain, Working
  <2>3. ~IsAgent(s) /\ ~IsChat(s) /\ s.links \in Seq(Nat)
        BY <2>2 DEF IsChat, IsAgent, IsTool
  <2>4. WellFormed(s)
        BY <1>2, <2>2, <2>3 DEF WellFormed, RootId
  <2> QED
      BY <1>1, <2>2, <2>4, ShapeGrows
<1>6. CASE LeaveWorker
  <2> PICK s : s = WorkerSpan
      OBVIOUS
  <2>1. batch' = Append(batch, s)
        BY <1>6 DEF LeaveWorker
  <2>3. /\ IsARecord(s) /\ IsAgent(s) /\ ~IsChat(s) /\ s.parent = RootId /\ s.completed
        /\ s.links = <<>> /\ ~s.contract
        BY WorkerGains
  <2>2. WellFormed(s) /\ IsAgent(s)
        BY <2>3 DEF WellFormed, RootId
  <2> QED
      BY <1>1, <2>1, <2>2, ShapeGrows
<1>7. CASE CloseRun
  <2> PICK s : s = RootSpan(events')
      OBVIOUS
  <2>1. batch' = Append(batch, s)
        BY <1>7 DEF CloseRun
  <2>3. /\ IsARecord(s) /\ IsAgent(s) /\ ~IsChat(s) /\ s.parent = NoSpan /\ s.completed
        /\ s.links = <<>> /\ ~s.contract
        BY RootGains
  <2>2. WellFormed(s) /\ IsAgent(s)
        BY <2>3 DEF WellFormed, RootId, NoSpan
  <2> QED
      BY <1>1, <2>1, <2>2, ShapeGrows
<1>8. (UNCHANGED vars \/ StartWorker \/ OutOfTurns) => batch' = batch
      BY DEF vars, StartWorker, OutOfTurns
<1> QED
    BY <1>3, <1>4, <1>5, <1>6, <1>7, <1>8 DEF Next

-----------------------------------------------------------------------------
\* A span behind one of its own, if it is a worker's, keeps that true of all.
Led(b, i) == b[i].parent = RootId => i > 1 /\ b[i - 1].parent = b[i].id

\* A span that ends keeps PlaceInv for the spans before it.
LEMMA PlaceGrows ==
    ASSUME BatchInv, \A i \in DOMAIN batch : Led(batch, i),
           NEW s, batch' = Append(batch, s),
           s.parent = RootId => batch # <<>> /\ batch[Len(batch)].parent = s.id
    PROVE  /\ \A i \in DOMAIN batch' : Led(batch', i)
           /\ batch' # <<>> /\ Len(batch') = Len(batch) + 1
           /\ batch'[Len(batch')] = s
           /\ Len(batch) \in Nat
           /\ \A i \in DOMAIN batch' : i = Len(batch') \/ i \in DOMAIN batch
           /\ \A i \in DOMAIN batch : batch'[i] = batch[i]
           /\ batch # <<>> => Len(batch) \in DOMAIN batch
<1> DEFINE n == Len(batch) + 1
<1>1. /\ Len(batch) \in Nat /\ DOMAIN batch = 1..Len(batch)
      /\ DOMAIN batch' = 1..n /\ batch'[n] = s
      /\ \A i \in DOMAIN batch : batch'[i] = batch[i]
      /\ Len(batch') = n
      BY AppendFacts DEF BatchInv
<1>2. batch # <<>> => Len(batch) # 0
  <2> PICK T : batch \in Seq(T)
      BY DEF BatchInv, Batched
  <2> QED
      OBVIOUS
<1>3. batch # <<>> => Len(batch) \in DOMAIN batch
      BY <1>1, <1>2
<1>4. batch' # <<>>
      BY <1>1
<1>5. ASSUME NEW i \in DOMAIN batch' PROVE Led(batch', i)
  <2>1. CASE i = n
    <3> SUFFICES ASSUME s.parent = RootId
                 PROVE  n > 1 /\ batch'[n - 1].parent = s.id
        BY <1>1, <2>1 DEF Led
    <3>1. Len(batch) \in DOMAIN batch /\ batch[Len(batch)].parent = s.id
          BY <1>3
    <3>2. n - 1 = Len(batch)
          BY <1>1
    <3> QED
        BY <1>1, <3>1, <3>2
  <2>2. CASE i \in DOMAIN batch
    <3> SUFFICES ASSUME batch'[i].parent = RootId
                 PROVE  i > 1 /\ batch'[i - 1].parent = batch'[i].id
        BY DEF Led
    <3>1. i > 1 /\ batch[i - 1].parent = batch[i].id /\ batch'[i] = batch[i]
          BY <1>1, <2>2 DEF Led
    <3>2. i - 1 \in DOMAIN batch
          BY <1>1, <2>2, <3>1
    <3> QED
        BY <1>1, <3>1, <3>2
  <2> QED
      BY <1>1, <2>1, <2>2
<1> QED
    BY <1>1, <1>3, <1>4, <1>5

\* Every step keeps the spans in their places.
LEMMA PlaceNext ==
    ASSUME SpanInv, LedgerInv, PlaceInv, [Next]_vars
    PROVE  PlaceInv'
<1> USE DEF SpanInv
<1>1. /\ BatchInv /\ \A i \in DOMAIN batch : Led(batch, i)
      /\ phase # "closed" => \A i \in DOMAIN batch : batch[i].parent # NoSpan
      BY DEF PlaceInv, Led
<1>2. phase \in Working \cup {"leaving"} => runSpan \in Nat /\ RootId < runSpan
      BY DEF OpenInv
<1>3. CASE UNCHANGED vars
  <2>1. UNCHANGED <<phase, batch, turn, runSpan, idx>>
        BY <1>3 DEF vars, workerVars
  <2> QED
      BY <2>1 DEF PlaceInv
<1>4. CASE StartWorker
  <2>1. phase = "dispatch" /\ phase' = "turn" /\ turn' = 1 /\ batch' = batch
        BY <1>4 DEF StartWorker
  <2> QED
      BY <1>1, <2>1 DEF PlaceInv
<1>5. ASSUME NEW s, batch' = Append(batch, s), s.parent = runSpan,
             phase \in Working, runSpan' = runSpan,
             phase' \in Working \cup {"leaving"}
      PROVE  PlaceInv'
  <2>1. runSpan \in Nat /\ RootId < runSpan /\ s.parent # RootId
        /\ s.parent # NoSpan /\ phase # "closed"
        BY <1>2, <1>5 DEF RootId, NoSpan, Working
  <2>2. /\ \A i \in DOMAIN batch' : Led(batch', i)
        /\ batch' # <<>> /\ batch'[Len(batch')] = s
        /\ \A i \in DOMAIN batch' : i = Len(batch') \/ i \in DOMAIN batch
        /\ \A i \in DOMAIN batch : batch'[i] = batch[i]
        BY <1>1, <1>5, <2>1, PlaceGrows
  <2>3. \A i \in DOMAIN batch' : batch'[i].parent # NoSpan
        BY <1>1, <2>1, <2>2
  <2>4. phase' # "dispatch" /\ phase' # "closed"
        BY <1>5 DEF Working
  <2> QED
      BY <1>5, <2>2, <2>3, <2>4 DEF PlaceInv, Led
<1>6. CASE Chat
  <2>1. PICK s : TurnGain(s)
        BY <1>6, ChatGains
  <2> QED
      BY <1>5, <2>1 DEF TurnGain, Working
<1>7. CASE ExecTool
  <2>1. PICK s : CallGain(s)
        BY <1>7, ExecToolGains
  <2> QED
      BY <1>5, <2>1 DEF CallGain, Working
<1>8. CASE OutOfTurns
  <2>1. /\ phase = "turn" /\ phase' = "leaving" /\ turn > MaxTurns
        /\ UNCHANGED <<batch, runSpan>>
        BY <1>8 DEF OutOfTurns
  <2>2. turn > 1
        BY <2>1, HarnessAssumption DEF ControlInv
  <2> QED
      BY <1>1, <2>1, <2>2 DEF PlaceInv
<1>9. CASE LeaveWorker
  <2> PICK s : s = WorkerSpan
      OBVIOUS
  <2>1. /\ batch' = Append(batch, s) /\ phase = "leaving" /\ phase' = "dispatch"
        BY <1>9 DEF LeaveWorker
  <2>2. s.id = runSpan /\ s.parent = RootId
        BY WorkerGains
  <2>3. batch # <<>> /\ batch[Len(batch)].parent = s.id
        BY <2>1, <2>2 DEF PlaceInv
  <2>4. /\ \A i \in DOMAIN batch' : Led(batch', i)
        /\ batch' # <<>> /\ batch'[Len(batch')] = s
        /\ \A i \in DOMAIN batch' : i = Len(batch') \/ i \in DOMAIN batch
        /\ \A i \in DOMAIN batch : batch'[i] = batch[i]
        BY <1>1, <2>1, <2>3, PlaceGrows
  <2>5. \A i \in DOMAIN batch' : batch'[i].parent # NoSpan
        BY <1>1, <2>1, <2>2, <2>4 DEF RootId, NoSpan
  <2> QED
      BY <2>1, <2>2, <2>4, <2>5 DEF PlaceInv, Led
<1>10. CASE CloseRun
  <2> PICK s : s = RootSpan(events')
      OBVIOUS
  <2>1. /\ batch' = Append(batch, s) /\ phase = "dispatch"
        /\ phase' = "closed" /\ idx > NWorkers
        /\ \E d : events' = Append(events, d)
        BY <1>10 DEF CloseRun
  <2>2. /\ s.id = RootId /\ s.parent = NoSpan /\ s.decisions = events'
        BY RootGains
  <2>3. events' # <<>>
    <3>1. events \in Seq(Event)
          BY DEF LedgerInv, Ledger
    <3> QED
        BY <2>1, <3>1
  <2>4. s.parent # RootId
        BY <2>2 DEF RootId, NoSpan
  <2>5. batch # <<>> /\ batch[Len(batch)].parent = RootId
    <3>1. idx > 1
          BY <2>1, HarnessAssumption DEF LedgerInv, AtWork
    <3> QED
        BY <2>1, <3>1 DEF PlaceInv
  <2>6. /\ \A i \in DOMAIN batch' : Led(batch', i)
        /\ batch' # <<>> /\ batch'[Len(batch')] = s
        /\ Len(batch') = Len(batch) + 1 /\ Len(batch) \in Nat
        /\ \A i \in DOMAIN batch' : i = Len(batch') \/ i \in DOMAIN batch
        /\ \A i \in DOMAIN batch : batch'[i] = batch[i]
        /\ Len(batch) \in DOMAIN batch
        BY <1>1, <2>1, <2>4, <2>5, PlaceGrows
  <2>7. DOMAIN batch = 1..Len(batch)
        BY AppendFacts, <1>1, <2>1 DEF BatchInv
  <2>8. /\ Len(batch') > 1 /\ Len(batch') - 1 = Len(batch)
        /\ batch'[Len(batch)].parent = RootId
        BY <2>5, <2>6, <2>7
  <2>9. \A i \in DOMAIN batch' : batch'[i].parent = NoSpan => i = Len(batch')
        BY <1>1, <2>1, <2>6
  <2> QED
      BY <2>1, <2>2, <2>3, <2>6, <2>8, <2>9 DEF PlaceInv, Led
<1> QED
    BY <1>3, <1>4, <1>6, <1>7, <1>8, <1>9, <1>10 DEF Next

-----------------------------------------------------------------------------
\* The first span stays the first.
LEMMA FirstStays ==
    ASSUME Batched, NEW s, batch' = Append(batch, s)
    PROVE  /\ batch' # <<>>
           /\ batch'[1] = IF batch = <<>> THEN s ELSE batch[1]
<1>1. /\ Len(batch) \in Nat /\ DOMAIN batch = 1..Len(batch)
      /\ DOMAIN batch' = 1..Len(batch) + 1 /\ batch'[Len(batch) + 1] = s
      /\ \A i \in DOMAIN batch : batch'[i] = batch[i]
      BY AppendFacts
<1>2. batch' # <<>>
      BY <1>1
<1>3. batch = <<>> => Len(batch) = 0
      OBVIOUS
<1>4. batch # <<>> => 1 \in DOMAIN batch
  <2> PICK T : batch \in Seq(T)
      BY DEF Batched
  <2> QED
      OBVIOUS
<1> QED
    BY <1>1, <1>2, <1>3, <1>4

\* Every step leaves it so.
LEMMA FirstNext ==
    ASSUME SpanInv, FirstInv, [Next]_vars
    PROVE  FirstInv'
<1>1. Batched
      BY DEF SpanInv, BatchInv
<1>2. CASE UNCHANGED vars
  <2>1. UNCHANGED <<phase, batch, turn, runSpan, idx, now>>
        BY <1>2 DEF vars, workerVars
  <2> QED
      BY <2>1 DEF FirstInv
<1>3. CASE StartWorker
  <2>1. /\ phase = "dispatch" /\ phase' = "turn" /\ now' = now + 1
        /\ runSpan' = now /\ turn' = 1 /\ batch' = batch
        BY <1>3 DEF StartWorker
  <2> QED
      BY <2>1 DEF FirstInv
<1>4. CASE Chat
  <2>1. PICK s : TurnGain(s)
        BY <1>4, ChatGains
  <2>2. /\ batch' = Append(batch, s) /\ s.id = now /\ s.parent = runSpan
        /\ phase = "turn"
        BY <2>1 DEF TurnGain
  <2>3. batch = <<>> => now = 3 /\ runSpan = 2
        BY <2>2 DEF FirstInv
  <2> QED
      BY <1>1, <2>2, <2>3, FirstStays DEF FirstInv
<1>5. CASE ExecTool
  <2>1. phase = "tools" /\ \E s : batch' = Append(batch, s)
        BY <1>5 DEF ExecTool
  <2> QED
      BY <1>1, <2>1, FirstStays DEF FirstInv
<1>6. CASE OutOfTurns
  <2>1. phase = "turn" /\ turn > MaxTurns /\ batch' = batch
        BY <1>6 DEF OutOfTurns
  <2>2. turn # 1
        BY <2>1, HarnessAssumption
  <2> QED
      BY <2>1, <2>2 DEF FirstInv
<1>7. CASE LeaveWorker
  <2>1. phase = "leaving" /\ \E s : batch' = Append(batch, s)
        BY <1>7 DEF LeaveWorker
  <2> QED
      BY <1>1, <2>1, FirstStays DEF FirstInv
<1>8. CASE CloseRun
  <2>1. /\ phase = "dispatch" /\ idx > NWorkers
        /\ \E s : batch' = Append(batch, s)
        BY <1>8 DEF CloseRun
  <2>2. idx # 1
        BY <2>1, HarnessAssumption
  <2> QED
      BY <1>1, <2>1, <2>2, FirstStays DEF FirstInv
<1> QED
    BY <1>2, <1>3, <1>4, <1>5, <1>6, <1>7, <1>8 DEF Next

-----------------------------------------------------------------------------
\* One more span: what was declared stays so, and only a tool call's span is
\* a tool call.
LEMMA GainTools ==
    ASSUME Batched, NEW s, batch' = Append(batch, s), NEW n, n = Len(batch) + 1
    PROVE  /\ n \notin DOMAIN batch /\ n \in DOMAIN batch'
           /\ DOMAIN batch' = DOMAIN batch \cup {n} /\ batch'[n] = s
           /\ \A i \in DOMAIN batch : batch'[i] = batch[i]
           /\ ToolSpans' = IF IsTool(s) THEN ToolSpans \cup {n} ELSE ToolSpans
           /\ ToolSpans \subseteq DOMAIN batch
<1>1. /\ Len(batch) \in Nat /\ DOMAIN batch = 1..Len(batch)
      /\ DOMAIN batch' = 1..Len(batch) + 1 /\ batch'[Len(batch) + 1] = s
      /\ \A i \in DOMAIN batch : batch'[i] = batch[i]
      BY AppendFacts
<1>2. n \notin DOMAIN batch /\ DOMAIN batch' = DOMAIN batch \cup {n}
      BY <1>1
<1>3. ToolSpans' = {i \in DOMAIN batch' : IsTool(batch'[i])}
      BY DEF ToolSpans, IsTool
<1>4. ToolSpans' = IF IsTool(s) THEN ToolSpans \cup {n} ELSE ToolSpans
      BY <1>1, <1>2, <1>3 DEF ToolSpans
<1> QED
    BY <1>1, <1>2, <1>4 DEF ToolSpans

\* A tool call that is run is taken from the front of what is to be run.
LEMMA TodoFacts ==
    ASSUME ControlInv, phase = "tools"
    PROVE  /\ 1 \in DOMAIN todo /\ Head(todo) = todo[1]
           /\ Len(todo) \in Nat /\ DOMAIN todo = 1..Len(todo)
           /\ Len(todo) # 1 =>
                 /\ DOMAIN Tail(todo) = 1..Len(todo) - 1
                 /\ \A k \in DOMAIN Tail(todo) :
                       k + 1 \in DOMAIN todo /\ Tail(todo)[k] = todo[k + 1]
<1> PICK T : todo \in Seq(T)
    BY DEF ControlInv
<1>1. todo # <<>>
      BY DEF ControlInv
<1> QED
    BY <1>1

\* Every step leaves every tool call declared.
LEMMA DeclaredNext ==
    ASSUME SpanInv, DeclaredInv, [Next]_vars
    PROVE  DeclaredInv'
<1>1. Batched /\ ControlInv
      BY DEF SpanInv, BatchInv
<1>2. CASE UNCHANGED vars
  <2>1. UNCHANGED <<phase, batch, todo>>
        BY <1>2 DEF vars, workerVars
  <2> QED
      BY <2>1 DEF DeclaredInv, ToolSpans, Declares, IsChat, IsTool
<1>3. ASSUME batch' = batch, phase' # "tools" PROVE DeclaredInv'
      BY <1>3 DEF DeclaredInv, ToolSpans, Declares, IsChat, IsTool
<1>4. ASSUME NEW s, batch' = Append(batch, s),
             NEW c \in DOMAIN batch, NEW id, Declares(c, id)
      PROVE  c \in DOMAIN batch' /\ Declares(c, id)'
      BY <1>1, <1>4, GainTools DEF Declares, IsChat
<1>5. ASSUME NEW s, batch' = Append(batch, s), ~IsTool(s), phase' # "tools"
      PROVE  DeclaredInv'
  <2>1. ToolSpans' = ToolSpans /\ \A i \in ToolSpans :
            i \in DOMAIN batch /\ batch'[i] = batch[i]
        BY <1>1, <1>5, GainTools
  <2> QED
      BY <1>4, <1>5, <2>1 DEF DeclaredInv
<1>6. CASE Chat
  <2>1. PICK s : TurnGain(s)
        BY <1>6, ChatGains
  <2>2. batch' = Append(batch, s) /\ IsChat(s) /\ ~IsTool(s)
        BY <2>1, OneKind DEF TurnGain
  <2>3. CASE phase' = "tools"
    <3> PICK n : n = Len(batch) + 1
        OBVIOUS
    <3>1. n \in DOMAIN batch' /\ batch'[n] = s /\ ToolSpans' = ToolSpans
          /\ \A i \in ToolSpans : i \in DOMAIN batch /\ batch'[i] = batch[i]
          BY <1>1, <2>2, GainTools
    <3>2. s.calls = [k \in DOMAIN todo' |-> todo'[k].id]
          BY <2>1, <2>3 DEF TurnGain
    <3>3. \A k \in DOMAIN todo' : todo'[k].id \in ToSet(s.calls)
          BY <3>2 DEF ToSet
    <3>4. \A k \in DOMAIN todo' : Declares(n, todo[k].id)'
          BY <2>2, <3>1, <3>3 DEF Declares, IsChat
    <3> QED
        BY <1>4, <2>2, <3>1, <3>4 DEF DeclaredInv
  <2>4. CASE phase' # "tools"
        BY <1>5, <2>2, <2>4
  <2> QED
      BY <2>3, <2>4
<1>7. CASE ExecTool
  <2>1. PICK s : CallGain(s)
        BY <1>7, ExecToolGains
  <2>2. /\ batch' = Append(batch, s) /\ IsTool(s) /\ phase = "tools"
        /\ s.callId = Head(todo).id
        BY <2>1 DEF CallGain
  <2> PICK n : n = Len(batch) + 1
      OBVIOUS
  <2>3. /\ batch'[n] = s /\ ToolSpans' = ToolSpans \cup {n}
        /\ \A i \in ToolSpans : i \in DOMAIN batch /\ batch'[i] = batch[i]
        BY <1>1, <2>2, GainTools
  <2>4. PICK c \in DOMAIN batch : \A k \in DOMAIN todo : Declares(c, todo[k].id)
        BY <2>2 DEF DeclaredInv
  <2>5. Declares(c, s.callId)
        BY <1>1, <2>2, <2>4, TodoFacts
  <2>6. \A i \in ToolSpans' : \E d \in DOMAIN batch' :
            Declares(d, batch[i].callId)'
    <3> SUFFICES ASSUME NEW i \in ToolSpans'
                 PROVE  \E d \in DOMAIN batch' : Declares(d, batch[i].callId)'
        OBVIOUS
    <3>1. CASE i = n
          BY <1>4, <2>2, <2>3, <2>5, <3>1
    <3>2. CASE i \in ToolSpans
      <4>1. PICK d \in DOMAIN batch : Declares(d, batch[i].callId)
            BY <3>2 DEF DeclaredInv
      <4> QED
          BY <1>4, <2>2, <2>3, <3>2, <4>1
    <3> QED
        BY <2>3, <3>1, <3>2
  <2>7. phase' = "tools" => \A k \in DOMAIN todo' : Declares(c, todo[k].id)'
    <3> SUFFICES ASSUME phase' = "tools", NEW k \in DOMAIN todo'
                 PROVE  Declares(c, todo[k].id)'
        OBVIOUS
    <3>1. todo' = Tail(todo)
          BY <2>1 DEF CallGain
    <3>2. Len(todo) # 1
      <4>1. todo' # <<>>
            BY <3>1
      <4> PICK T : todo \in Seq(T)
          BY <1>1, <2>2 DEF ControlInv
      <4> QED
          BY <3>1, <4>1
    <3>3. k + 1 \in DOMAIN todo /\ todo'[k] = todo[k + 1]
          BY <1>1, <2>2, <3>1, <3>2, TodoFacts
    <3> QED
        BY <1>4, <2>2, <2>4, <3>3
  <2>8. c \in DOMAIN batch'
        BY <1>1, <2>2, GainTools
  <2> QED
      BY <2>6, <2>7, <2>8 DEF DeclaredInv
<1>8. CASE LeaveWorker
  <2>1. batch' = Append(batch, WorkerSpan) /\ phase' # "tools"
        /\ ~IsTool(WorkerSpan)
        BY <1>8, WorkerGains DEF LeaveWorker
  <2> QED
      BY <1>5, <2>1
<1>9. CASE CloseRun
  <2> PICK s : s = RootSpan(events')
      OBVIOUS
  <2>1. batch' = Append(batch, s) /\ phase' # "tools" /\ ~IsTool(s)
        BY <1>9, RootGains DEF CloseRun
  <2> QED
      BY <1>5, <2>1
<1>10. (StartWorker \/ OutOfTurns) => batch' = batch /\ phase' # "tools"
       BY DEF StartWorker, OutOfTurns
<1> QED
    BY <1>2, <1>3, <1>6, <1>7, <1>8, <1>9, <1>10 DEF Next

-----------------------------------------------------------------------------
\* What has been used stays used, as long as no tool call is pending.
LEMMA FreshStays ==
    ASSUME FreshInv, phase' # "tools", ToolSpans' = ToolSpans,
           \A i \in ToolSpans : batch'[i].callId = batch[i].callId,
           SoFar \subseteq SoFar'
    PROVE  FreshInv'
<1>1. \A i \in ToolSpans : batch[i].callId \in SoFar
      BY DEF FreshInv
<1>2. \A i \in ToolSpans' : batch'[i].callId \in SoFar'
      BY <1>1
<1>3. \A i, j \in ToolSpans' : batch'[i].callId = batch'[j].callId => i = j
      BY DEF FreshInv
<1> QED
    BY <1>2, <1>3 DEF FreshInv

\* Every step gives each tool call an id of its own, if those of the
\* providers are unique.
LEMMA FreshNext ==
    ASSUME SpanInv, LedgerInv, UniqueIds, FreshInv, [Next]_vars
    PROVE  FreshInv'
<1>1. Batched /\ ControlInv /\ turn \in Nat /\ turn > 0
      BY HarnessAssumption DEF SpanInv, BatchInv, ControlInv
<1>2. idx \in Nat /\ idx > 0
      BY HarnessAssumption DEF LedgerInv, AtWork
<1>3. \A id \in Numbers : id[1] \in Nat /\ id[2] \in Nat
      BY DEF Numbers
<1>4. ASSUME NEW s, batch' = Append(batch, s), ~IsTool(s)
      PROVE  /\ ToolSpans' = ToolSpans
             /\ \A i \in ToolSpans : batch'[i] = batch[i]
      BY <1>1, <1>4, GainTools
<1>5. CASE UNCHANGED vars
  <2>1. UNCHANGED <<phase, batch, todo, idx, turn>>
        BY <1>5 DEF vars, workerVars
  <2> QED
      BY <2>1 DEF FreshInv, ToolSpans, SoFar, IsTool
<1>6. ASSUME batch' = batch
      PROVE  ToolSpans' = ToolSpans /\ \A i \in ToolSpans : batch'[i] = batch[i]
      BY <1>6 DEF ToolSpans, IsTool
<1>7. CASE StartWorker
  <2>1. /\ phase = "dispatch" /\ phase' = "turn" /\ idx' = idx
        /\ batch' = batch
        BY <1>7 DEF StartWorker
  <2>2. SoFar \subseteq SoFar'
        BY <2>1 DEF SoFar
  <2> QED
      BY <1>6, <2>1, <2>2, FreshStays
<1>8. CASE Chat
  <2>1. PICK s : TurnGain(s)
        BY <1>8, ChatGains
  <2>2. /\ batch' = Append(batch, s) /\ ~IsTool(s) /\ phase = "turn"
        /\ idx' = idx /\ turn' = turn
        BY <2>1, OneKind DEF TurnGain
  <2>3. /\ ToolSpans' = ToolSpans
        /\ \A i \in ToolSpans : batch'[i] = batch[i]
        BY <1>4, <2>2
  <2>4. CASE phase' = "tools"
    <3>1. \A k \in DOMAIN todo' : todo'[k].id = <<idx, turn, k>>
          BY <2>1, <2>4 DEF TurnGain, CallId
    <3>2. DOMAIN todo' \subseteq Nat
          BY <2>1, <2>4 DEF TurnGain
    <3>3. \A k \in DOMAIN todo' :
              /\ todo'[k].id \in Numbers
              /\ todo'[k].id[1] = idx /\ todo'[k].id[2] = turn
      <4> SUFFICES ASSUME NEW k \in DOMAIN todo'
                   PROVE  /\ <<idx, turn, k>> \in Numbers
                          /\ <<idx, turn, k>>[1] = idx
                          /\ <<idx, turn, k>>[2] = turn
          BY <3>1
      <4> QED
          BY <1>2, <1>1, <3>2 DEF Numbers, NoCall
    <3>4. \A i \in ToolSpans :
              /\ batch[i].callId \in SoFar
              /\ \A j \in ToolSpans : batch[i].callId = batch[j].callId => i = j
          BY DEF FreshInv
    <3>5. \A id \in SoFar : ~(id[1] = idx /\ id[2] = turn)
          BY <1>1, <1>2, <1>3, <2>2 DEF SoFar
    <3>6. \A k \in DOMAIN todo' : \A i \in ToolSpans :
              batch[i].callId # todo'[k].id
          BY <3>3, <3>4, <3>5
    <3>7. \A k, l \in DOMAIN todo' : todo'[k].id = todo'[l].id => k = l
          BY <3>1
    <3>8. SoFar \subseteq SoFar'
          BY <2>2, <2>4 DEF SoFar
    <3>9. \A i \in ToolSpans' : batch'[i].callId \in SoFar'
          BY <2>3, <3>4, <3>8
    <3>10. \A i, j \in ToolSpans' :
                batch'[i].callId = batch'[j].callId => i = j
           BY <2>3, <3>4
    <3>11. \A k \in DOMAIN todo' : \A i \in ToolSpans' :
              batch'[i].callId # todo'[k].id
           BY <2>3, <3>6
    <3> QED
        BY <2>2, <3>3, <3>7, <3>9, <3>10, <3>11
           DEF FreshInv
  <2>5. CASE phase' # "tools"
    <3>1. phase' = "leaving"
          BY <2>1, <2>5 DEF TurnGain
    <3>2. SoFar \subseteq SoFar'
          BY <2>2, <3>1 DEF SoFar
    <3> QED
        BY <2>3, <2>5, <3>2, FreshStays
  <2> QED
      BY <2>4, <2>5
<1>9. CASE OutOfTurns
  <2>1. /\ phase = "turn" /\ phase' = "leaving"
        /\ UNCHANGED <<batch, idx, turn>>
        BY <1>9 DEF OutOfTurns
  <2>2. SoFar \subseteq SoFar'
        BY <2>1 DEF SoFar
  <2> QED
      BY <1>6, <2>1, <2>2, FreshStays
<1>10. CASE LeaveWorker
  <2>1. /\ phase = "leaving" /\ phase' = "dispatch" /\ idx' = idx + 1
        /\ batch' = Append(batch, WorkerSpan) /\ ~IsTool(WorkerSpan)
        BY <1>10, WorkerGains DEF LeaveWorker
  <2>2. SoFar \subseteq SoFar'
        BY <1>2, <1>3, <2>1 DEF SoFar
  <2> QED
      BY <1>4, <2>1, <2>2, FreshStays
<1>11. CASE CloseRun
  <2> PICK s : s = RootSpan(events')
      OBVIOUS
  <2>1. /\ phase = "dispatch" /\ phase' = "closed" /\ idx' = idx
        /\ batch' = Append(batch, s) /\ ~IsTool(s)
        BY <1>11, RootGains DEF CloseRun
  <2>2. SoFar \subseteq SoFar'
        BY <2>1 DEF SoFar
  <2> QED
      BY <1>4, <2>1, <2>2, FreshStays
<1>12. CASE ExecTool
  <2>1. PICK s : CallGain(s)
        BY <1>12, ExecToolGains
  <2>2. /\ batch' = Append(batch, s) /\ IsTool(s) /\ phase = "tools"
        /\ s.callId = Head(todo).id /\ idx' = idx
        BY <2>1 DEF CallGain
  <2>3. \/ phase' = "turn" /\ turn' = turn + 1
        \/ phase' = "tools" /\ turn' = turn /\ todo' = Tail(todo)
        \/ phase' = "leaving" /\ turn' = turn
        BY <2>1 DEF CallGain
  <2> PICK n : n = Len(batch) + 1
      OBVIOUS
  <2>4. /\ batch'[n] = s /\ ToolSpans' = ToolSpans \cup {n}
        /\ \A i \in ToolSpans : batch'[i] = batch[i]
        BY <1>1, <2>2, GainTools
  <2>5. /\ \A i \in ToolSpans : batch[i].callId \in SoFar
        /\ \A i, j \in ToolSpans : batch[i].callId = batch[j].callId => i = j
        /\ \A k \in DOMAIN todo :
              /\ todo[k].id \in Numbers
              /\ todo[k].id[1] = idx /\ todo[k].id[2] = turn
              /\ \A i \in ToolSpans : batch[i].callId # todo[k].id
        /\ \A k, l \in DOMAIN todo : todo[k].id = todo[l].id => k = l
        BY <2>2 DEF FreshInv
  <2>6. 1 \in DOMAIN todo /\ s.callId = todo[1].id
        BY <1>1, <2>2, TodoFacts
  <2>7. SoFar \subseteq SoFar'
        BY <1>1, <1>3, <2>2, <2>3 DEF SoFar
  <2>8. s.callId \in SoFar'
    <3>1. /\ s.callId \in Numbers /\ s.callId[1] = idx
          /\ s.callId[2] = turn
          BY <2>5, <2>6
    <3> QED
        BY <1>1, <2>2, <2>3, <3>1 DEF SoFar
  <2>9. \A i \in ToolSpans' : batch'[i].callId \in SoFar'
        BY <2>4, <2>5, <2>7, <2>8
  <2>10. \A i, j \in ToolSpans' : batch'[i].callId = batch'[j].callId => i = j
         BY <2>4, <2>5, <2>6
  <2>11. CASE phase' = "tools"
    <3>1. todo' = Tail(todo) /\ turn' = turn
          BY <2>3, <2>11
    <3>2. Len(todo) # 1
      <4>1. todo' # <<>>
            BY <1>12, <2>11, ControlNext DEF SpanInv, Next, ControlInv
      <4> PICK T : todo \in Seq(T)
          BY <1>1, <2>2 DEF ControlInv
      <4> QED
          BY <3>1, <4>1
    <3>3. \A k \in DOMAIN todo' :
              k + 1 \in DOMAIN todo /\ todo'[k] = todo[k + 1] /\ k \in Nat
          BY <1>1, <2>2, <3>1, <3>2, TodoFacts
    <3>4. \A k \in DOMAIN todo' :
              /\ todo'[k].id \in Numbers
              /\ todo'[k].id[1] = idx' /\ todo'[k].id[2] = turn'
          BY <2>2, <2>5, <3>1, <3>3
    <3>5. ASSUME NEW k \in DOMAIN todo', NEW i \in ToolSpans'
          PROVE  batch'[i].callId # todo'[k].id
      <4>1. k + 1 \in DOMAIN todo /\ k + 1 # 1 /\ todo'[k] = todo[k + 1]
        <5>1. k \in 1..Len(todo) - 1
              BY <1>1, <2>2, <3>1, <3>2, TodoFacts
        <5> QED
            BY <3>3, <5>1, <1>1, <2>2, TodoFacts
      <4>2. CASE i = n
            BY <2>4, <2>5, <2>6, <4>1, <4>2
      <4>3. CASE i \in ToolSpans
            BY <2>4, <2>5, <4>1, <4>3
      <4> QED
          BY <2>4, <4>2, <4>3
    <3>6. ASSUME NEW k \in DOMAIN todo', NEW l \in DOMAIN todo',
                 todo'[k].id = todo'[l].id
          PROVE  k = l
      <4>1. k + 1 = l + 1
            BY <2>5, <3>3, <3>6
      <4> QED
          BY <3>3, <4>1
    <3> QED
        BY <2>9, <2>10, <3>4, <3>5, <3>6 DEF FreshInv
  <2>12. CASE phase' # "tools"
        BY <2>9, <2>10, <2>12 DEF FreshInv
  <2> QED
      BY <2>11, <2>12
<1> QED
    BY <1>5, <1>7, <1>8, <1>9, <1>10, <1>11, <1>12 DEF Next

-----------------------------------------------------------------------------
\* A call that a chat declares has its result, or it is owed to the worker at
\* work, which has it still to do or is leaving without an answer, or else
\* the worker has left without one.
HasResult(id) == \E i \in ToolSpans : batch[i].callId = id
Owed(c, id) ==
    /\ batch[c].parent = runSpan
    /\ \/ phase = "tools" /\ \E k \in DOMAIN todo : todo[k].id = id
       \/ phase = "leaving" /\ outcome # "answered"
GaveUp(c) == \E w \in DOMAIN batch : batch[w].id = batch[c].parent /\ ~batch[w].final

AnsweredInv ==
    \A c \in DOMAIN batch : \A id :
        Declares(c, id) => HasResult(id) \/ Owed(c, id) \/ GaveUp(c)

\* Behind every answer that a worker gives there is a turn that gave it.
ConcludedInv ==
    (\/ phase = "leaving" /\ outcome = "answered" /\ answer # "none"
     \/ \E w \in DOMAIN batch : batch[w].parent = RootId /\ batch[w].final)
    => \E c \in DOMAIN batch : Concluded(batch[c])

\* A longer batch keeps what it told of earlier calls.
LEMMA AnswersStay ==
    ASSUME Batched, NEW s, batch' = Append(batch, s), NEW c \in DOMAIN batch, NEW id
    PROVE  /\ c \in DOMAIN batch' /\ batch'[c] = batch[c]
           /\ Declares(c, id)' <=> Declares(c, id)
           /\ HasResult(id) => HasResult(id)'
           /\ GaveUp(c) => GaveUp(c)'
<1>1. /\ \A i \in DOMAIN batch : i \in DOMAIN batch' /\ batch'[i] = batch[i]
      /\ \A i \in ToolSpans : i \in ToolSpans' /\ i \in DOMAIN batch
      BY GainTools
<1>2. Declares(c, id)' <=> Declares(c, id)
      BY <1>1 DEF Declares, IsChat
<1>3. HasResult(id) => HasResult(id)'
      BY <1>1 DEF HasResult
<1>4. GaveUp(c) => GaveUp(c)'
      BY <1>1 DEF GaveUp
<1> QED
    BY <1>1, <1>2, <1>3, <1>4

\* When a span that declares nothing is added, it is enough that nobody owes.
LEMMA AnsweredStays ==
    ASSUME Batched, AnsweredInv, NEW s, batch' = Append(batch, s), ~IsChat(s),
           \A c \in DOMAIN batch : \A id :
               Declares(c, id) /\ Owed(c, id) => GaveUp(c)' \/ Owed(c, id)' \/ HasResult(id)'
    PROVE  AnsweredInv'
<1> SUFFICES ASSUME NEW c \in DOMAIN batch', NEW id, Declares(c, id)'
             PROVE  HasResult(id)' \/ Owed(c, id)' \/ GaveUp(c)'
    BY DEF AnsweredInv
<1> PICK n : n = Len(batch) + 1
    OBVIOUS
<1>1. DOMAIN batch' = DOMAIN batch \cup {n} /\ batch'[n] = s
      BY GainTools
<1>2. c # n
      BY <1>1 DEF Declares, IsChat
<1>3. c \in DOMAIN batch
      BY <1>1, <1>2
<1>4. Declares(c, id) /\ (HasResult(id) => HasResult(id)') /\ (GaveUp(c) => GaveUp(c)')
      BY <1>3, AnswersStay
<1>5. HasResult(id) \/ Owed(c, id) \/ GaveUp(c)
      BY <1>3, <1>4 DEF AnsweredInv
<1> QED
    BY <1>3, <1>4, <1>5

\* Every declared call is accounted for.
LEMMA AnsweredNext ==
    ASSUME SpanInv, AnsweredInv, [Next]_vars
    PROVE  AnsweredInv'
<1>1. Batched /\ ControlInv
      BY DEF SpanInv, BatchInv
<1>2. CASE UNCHANGED vars
  <2>1. UNCHANGED <<phase, batch, todo, runSpan, outcome>>
        BY <1>2 DEF vars, workerVars
  <2> QED
      BY <2>1 DEF AnsweredInv, ToolSpans, Declares, IsChat, IsTool, HasResult,
                  Owed, GaveUp
<1>3. CASE Chat
  <2>1. PICK s : TurnGain(s)
        BY <1>3, ChatGains
  <2>2. batch' = Append(batch, s) /\ IsChat(s) /\ phase = "turn" /\ s.parent = runSpan
        /\ runSpan' = runSpan
        BY <2>1 DEF TurnGain
  <2> PICK n : n = Len(batch) + 1
      OBVIOUS
  <2>3. DOMAIN batch' = DOMAIN batch \cup {n} /\ batch'[n] = s
        BY <1>1, <2>2, GainTools
  <2>4. ASSUME NEW c \in DOMAIN batch, NEW id, Declares(c, id)'
        PROVE  HasResult(id)' \/ Owed(c, id)' \/ GaveUp(c)'
    <3>1. Declares(c, id) /\ (HasResult(id) => HasResult(id)') /\ (GaveUp(c) => GaveUp(c)')
          BY <1>1, <2>2, <2>4, AnswersStay
    <3>2. ~Owed(c, id)
          BY <2>2 DEF Owed
    <3> QED
        BY <3>1, <3>2 DEF AnsweredInv
  <2>5. ASSUME NEW id, Declares(n, id)'
        PROVE  Owed(n, id)'
    <3>1. id \in ToSet(s.calls)
          BY <2>3, <2>5 DEF Declares
    <3>2. s.calls # <<>>
          BY <3>1 DEF ToSet
    <3>3. phase' = "tools" /\ s.calls = [k \in DOMAIN todo' |-> todo'[k].id]
          BY <2>1, <3>2 DEF TurnGain
    <3>4. \E k \in DOMAIN todo' : todo'[k].id = id
          BY <3>1, <3>3 DEF ToSet
    <3> QED
        BY <2>2, <2>3, <3>3, <3>4 DEF Owed
  <2> QED
      BY <2>3, <2>4, <2>5 DEF AnsweredInv
<1>4. CASE ExecTool
  <2>1. PICK s : CallGain(s)
        BY <1>4, ExecToolGains
  <2>2. /\ batch' = Append(batch, s) /\ IsTool(s) /\ phase = "tools"
        /\ s.callId = Head(todo).id /\ runSpan' = runSpan
        BY <2>1 DEF CallGain
  <2>3. ~IsChat(s)
        BY <2>2, OneKind
  <2> PICK n : n = Len(batch) + 1
      OBVIOUS
  <2>4. batch'[n] = s /\ n \in ToolSpans'
        BY <1>1, <2>2, GainTools
  <2>5. ASSUME NEW c \in DOMAIN batch, NEW id, Declares(c, id), Owed(c, id)
        PROVE  GaveUp(c)' \/ Owed(c, id)' \/ HasResult(id)'
    <3>1. batch[c].parent = runSpan
          BY <2>5 DEF Owed
    <3>2. PICK k \in DOMAIN todo : todo[k].id = id
          BY <2>2, <2>5 DEF Owed
    <3>3. batch'[c].parent = runSpan'
          BY <1>1, <2>2, <3>1, AnswersStay
    <3>4. CASE k = 1
      <4>1. s.callId = id
            BY <1>1, <2>2, <3>2, <3>4, TodoFacts
      <4> QED
          BY <2>4, <4>1 DEF HasResult
    <3>5. CASE k # 1
      <4>1. Len(todo) \in Nat /\ DOMAIN todo = 1..Len(todo)
            BY <1>1, <2>2, TodoFacts
      <4>2. Len(todo) # 1 /\ k - 1 \in 1..Len(todo) - 1 /\ k = (k - 1) + 1
            BY <3>2, <3>5, <4>1
      <4>3. k - 1 \in DOMAIN Tail(todo) /\ Tail(todo)[k - 1] = todo[k]
            BY <1>1, <2>2, <4>2, TodoFacts
      <4>4. CASE phase' = "tools" /\ todo' = Tail(todo)
            BY <3>2, <3>3, <4>3, <4>4 DEF Owed
      <4>5. CASE phase' = "leaving" /\ outcome' \in Interventions
        <5>1. outcome' # "answered"
              BY <4>5 DEF Interventions
        <5> QED
            BY <3>3, <4>5, <5>1 DEF Owed
      <4> QED
          BY <2>1, <4>2, <4>4, <4>5 DEF CallGain
    <3> QED
        BY <3>4, <3>5
  <2> QED
      BY <1>1, <2>2, <2>3, <2>5, AnsweredStays
<1>5. CASE LeaveWorker
  <2> PICK s : s = WorkerSpan
      OBVIOUS
  <2>1. batch' = Append(batch, s) /\ phase = "leaving"
        BY <1>5 DEF LeaveWorker
  <2>2. /\ ~IsChat(s) /\ s.id = runSpan
        /\ s.final => outcome = "answered" /\ answer # "none"
        BY WorkerGains
  <2> PICK n : n = Len(batch) + 1
      OBVIOUS
  <2>3. n \in DOMAIN batch' /\ batch'[n] = s
        BY <1>1, <2>1, GainTools
  <2>4. ASSUME NEW c \in DOMAIN batch, NEW id, Owed(c, id)
        PROVE  GaveUp(c)'
    <3>1. batch[c].parent = runSpan /\ outcome # "answered"
          BY <2>1, <2>4 DEF Owed
    <3>2. batch'[c].parent = runSpan
          BY <1>1, <2>1, <3>1, AnswersStay
    <3> QED
        BY <2>2, <2>3, <3>1, <3>2 DEF GaveUp
  <2> QED
      BY <1>1, <2>1, <2>2, <2>4, AnsweredStays
<1>6. CASE CloseRun
  <2> PICK s : s = RootSpan(events')
      OBVIOUS
  <2>1. batch' = Append(batch, s) /\ phase = "dispatch" /\ ~IsChat(s)
        BY <1>6, RootGains DEF CloseRun
  <2>2. \A c \in DOMAIN batch : \A id : ~Owed(c, id)
        BY <2>1 DEF Owed
  <2> QED
      BY <1>1, <2>1, <2>2, AnsweredStays
<1>7. CASE StartWorker \/ OutOfTurns
  <2>1. batch' = batch /\ phase \in {"dispatch", "turn"}
        BY <1>7 DEF StartWorker, OutOfTurns
  <2>2. \A c \in DOMAIN batch : \A id : ~Owed(c, id)
        BY <2>1 DEF Owed
  <2>3. \A c \in DOMAIN batch : \A id : Declares(c, id) => HasResult(id) \/ GaveUp(c)
        BY <2>2 DEF AnsweredInv
  <2>4. \A c \in DOMAIN batch' : \A id :
            Declares(c, id)' => HasResult(id)' \/ GaveUp(c)'
        BY <2>1, <2>3 DEF Declares, HasResult, GaveUp, ToolSpans, IsChat, IsTool
  <2> QED
      BY <2>4 DEF AnsweredInv
<1> QED
    BY <1>2, <1>3, <1>4, <1>5, <1>6, <1>7 DEF Next

\* No worker answers without a turn that concluded.
LEMMA ConcludedNext ==
    ASSUME SpanInv, ConcludedInv, [Next]_vars
    PROVE  ConcludedInv'
<1>1. Batched /\ OpenInv
      BY DEF SpanInv, BatchInv
<1>2. CASE UNCHANGED vars
  <2>1. UNCHANGED <<phase, batch, answer, outcome>>
        BY <1>2 DEF vars, workerVars
  <2> QED
      BY <2>1 DEF ConcludedInv, Concluded, IsChat
<1> DEFINE AnswerGiven == \E c \in DOMAIN batch : Concluded(batch[c])
           Final(i) == batch[i].parent = RootId /\ batch[i].final
<1>3. ASSUME NEW s, batch' = Append(batch, s),
             s.parent = RootId /\ s.final => AnswerGiven,
             phase' = "leaving" /\ outcome' = "answered" /\ answer' # "none"
                => AnswerGiven \/ Concluded(s)
      PROVE  ConcludedInv'
  <2> PICK n : n = Len(batch) + 1
      OBVIOUS
  <2>1. /\ DOMAIN batch' = DOMAIN batch \cup {n} /\ batch'[n] = s
        /\ \A i \in DOMAIN batch : batch'[i] = batch[i]
        BY <1>1, <1>3, GainTools
  <2>2. AnswerGiven => AnswerGiven'
        BY <2>1 DEF Concluded, IsChat
  <2>3. Concluded(s) => AnswerGiven'
        BY <2>1 DEF Concluded, IsChat
  <2>4. (\E w \in DOMAIN batch : Final(w)) => AnswerGiven
        BY DEF ConcludedInv
  <2>5. (\E w \in DOMAIN batch' : Final(w)') => AnswerGiven
        BY <1>3, <2>1, <2>4
  <2> QED
      BY <1>3, <2>2, <2>3, <2>5 DEF ConcludedInv
<1>4. CASE Chat
  <2>1. PICK s : TurnGain(s)
        BY <1>4, ChatGains
  <2>2. /\ batch' = Append(batch, s) /\ phase = "turn" /\ s.parent = runSpan
        /\ phase' = "leaving" /\ outcome' = "answered" /\ answer' # "none"
              => Concluded(s)
        BY <2>1 DEF TurnGain
  <2>3. s.parent # RootId
    <3>1. runSpan \in Nat /\ RootId < runSpan
          BY <1>1, <2>2 DEF OpenInv, Working
    <3> QED
        BY <2>2, <3>1 DEF RootId
  <2> QED
      BY <1>3, <2>2, <2>3
<1>5. CASE ExecTool
  <2>1. PICK s : CallGain(s)
        BY <1>5, ExecToolGains
  <2>2. /\ batch' = Append(batch, s) /\ phase = "tools" /\ s.parent = runSpan
        /\ phase' = "leaving" => outcome' # "answered"
        BY <2>1 DEF CallGain, Interventions
  <2>3. s.parent # RootId
    <3>1. runSpan \in Nat /\ RootId < runSpan
          BY <1>1, <2>2 DEF OpenInv, Working
    <3> QED
        BY <2>2, <3>1 DEF RootId
  <2> QED
      BY <1>3, <2>2, <2>3
<1>6. CASE LeaveWorker
  <2> PICK s : s = WorkerSpan
      OBVIOUS
  <2>1. batch' = Append(batch, s) /\ phase = "leaving" /\ phase' = "dispatch"
        BY <1>6 DEF LeaveWorker
  <2>2. s.final => outcome = "answered" /\ answer # "none"
        BY WorkerGains
  <2>3. s.final => AnswerGiven
        BY <2>1, <2>2 DEF ConcludedInv
  <2> QED
      BY <1>3, <2>1, <2>3
<1>7. CASE CloseRun
  <2> PICK s : s = RootSpan(events')
      OBVIOUS
  <2>1. batch' = Append(batch, s) /\ phase' = "closed" /\ s.parent = NoSpan
        BY <1>7, RootGains DEF CloseRun
  <2>2. s.parent # RootId
        BY <2>1 DEF NoSpan, RootId
  <2> QED
      BY <1>3, <2>1, <2>2
<1>8. CASE StartWorker \/ OutOfTurns
  <2>1. /\ batch' = batch
        /\ phase' = "turn" \/ outcome' = "exhausted"
        BY <1>8 DEF StartWorker, OutOfTurns
  <2> QED
      BY <2>1 DEF ConcludedInv, Concluded, IsChat
<1> QED
    BY <1>2, <1>4, <1>5, <1>6, <1>7, <1>8 DEF Next

-----------------------------------------------------------------------------
EvidenceInv ==
    /\ LedgerInv /\ SpanInv /\ ShapeInv /\ PlaceInv /\ FirstInv /\ DeclaredInv
    /\ AnsweredInv /\ ConcludedInv
    /\ UniqueIds => FreshInv

\* Before the first span there is nothing to tell.
LEMMA EvidenceInit == Init => EvidenceInv
<1> SUFFICES ASSUME Init PROVE EvidenceInv
    OBVIOUS
<1>1. /\ batch = <<>> /\ phase = "dispatch" /\ now = 2 /\ idx = 1
      /\ DOMAIN batch = {}
      BY DEF Init, RootId
<1>2. LedgerInv /\ SpanInv
      BY LedgerInit, SpanInit
<1>3. ShapeInv /\ PlaceInv /\ FirstInv
      BY <1>1 DEF ShapeInv, PlaceInv, FirstInv
<1>4. DeclaredInv /\ FreshInv
      BY <1>1 DEF DeclaredInv, FreshInv, ToolSpans
<1>5. AnsweredInv /\ ConcludedInv
      BY <1>1 DEF AnsweredInv, ConcludedInv
<1> QED
    BY <1>2, <1>3, <1>4, <1>5 DEF EvidenceInv

\* Every step keeps what the spans tell.
LEMMA EvidenceNext == EvidenceInv /\ [Next]_vars => EvidenceInv'
<1> SUFFICES ASSUME EvidenceInv, [Next]_vars PROVE EvidenceInv'
    OBVIOUS
<1>1. LedgerInv /\ SpanInv /\ Batched
      BY DEF EvidenceInv, SpanInv, BatchInv
<1>2. LedgerInv' /\ SpanInv'
      BY <1>1, LedgerNext, SpanNext
<1>3. ShapeInv' /\ PlaceInv' /\ FirstInv' /\ DeclaredInv'
      BY <1>1, ShapeNext, PlaceNext, FirstNext, DeclaredNext DEF EvidenceInv
<1>4. UniqueIds => FreshInv'
      BY <1>1, FreshNext DEF EvidenceInv
<1>5. AnsweredInv' /\ ConcludedInv'
      BY <1>1, AnsweredNext, ConcludedNext DEF EvidenceInv
<1> QED
    BY <1>2, <1>3, <1>4, <1>5 DEF EvidenceInv

\* What the spans of a run tell at every step.
THEOREM EvidenceInvariant == Spec => []EvidenceInv
<1> QED
    BY EvidenceInit, EvidenceNext, PTL DEF Spec

=============================================================================
