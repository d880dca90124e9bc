----------------------------- MODULE ReportStore -----------------------------
(***************************************************************************)
(* The in-memory report registry of internal/report/store.go: one report    *)
(* per trace id, swept lazily.  Put and Get hold the mutex from their first *)
(* line to their last, so each is one action, the sweep included.           *)
(*                                                                         *)
(* Time is a counter.  A report carries the time Build stamped on it, which *)
(* precedes the Put by the time the handler needs in between; MaxLag bounds *)
(* that delay in this module's own specification.                           *)
(***************************************************************************)
EXTENDS Integers

CONSTANTS
    Traces,    \* trace ids
    Body,      \* what a report says, apart from when it was generated
    Ttl,       \* time to live of a report; serve uses five minutes
    MaxLag,    \* bound on the delay between Build and Put
    MaxTime,   \* bound on the clock
    NoReport   \* the absence of a report

ASSUME StoreAssumption ==
    /\ Ttl \in Nat \ {0}
    /\ MaxLag \in 0..Ttl
    /\ MaxTime \in Nat
    /\ NoReport \notin [generatedAt : Int, body : Body]

VARIABLES
    clock,      \* the time of day
    reports,    \* Store.reports
    lastSweep,  \* Store.lastSweep
    latest,     \* history: the report put last for each trace
    answer      \* history: what the last Get returned, and when

storeVars == <<clock, reports, lastSweep, latest, answer>>

Report == [generatedAt : Int, body : Body]

Nobody == [t \in Traces |-> NoReport]

NoAnswer == [found |-> NoReport, at |-> 0]

-----------------------------------------------------------------------------
\* Go's zero time is older than any time to live, so the first access sweeps.
ZeroTime == -Ttl

NewStore ==
    /\ reports = Nobody
    /\ lastSweep = ZeroTime
    /\ latest = Nobody
    /\ answer = NoAnswer

SweepDue == clock - lastSweep >= Ttl

\* Mutant of Expired: reports live twice as long as asked for.
ExpiredLate(report) == clock - report.generatedAt > 2 * Ttl

Expired(report) == clock - report.generatedAt > Ttl

\* Mutants of Swept: a due sweep empties the map, or removes nothing.
SweptAll == IF SweepDue THEN Nobody ELSE reports

SweptNothing == reports

\* sweepLocked: what the map holds, and when it was last swept, afterwards.
Swept ==
    [t \in Traces |->
        IF reports[t] # NoReport /\ SweepDue /\ Expired(reports[t])
        THEN NoReport ELSE reports[t]]

SweptAt == IF SweepDue THEN clock ELSE lastSweep

Put(t, report) ==
    /\ reports' = [Swept EXCEPT ![t] = report]
    /\ lastSweep' = SweptAt
    /\ latest' = [latest EXCEPT ![t] = report]
    /\ UNCHANGED <<clock, answer>>

\* Mutant of Get: it reads the map without sweeping it first.
GetUnswept(t) ==
    /\ answer' = [found |-> reports[t], at |-> clock]
    /\ UNCHANGED <<clock, reports, lastSweep, latest>>

Get(t) ==
    /\ reports' = Swept
    /\ lastSweep' = SweptAt
    /\ answer' = [found |-> Swept[t], at |-> clock]
    /\ UNCHANGED <<clock, latest>>

Tick ==
    /\ clock < MaxTime
    /\ clock' = clock + 1
    /\ UNCHANGED <<reports, lastSweep, latest, answer>>

\* Mutant of Restart: the new store's map is never made.
RestartNilMap ==
    /\ reports' = NoReport
    /\ lastSweep' = ZeroTime
    /\ latest' = Nobody
    /\ UNCHANGED <<clock, answer>>

\* The process exits and serve is started again with NewStore.
Restart ==
    /\ reports' = Nobody
    /\ lastSweep' = ZeroTime
    /\ latest' = Nobody
    /\ UNCHANGED <<clock, answer>>

-----------------------------------------------------------------------------
Init == clock = 0 /\ NewStore

\* A handler that built its report at most MaxLag ago records it.
PutBuilt(t) ==
    \E age \in 0..MaxLag, body \in Body :
        /\ age <= clock
        /\ Put(t, [generatedAt |-> clock - age, body |-> body])

Next ==
    \/ \E t \in Traces : PutBuilt(t)
    \/ \E t \in Traces : Get(t)
    \/ Tick
    \/ Restart

Spec == Init /\ [][Next]_storeVars

-----------------------------------------------------------------------------
\* Type invariant of the registry.
TypeOK ==
    /\ clock \in Nat
    /\ reports \in [Traces -> Report \cup {NoReport}]
    /\ lastSweep \in Int
    /\ latest \in [Traces -> Report \cup {NoReport}]
    /\ answer \in [found : Report \cup {NoReport}, at : Int]

\* A verdict is not lost early: until a trace's latest report is older than
\* the time to live, the store holds it, whatever Put or Get swept meanwhile
\* on behalf of other traces.
NotForgottenEarly ==
    \A t \in Traces :
        latest[t] # NoReport /\ ~Expired(latest[t]) => reports[t] = latest[t]

\* Lazy sweeping bounds staleness: nothing a Get returns is twice the time
\* to live old, provided a report is put within one time to live of Build.
RetrievedIsRecent ==
    answer.found # NoReport => answer.at - answer.found.generatedAt < 2 * Ttl

\* The strengthening behind RetrievedIsRecent: a report that is in the map
\* survived the last sweep or was put after it, so it is at most one time to
\* live older than that sweep.
SweepHorizon ==
    /\ lastSweep <= clock
    /\ \A t \in Traces :
          reports[t] # NoReport =>
              /\ reports[t].generatedAt <= clock
              /\ reports[t].generatedAt >= lastSweep - Ttl

\* What the proofs carry from step to step.
StoreInv ==
    /\ TypeOK
    /\ SweepHorizon
    /\ NotForgottenEarly
    /\ RetrievedIsRecent

\* The abstract registry that the store implements.
Recent == INSTANCE RecentVerdicts

ImplementsRecentVerdicts == Recent!RVSpec

=============================================================================
