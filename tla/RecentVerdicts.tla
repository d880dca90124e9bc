--------------------------- MODULE RecentVerdicts ---------------------------
(***************************************************************************)
(* What the report store promises its clients, without saying how expiry    *)
(* is done: at most one report per trace, the one recorded last; a report   *)
(* may be forgotten only when it is older than the time to live; and what a *)
(* lookup answers is younger than twice the time to live.  The concrete     *)
(* store, ReportStore, is shown to implement this.                          *)
(***************************************************************************)
EXTENDS Integers

CONSTANTS
    Traces,    \* trace ids
    Body,      \* what a report says, apart from when it was generated
    Ttl,       \* time to live of a report
    MaxTime,   \* bound on the clock
    NoReport   \* the absence of a report

VARIABLES
    clock,     \* the time of day
    reports,   \* the report retained for each trace, or NoReport
    answer     \* what the last lookup answered

rvVars == <<clock, reports, answer>>

Report == [generatedAt : Int, body : Body]

Nobody == [t \in Traces |-> NoReport]

NoAnswer == [found |-> NoReport, at |-> 0]

Expired(report) == clock - report.generatedAt > Ttl

\* A trace's report is kept as it is, or forgotten because it has expired.
KeptOrForgotten(t) ==
    \/ reports'[t] = reports[t]
    \/ reports'[t] = NoReport /\ reports[t] # NoReport /\ Expired(reports[t])

RVInit ==
    /\ clock = 0
    /\ reports = Nobody
    /\ answer = NoAnswer

Record(t) ==
    /\ reports' \in [Traces -> Report \cup {NoReport}]
    /\ reports'[t] # NoReport
    /\ \A u \in Traces \ {t} : KeptOrForgotten(u)
    /\ UNCHANGED <<clock, answer>>

Lookup(t) ==
    /\ reports' \in [Traces -> Report \cup {NoReport}]
    /\ \A u \in Traces : KeptOrForgotten(u)
    /\ answer' = [found |-> reports'[t], at |-> clock]
    /\ reports'[t] # NoReport =>
          clock - reports'[t].generatedAt < 2 * Ttl
    /\ UNCHANGED clock

\* The registry lives in memory: a restart forgets every verdict.
Lose ==
    /\ reports' = Nobody
    /\ UNCHANGED <<clock, answer>>

Pass ==
    /\ clock < MaxTime
    /\ clock' = clock + 1
    /\ UNCHANGED <<reports, answer>>

RVNext ==
    \/ \E t \in Traces : Record(t)
    \/ \E t \in Traces : Lookup(t)
    \/ Lose
    \/ Pass

RVSpec == RVInit /\ [][RVNext]_rvVars

=============================================================================
