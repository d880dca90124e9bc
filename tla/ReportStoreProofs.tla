-------------------------- MODULE ReportStoreProofs --------------------------
(***************************************************************************)
(* Proofs about the report store for every set of traces and bodies, every  *)
(* positive time to live, every admissible lag and every length of run.     *)
(***************************************************************************)
EXTENDS ReportStore, TLAPS

\* sweepLocked keeps the map a map: what it leaves for a trace is what was
\* there, or nothing, and nothing only where the report had expired.
LEMMA SweptIsKeptOrForgotten ==
    ASSUME TypeOK, NEW t \in Traces
    PROVE  /\ Swept \in [Traces -> Report \cup {NoReport}]
           /\ \/ Swept[t] = reports[t]
              \/ Swept[t] = NoReport /\ reports[t] # NoReport
                                     /\ Expired(reports[t])
BY DEF TypeOK, Swept

\* The report a handler puts was stamped by Build at most MaxLag ago.
LEMMA PutBuiltIsPut ==
    ASSUME TypeOK, NEW t \in Traces, PutBuilt(t)
    PROVE  \E report \in Report :
              /\ report.generatedAt <= clock
              /\ report.generatedAt >= clock - MaxLag
              /\ Put(t, report)
<1>1. PICK age \in 0..MaxLag, body \in Body :
          Put(t, [generatedAt |-> clock - age, body |-> body])
  BY DEF PutBuilt
<1>2. /\ MaxLag \in Nat
      /\ age \in Int /\ 0 <= age /\ age <= MaxLag
      /\ clock \in Int
  BY StoreAssumption DEF TypeOK
<1> DEFINE report == [generatedAt |-> clock - age, body |-> body]
<1>3. report \in Report
  BY <1>2 DEF Report
<1>4. report.generatedAt <= clock /\ report.generatedAt >= clock - MaxLag
  BY <1>2
<1>5. QED
  BY <1>1, <1>3, <1>4

\* The invariant holds of the empty store.
LEMMA InitEstablishesInv == Init => StoreInv
<1> SUFFICES ASSUME Init PROVE StoreInv
  OBVIOUS
<1> USE DEF Init, NewStore, Nobody, NoAnswer
<1>1. TypeOK
  BY StoreAssumption DEF TypeOK, ZeroTime
<1>2. SweepHorizon
  BY StoreAssumption DEF SweepHorizon, ZeroTime
<1>3. NotForgottenEarly
  BY DEF NotForgottenEarly
<1>4. RetrievedIsRecent
  BY DEF RetrievedIsRecent
<1>5. QED
  BY <1>1, <1>2, <1>3, <1>4 DEF StoreInv

\* One access of the store, by Put or by Get, after its sweep.
LEMMA SweepHorizonAfterSweep ==
    ASSUME TypeOK, SweepHorizon
    PROVE  /\ SweptAt <= clock
           /\ clock - SweptAt < Ttl
           /\ SweptAt \in Int
           /\ \A u \in Traces :
                 Swept[u] # NoReport =>
                    /\ Swept[u].generatedAt <= clock
                    /\ Swept[u].generatedAt >= SweptAt - Ttl
<1>1. clock \in Int /\ lastSweep \in Int /\ Ttl \in Nat \ {0}
  BY StoreAssumption DEF TypeOK
<1>2. SweptAt <= clock /\ clock - SweptAt < Ttl /\ SweptAt \in Int
  BY <1>1 DEF SweptAt, SweepDue, SweepHorizon
<1>3. ASSUME NEW u \in Traces, Swept[u] # NoReport
      PROVE  /\ Swept[u].generatedAt <= clock
             /\ Swept[u].generatedAt >= SweptAt - Ttl
  <2>1. Swept[u] = reports[u] /\ reports[u] \in Report
    BY <1>3 DEF Swept, TypeOK
  <2>2. reports[u].generatedAt \in Int
    BY <2>1 DEF Report
  <2>3. CASE SweepDue
    <3>1. ~Expired(reports[u]) /\ SweptAt = clock
      BY <1>3, <2>3 DEF Swept, SweptAt
    <3>2. QED
      BY <1>1, <1>3, <2>1, <2>2, <3>1 DEF Expired, SweepHorizon
  <2>4. CASE ~SweepDue
    BY <1>3, <2>1, <2>4 DEF SweptAt, SweepHorizon
  <2>5. QED
    BY <2>3, <2>4
<1>4. QED
  BY <1>2, <1>3

\* Storing a report, with the sweep and the eviction it makes, keeps it.
LEMMA PutPreservesInv ==
    ASSUME StoreInv, NEW t \in Traces, NEW report \in Report,
           report.generatedAt <= clock,
           report.generatedAt >= clock - MaxLag,
           Put(t, report)
    PROVE  StoreInv'
<1> USE DEF StoreInv
<1>1. report # NoReport /\ report.generatedAt \in Int
  BY StoreAssumption DEF Report
<1>2. TypeOK'
  BY SweptIsKeptOrForgotten, SweepHorizonAfterSweep DEF TypeOK, Put
<1>3. SweepHorizon'
  <2>1. lastSweep' <= clock'
    BY SweepHorizonAfterSweep DEF Put
  <2>2. ASSUME NEW u \in Traces, reports'[u] # NoReport
        PROVE  /\ reports'[u].generatedAt <= clock'
               /\ reports'[u].generatedAt >= lastSweep' - Ttl
    <3>1. CASE u = t
      <4>1. reports'[u] = report /\ lastSweep' = SweptAt /\ clock' = clock
        BY <3>1, SweptIsKeptOrForgotten DEF Put
      <4>2. /\ clock \in Int /\ SweptAt \in Int /\ SweptAt <= clock
            /\ Ttl \in Int /\ MaxLag \in Int /\ MaxLag <= Ttl
        BY SweepHorizonAfterSweep, StoreAssumption DEF TypeOK
      <4>3. QED
        BY <1>1, <4>1, <4>2
    <3>2. CASE u # t
      <4>1. reports'[u] = Swept[u] /\ lastSweep' = SweptAt /\ clock' = clock
        BY <3>2, SweptIsKeptOrForgotten DEF Put
      <4>2. QED
        BY <2>2, <4>1, SweepHorizonAfterSweep
    <3>3. QED
      BY <3>1, <3>2
  <2>3. QED
    BY <2>1, <2>2 DEF SweepHorizon
<1>4. NotForgottenEarly'
  <2> SUFFICES ASSUME NEW u \in Traces, latest'[u] # NoReport,
                      ~Expired(latest[u])'
               PROVE  reports'[u] = latest'[u]
    BY DEF NotForgottenEarly
  <2>1. CASE u = t
    BY <2>1, SweptIsKeptOrForgotten DEF Put, TypeOK
  <2>2. CASE u # t
    <3>1. /\ reports'[u] = Swept[u] /\ latest'[u] = latest[u]
          /\ clock' = clock
      BY <2>2, SweptIsKeptOrForgotten DEF Put, TypeOK
    <3>2. ~Expired(latest[u]) /\ reports[u] = latest[u]
      BY <3>1 DEF NotForgottenEarly, Expired
    <3>3. QED
      BY <3>1, <3>2, SweptIsKeptOrForgotten
  <2>3. QED
    BY <2>1, <2>2
<1>5. RetrievedIsRecent'
  BY DEF RetrievedIsRecent, Put
<1>6. QED
  BY <1>2, <1>3, <1>4, <1>5

\* So does a lookup.
LEMMA GetPreservesInv ==
    ASSUME StoreInv, NEW t \in Traces, Get(t)
    PROVE  StoreInv'
<1> USE DEF StoreInv
<1>1. TypeOK'
  <2>1. Swept \in [Traces -> Report \cup {NoReport}]
    BY SweptIsKeptOrForgotten
  <2>2. [found |-> Swept[t], at |-> clock]
            \in [found : Report \cup {NoReport}, at : Int]
    BY <2>1 DEF TypeOK
  <2>3. QED
    BY <2>1, <2>2, SweepHorizonAfterSweep DEF TypeOK, Get
<1>2. SweepHorizon'
  BY SweepHorizonAfterSweep DEF SweepHorizon, Get
<1>3. NotForgottenEarly'
  <2> SUFFICES ASSUME NEW u \in Traces, latest'[u] # NoReport,
                      ~Expired(latest[u])'
               PROVE  reports'[u] = latest'[u]
    BY DEF NotForgottenEarly
  <2>1. reports'[u] = Swept[u] /\ latest'[u] = latest[u] /\ clock' = clock
    BY DEF Get
  <2>2. ~Expired(latest[u]) /\ reports[u] = latest[u]
    BY <2>1 DEF NotForgottenEarly, Expired
  <2>3. QED
    BY <2>1, <2>2, SweptIsKeptOrForgotten
<1>4. RetrievedIsRecent'
  <2> SUFFICES ASSUME answer'.found # NoReport
               PROVE  answer'.at - answer'.found.generatedAt < 2 * Ttl
    BY DEF RetrievedIsRecent
  <2>1. answer'.found = Swept[t] /\ answer'.at = clock
    BY DEF Get
  <2>2. Swept[t] \in Report
    BY <2>1, SweptIsKeptOrForgotten
  <2>3. Swept[t].generatedAt \in Int /\ clock \in Int /\ Ttl \in Int
    BY <2>2, StoreAssumption DEF Report, TypeOK
  <2>4. /\ Swept[t].generatedAt >= SweptAt - Ttl
        /\ clock - SweptAt < Ttl
        /\ SweptAt \in Int
    BY <2>1, SweepHorizonAfterSweep
  <2>5. QED
    BY <2>1, <2>3, <2>4
<1>5. QED
  BY <1>1, <1>2, <1>3, <1>4

\* So does the passing of time.
LEMMA TickPreservesInv ==
    ASSUME StoreInv, Tick
    PROVE  StoreInv'
<1> USE DEF StoreInv, Tick
<1>1. clock \in Int /\ clock' = clock + 1
  BY DEF TypeOK
<1>2. TypeOK'
  BY DEF TypeOK
<1>3. SweepHorizon'
  <2> SUFFICES ASSUME NEW u \in Traces, reports[u] # NoReport
               PROVE  reports[u].generatedAt <= clock + 1
    BY <1>1 DEF SweepHorizon, TypeOK
  <2>1. reports[u].generatedAt \in Int /\ reports[u].generatedAt <= clock
    BY DEF SweepHorizon, TypeOK, Report
  <2>2. QED
    BY <1>1, <2>1
<1>4. NotForgottenEarly'
  <2> SUFFICES ASSUME NEW u \in Traces, latest'[u] # NoReport,
                      ~Expired(latest[u])'
               PROVE  reports'[u] = latest'[u]
    BY DEF NotForgottenEarly
  <2>1. latest[u].generatedAt \in Int
    BY DEF TypeOK, Report
  <2>2. ~Expired(latest[u])
    BY <1>1, <2>1, StoreAssumption DEF Expired
  <2>3. QED
    BY <2>2 DEF NotForgottenEarly
<1>5. RetrievedIsRecent'
  BY DEF RetrievedIsRecent
<1>6. QED
  BY <1>2, <1>3, <1>4, <1>5

\* So does a restart of the server.
LEMMA RestartPreservesInv ==
    ASSUME StoreInv, Restart
    PROVE  StoreInv'
<1> USE DEF StoreInv, Restart, Nobody
<1>1. TypeOK'
  BY StoreAssumption DEF TypeOK, ZeroTime
<1>2. SweepHorizon'
  <2>1. \A u \in Traces : reports'[u] = NoReport
    OBVIOUS
  <2>2. -Ttl <= clock
    BY StoreAssumption DEF SweepHorizon, TypeOK
  <2>3. QED
    BY <2>1, <2>2 DEF SweepHorizon, ZeroTime
<1>3. NotForgottenEarly'
  BY DEF NotForgottenEarly
<1>4. RetrievedIsRecent'
  BY DEF RetrievedIsRecent
<1>5. QED
  BY <1>1, <1>2, <1>3, <1>4

\* The invariant is inductive.
LEMMA NextPreservesInv == StoreInv /\ [Next]_storeVars => StoreInv'
<1> SUFFICES ASSUME StoreInv, [Next]_storeVars PROVE StoreInv'
  OBVIOUS
<1>1. ASSUME NEW t \in Traces, PutBuilt(t) PROVE StoreInv'
  BY <1>1, PutBuiltIsPut, PutPreservesInv DEF StoreInv
<1>2. ASSUME NEW t \in Traces, Get(t) PROVE StoreInv'
  BY <1>2, GetPreservesInv
<1>3. CASE Tick
  BY <1>3, TickPreservesInv
<1>4. CASE Restart
  BY <1>4, RestartPreservesInv
<1>5. CASE UNCHANGED storeVars
  BY <1>5 DEF storeVars, StoreInv, TypeOK, SweepHorizon, NotForgottenEarly,
              RetrievedIsRecent, Expired
<1>6. QED
  BY <1>1, <1>2, <1>3, <1>4, <1>5 DEF Next

\* Everything the store maintains, for every value of the constants: the
\* conjunction of the type invariant and of the three facts about sweeping.
THEOREM StoreInvariant == Spec => []StoreInv
<1>1. Init => StoreInv
  BY InitEstablishesInv
<1>2. StoreInv /\ [Next]_storeVars => StoreInv'
  BY NextPreservesInv
<1>3. QED
  BY <1>1, <1>2, PTL DEF Spec

\* Variables of the registry (store.go:12-17) keep their types.
THEOREM TypeCorrect == Spec => []TypeOK
<1>1. StoreInv => TypeOK
  BY DEF StoreInv
<1>2. QED
  BY <1>1, StoreInvariant, PTL

\* A sweep on behalf of any trace never takes a trace's latest report before
\* it is older than the time to live (store.go:44-54).
THEOREM LatestIsRetained == Spec => []NotForgottenEarly
<1>1. StoreInv => NotForgottenEarly
  BY DEF StoreInv
<1>2. QED
  BY <1>1, StoreInvariant, PTL

\* The last sweep is in the past, and nothing in the map was more than one
\* time to live old when it ran.
THEOREM SweepIsBehind == Spec => []SweepHorizon
<1>1. StoreInv => SweepHorizon
  BY DEF StoreInv
<1>2. QED
  BY <1>1, StoreInvariant, PTL

\* Lazy expiry is bounded: a Get never returns a report twice the time to
\* live old (store.go:33-39 with the early return of store.go:45).
THEOREM StalenessIsBounded == Spec => []RetrievedIsRecent
<1>1. StoreInv => RetrievedIsRecent
  BY DEF StoreInv
<1>2. QED
  BY <1>1, StoreInvariant, PTL

-----------------------------------------------------------------------------
\* The abstract store starts empty, too.
LEMMA InitRefines == Init => Recent!RVInit
BY DEF Init, NewStore, Recent!RVInit, Nobody, Recent!Nobody,
       NoAnswer, Recent!NoAnswer

\* Sweeping is forgetting: a trace that an access did not write keeps its
\* report or loses an expired one.
LEMMA SweepingForgets ==
    ASSUME StoreInv, NEW u \in Traces, reports'[u] = Swept[u]
    PROVE  Recent!KeptOrForgotten(u)
BY SweptIsKeptOrForgotten
   DEF StoreInv, Recent!KeptOrForgotten, Recent!Expired, Expired

\* Every step of the store is one of the abstract specification or none.
LEMMA StepRefines ==
    StoreInv /\ StoreInv' /\ [Next]_storeVars => [Recent!RVNext]_(Recent!rvVars)
<1> SUFFICES ASSUME StoreInv, StoreInv', [Next]_storeVars
             PROVE  Recent!RVNext \/ UNCHANGED Recent!rvVars
  OBVIOUS
<1>0. reports' \in [Traces -> Recent!Report \cup {NoReport}]
  BY DEF StoreInv, TypeOK, Report, Recent!Report
<1>1. ASSUME NEW t \in Traces, PutBuilt(t) PROVE Recent!Record(t)
  <2>1. PICK report \in Report : Put(t, report)
    BY <1>1, PutBuiltIsPut DEF StoreInv
  <2>2. reports' = [Swept EXCEPT ![t] = report] /\ UNCHANGED <<clock, answer>>
    BY <2>1 DEF Put
  <2>3. reports'[t] = report
        /\ \A u \in Traces \ {t} : reports'[u] = Swept[u]
    BY <2>2, SweptIsKeptOrForgotten DEF StoreInv
  <2>4. report # NoReport
    BY StoreAssumption DEF Report
  <2>5. QED
    BY <1>0, <2>2, <2>3, <2>4, SweepingForgets DEF Recent!Record
<1>2. ASSUME NEW t \in Traces, Get(t) PROVE Recent!Lookup(t)
  <2>1. /\ reports' = Swept
        /\ answer' = [found |-> reports'[t], at |-> clock]
        /\ UNCHANGED clock
    BY <1>2 DEF Get
  <2>2. reports'[t] # NoReport => clock - reports'[t].generatedAt < 2 * Ttl
    BY <2>1 DEF StoreInv, RetrievedIsRecent
  <2>3. QED
    BY <1>0, <2>1, <2>2, SweepingForgets DEF Recent!Lookup
<1>3. ASSUME Tick PROVE Recent!Pass
  BY <1>3 DEF Tick, Recent!Pass
<1>4. ASSUME Restart PROVE Recent!Lose
  BY <1>4 DEF Restart, Recent!Lose, Nobody, Recent!Nobody
<1>5. CASE UNCHANGED storeVars
  BY <1>5 DEF storeVars, Recent!rvVars
<1>6. QED
  BY <1>1, <1>2, <1>3, <1>4, <1>5 DEF Next, Recent!RVNext

\* The lazily swept map implements the abstract registry of recent verdicts:
\* at most one report per trace, forgotten only once expired, and never
\* answered when twice the time to live old.
THEOREM StoreImplementsRecentVerdicts == Spec => ImplementsRecentVerdicts
<1>1. Init => Recent!RVInit
  BY InitRefines
<1>2. StoreInv /\ StoreInv' /\ [Next]_storeVars
          => [Recent!RVNext]_(Recent!rvVars)
  BY StepRefines
<1>3. QED
  BY <1>1, <1>2, StoreInvariant, PTL
     DEF Spec, ImplementsRecentVerdicts, Recent!RVSpec

=============================================================================
