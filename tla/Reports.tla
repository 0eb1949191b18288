------------------------------- MODULE Reports --------------------------------
(***************************************************************************)
(* Reports are asked for over HTTP and rendered by jobs that share a       *)
(* counter in Redis, so that few PDFs are rendered at once.  A slot is     *)
(* taken with INCR and EXPIRE, two commands, and given back with DECR.     *)
(*                                                                         *)
(* As the code is, a report stays pending: the job looks it up with a      *)
(* tenant that owns nothing, and the UPDATE that would mark it as being    *)
(* generated raises.  What the job does with its slot is as real as ever.  *)
(***************************************************************************)
EXTENDS Integers, FiniteSets

CONSTANTS ReportIds, ReportTenants,
          AnyTenant,    \* "*", what the job takes for any tenant
          Jobs,         \* jobs that run at once, max_jobs of every worker
          PdfSemLimit, PdfSemTtl, SemTimeout, JobTimeout, \* in ticks
          MaxDeaths,    \* bound: jobs that die
          MaxCuts       \* bound: expiries between a job's INCR and EXPIRE

ASSUME ReportsAssumption ==
  /\ {PdfSemLimit, PdfSemTtl, SemTimeout, JobTimeout, MaxDeaths, MaxCuts} \subseteq Nat
  /\ JobTimeout < PdfSemTtl /\ AnyTenant \notin ReportTenants

VARIABLES report,   \* report -> its row, or NoReport
          queued,   \* reports with a job in arq:low
          render,      \* job -> what it is doing
          slots,    \* the counter; 0 when there is no key
          keyLife,  \* ticks until the key expires, 0 without a key
          refused,  \* reports whose generation has ended in an error
          leaked,   \* history: increments nobody will give back
          cut,      \* history: jobs whose increment expired under them
          deaths

reportVars == <<report, queued, render, slots, keyLife, refused, leaked, cut, deaths>>
semVars == <<slots, keyLife, leaked, cut>>

NoReport == [tenant |-> AnyTenant, status |-> "none"]
ReportRows == [tenant : ReportTenants,
               status : {"pending", "generating", "ready", "failed"}]
Forever == PdfSemTtl + 1
NoJob == [step |-> "idle", for |-> {}, got |-> 0, age |-> 0]

ReportsInit ==
  /\ report = [i \in ReportIds |-> NoReport] /\ queued = {} /\ refused = {}
  /\ render = [j \in Jobs |-> NoJob]
  /\ slots = 0 /\ keyLife = 0 /\ leaked = 0 /\ cut = 0 /\ deaths = 0

JobAt(j, step) == render[j].step = step
JobGoes(j, step) == render' = [render EXCEPT ![j].step = step]
RenderEnds(j) == render' = [render EXCEPT ![j] = NoJob]
\* Jobs that have counted themselves and not yet given the slot back.
Counted == {j \in Jobs : render[j].step \in {"expire", "return", "inside", "release"}}
Inside == {j \in Jobs : JobAt(j, "inside")}

-----------------------------------------------------------------------------
(***************************************************************************)
(* Asking for reports.                                                     *)
(***************************************************************************)
GetById(i, tenant) == report[i].tenant = tenant /\ report[i] # NoReport

\* Without a queue the report is generated in the background, without a slot.
BackgroundFinds(i) == GetById(i, AnyTenant)

RequestReport(i) ==
  /\ report[i] = NoReport
  /\ \E t \in ReportTenants :
       report' = [report EXCEPT ![i] = [tenant |-> t, status |-> "pending"]]
  /\ \/ queued' = queued \cup {i}
     \/ ~BackgroundFinds(i) /\ UNCHANGED queued
  /\ UNCHANGED <<render, semVars, refused, deaths>>

\* start_generation
MayStart(row) == row.status = "pending"

\* generate-now: the UPDATE's condition is the bare id, which SQLAlchemy refuses,
\* and get_db rolls back.
GenerateNow(i, tenant) ==
  /\ GetById(i, tenant) /\ MayStart(report[i])
  /\ refused' = refused \cup {i}
  /\ UNCHANGED <<report, queued, render, semVars, deaths>>

\* The monthly job creates and generates in one transaction, which raises as well.
MonthlyReport(i) ==
  /\ report[i] = NoReport
  /\ refused' = refused \cup {i}
  /\ UNCHANGED <<report, queued, render, semVars, deaths>>

-----------------------------------------------------------------------------
(***************************************************************************)
(* The slots.                                                              *)
(***************************************************************************)
TakeReport(j, i) ==
  /\ render[j] = NoJob /\ i \in queued
  /\ queued' = queued \ {i}
  /\ render' = [render EXCEPT ![j] = [NoJob EXCEPT !.step = "incr", !.for = {i}]]
  /\ UNCHANGED <<report, semVars, refused, deaths>>

\* INCR makes a key without a time to live, or keeps the one it has.
Incr(j) ==
  /\ JobAt(j, "incr")
  /\ slots' = slots + 1
  /\ keyLife' = IF keyLife = 0 THEN Forever ELSE keyLife
  /\ render' = [render EXCEPT ![j].step = "expire", ![j].got = slots + 1]
  /\ UNCHANGED <<report, queued, refused, leaked, cut, deaths>>

\* EXPIRE renews the key whether or not the job gets a slot.
Renewed(j) == IF keyLife = 0 THEN 0 ELSE PdfSemTtl

Expire(j) ==
  /\ JobAt(j, "expire")
  /\ keyLife' = Renewed(j)
  /\ JobGoes(j, IF render[j].got <= PdfSemLimit THEN "inside" ELSE "return")
  /\ UNCHANGED <<report, queued, slots, refused, leaked, cut, deaths>>

\* Mutant of Decr: a slot is given back by deleting the key.
DeletesKey == slots' = 0 /\ keyLife' = 0

\* DECR of a key that is gone makes one with -1.
Decr == /\ slots' = slots - 1
        /\ keyLife' = IF keyLife = 0 THEN Forever ELSE keyLife

GiveBack(j) ==
  /\ JobAt(j, "return") /\ Decr
  /\ IF render[j].age > SemTimeout
       THEN RenderEnds(j)
       ELSE JobGoes(j, "incr")
  /\ UNCHANGED <<report, queued, refused, leaked, cut, deaths>>

\* The look-up finds nothing, or raises and is rolled back: the row stays as it is.
Generate(j) ==
  /\ JobAt(j, "inside")
  /\ \A i \in render[j].for : ~GetById(i, AnyTenant)
  /\ JobGoes(j, "release")
  /\ UNCHANGED <<report, queued, semVars, refused, deaths>>

Release(j) ==
  /\ JobAt(j, "release") /\ Decr /\ RenderEnds(j)
  /\ UNCHANGED <<report, queued, refused, leaked, cut, deaths>>

\* A crash anywhere, or a cancellation while EXPIRE or DECR is awaited; ARQ runs the
\* job of a crashed worker again.
Die(j) ==
  /\ render[j] # NoJob /\ deaths < MaxDeaths
  /\ deaths' = deaths + 1
  /\ leaked' = IF j \in Counted THEN leaked + 1 ELSE leaked
  /\ queued' \in {queued, queued \cup render[j].for}
  /\ RenderEnds(j)
  /\ UNCHANGED <<report, slots, keyLife, refused, cut>>

\* Time passes; ARQ cancels a job at JobTimeout, a sleep in between is short.
ReportsTick ==
  LET dropped == Cardinality(Counted)
  IN /\ \A j \in Jobs : /\ render[j].age < JobTimeout
                        /\ JobAt(j, "incr") => render[j].age <= SemTimeout
                        /\ ~JobAt(j, "return") /\ ~JobAt(j, "release")
     /\ render' = [j \in Jobs |-> IF render[j] = NoJob THEN NoJob
                               ELSE [render[j] EXCEPT !.age = @ + 1]]
     /\ IF keyLife \in 1..PdfSemTtl THEN keyLife' = keyLife - 1 ELSE UNCHANGED keyLife
     /\ IF keyLife = 1
          THEN /\ cut + dropped <= MaxCuts
               /\ slots' = 0 /\ leaked' = -dropped /\ cut' = cut + dropped
          ELSE UNCHANGED <<slots, leaked, cut>>
     /\ \E j \in Jobs : render[j] # NoJob \/ keyLife # 0
     /\ UNCHANGED <<report, queued, refused, deaths>>

ReportsNext ==
  \/ \E i \in ReportIds : RequestReport(i) \/ MonthlyReport(i)
  \/ \E i \in ReportIds, t \in ReportTenants : GenerateNow(i, t)
  \/ \E j \in Jobs, i \in ReportIds : TakeReport(j, i)
  \/ \E j \in Jobs : \/ Incr(j) \/ Expire(j) \/ GiveBack(j) \/ Generate(j)
                     \/ Release(j) \/ Die(j)
  \/ ReportsTick

ReportsSpec == ReportsInit /\ [][ReportsNext]_reportVars

-----------------------------------------------------------------------------
\* Type invariant.
ReportsTypeOK ==
  /\ report \in [ReportIds -> ReportRows \cup {NoReport}]
  /\ queued \subseteq ReportIds /\ refused \subseteq ReportIds
  /\ render \in [Jobs -> [step : {"idle", "incr", "expire", "return", "inside", "release"},
                       for : SUBSET ReportIds, got : Int, age : 0..JobTimeout]]
  /\ slots \in Int /\ keyLife \in 0..Forever /\ leaked \in Int
  /\ cut \in 0..MaxCuts /\ deaths \in 0..MaxDeaths

\* At most two PDFs are rendered at once whatever dies, with one more for each job
\* whose slot expired between its INCR and its EXPIRE; and the counter is the number
\* of jobs that have counted themselves and of those that died before they could
\* give their slot back.
FewPdfs ==
  /\ Cardinality(Inside) <= PdfSemLimit + cut
  /\ slots = Cardinality(Counted) + leaked
=============================================================================
