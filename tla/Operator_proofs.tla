--------------------------- MODULE Operator_proofs ---------------------------
(***************************************************************************)
(* Proofs about Operator: what a command reads in several requests stays   *)
(* true of a queue that goes on meanwhile.  They rest on the invariant of  *)
(* JobQueue, which a command cannot disturb.                               *)
(***************************************************************************)
EXTENDS Operator, JobQueue_proofs, FiniteSetTheorems

USE BoundsAssumption DEF Jobs

Outcomes == {"succeeded", "failed"}

(* A step is a step of the queue, or of a command that leaves it alone.    *)
LEMMA QueueGoesOn == [OperatorNext]_allVars => [Next]_vars
  BY DEF OperatorNext, allVars

LEMMA QueueInvKept == QueueInv /\ [OperatorNext]_allVars => QueueInv'
  BY QueueGoesOn, QueueNext

(* The table never loses a job; no job is ever cancelled.                  *)
LEMMA QueueTypes ==
  ASSUME QueueInv
  PROVE  /\ nextJob \in 1 .. MaxJobs + 1
         /\ \A j \in Jobs : status[j] \in {"none", "pending", "running", "succeeded", "failed"}
  BY DEF QueueInv, TypeOK

LEMMA NextJobGrows ==
  ASSUME QueueInv, [Next]_vars
  PROVE  nextJob' \in {nextJob, nextJob + 1}
<1>1. ASSUME NEW c \in Handlers, HandlerStep(c) PROVE nextJob' \in {nextJob, nextJob + 1}
  BY <1>1 DEF HandlerStep, RejectRequest, RejectActive, Admit, RejectAdmitted, ReturnExisting,
              MissKey, InsertJob, jobVars
<1>2. ASSUME NEW w \in Workers, WorkerStep(w) PROVE nextJob' = nextJob
  BY <1>2 DEF WorkerStep, SelectJobForUpdate, CommitClaim, FailClaim, TakeRow, UpdateJobHeartbeat,
              Finish, MarkJob, LoseOutcome, Crash, Restart, jobVars
<1>3. ASSUME NEW j \in Jobs, Expire(j) PROVE nextJob' = nextJob
  BY <1>3 DEF Expire
<1> QED BY <1>1, <1>2, <1>3 DEF Next, vars, jobVars

-----------------------------------------------------------------------------
(* Counting jobs.                                                          *)

JobsOf(s) == {j \in Jobs : status[j] = s}

LEMMA JobsCounted ==
  ASSUME NEW S \in SUBSET Jobs
  PROVE  IsFiniteSet(S) /\ Cardinality(S) \in Nat
<1>1. IsFiniteSet(Jobs)
  BY FS_Interval
<1> QED BY <1>1, FS_Subset, FS_CardinalityType

(* While heartbeats come in time no outcome loses a job.                   *)
LEMMA OutcomesGrow ==
  ASSUME ~SlowExecution, QueueInv, [Next]_vars, NEW s \in Outcomes
  PROVE  Cardinality(JobsOf(s)) <= Cardinality(JobsOf(s)')
<1>1. JobsOf(s) \subseteq JobsOf(s)'
  BY OutcomeStays DEF JobsOf, Terminal, Outcomes
<1>2. JobsOf(s)' \subseteq Jobs
  BY DEF JobsOf
<1> QED BY <1>1, <1>2, JobsCounted, FS_Subset

(* A page with jobs behind it is full.                                     *)
LEMMA FullPage ==
  ASSUME nextJob \in 1 .. MaxJobs + 1, NEW k \in Nat \ {0}, NEW j \in Jobs,
         j <= nextJob - 1 - k * PageSize
  PROVE  Cardinality(Page(k)) = PageSize
<1> DEFINE before == (k - 1) * PageSize
<1>1. before \in Nat /\ k * PageSize = before + PageSize /\ PageSize \in Nat \ {0}
  BY PageSizeAssumption
<1> HIDE DEF before
<1>2. Page(k) = nextJob - before - PageSize .. nextJob - before - 1
  <2>1. Page(k) = {i \in Jobs : nextJob - 1 - i \in before .. before + PageSize - 1}
    BY <1>1 DEF Page, before
  <2> QED BY <1>1, <2>1
<1>3. nextJob - before - PageSize \in Int /\ nextJob - before - 1 \in Int
  BY <1>1
<1> QED BY <1>1, <1>2, <1>3, FS_Interval

-----------------------------------------------------------------------------
(* The invariant.                                                          *)

LEMMA CommandInit == OperatorInit => CommandInv
<1> SUFFICES ASSUME OperatorInit PROVE CommandInv
  OBVIOUS
<1>1. CommandTypes /\ WatchInv /\ PagingInv
  BY DEF OperatorInit, CommandTypes, NoneCounted, WatchInv, PagingInv, PagesMissNothing
<1>2. CountedInv
  <2>1. \A s \in Outcomes : Cardinality(JobsOf(s)) \in Nat
    BY JobsCounted DEF JobsOf
  <2> QED BY <2>1 DEF OperatorInit, NoneCounted, CountedInv, JobsOf, Outcomes
<1> QED BY <1>1, <1>2 DEF CommandInv

(* The queue goes on under a command that waits.                           *)
LEMMA QueueKeepsCommandInv ==
  ASSUME QueueInv, CommandInv, [Next]_vars, UNCHANGED commandVars
  PROVE  CommandInv'
<1> USE DEF CommandInv, commandVars
<1>1. CommandTypes'
  BY DEF CommandTypes
<1>2. WatchInv'
  BY FinishedStays, OutcomeStays DEF WatchInv, ShownIsFinal
<1>3. PagingInv'
  <2>1. nextJob \in Nat /\ nextJob' \in Nat /\ nextJob <= nextJob'
    BY NextJobGrows, QueueTypes
  <2>2. (page - 1) * PageSize \in Nat
    BY PageSizeAssumption DEF CommandTypes
  <2>3. ASSUME NEW j \in 1 .. since, j <= nextJob - 1 - (page - 1) * PageSize
        PROVE  j <= nextJob' - 1 - (page - 1) * PageSize
    BY <2>1, <2>2, <2>3 DEF CommandTypes
  <2> QED BY <2>3 DEF PagingInv, PagesMissNothing
<1>4. CountedInv'
  <2> SUFFICES ASSUME ~SlowExecution, NEW s \in Outcomes
               PROVE  counted[s] <= Cardinality(JobsOf(s)')
    BY DEF CountedInv, JobsOf, Outcomes
  <2>1. counted[s] <= Cardinality(JobsOf(s)) /\ counted[s] \in Nat
    BY DEF CountedInv, CommandTypes, JobsOf, Outcomes
  <2>2. Cardinality(JobsOf(s)) \in Nat /\ Cardinality(JobsOf(s)') \in Nat
    BY JobsCounted DEF JobsOf
  <2> QED BY <2>1, <2>2, OutcomesGrow
<1> QED BY <1>1, <1>2, <1>3, <1>4

(* Watching leaves paging and scraping alone.                              *)
LEMMA WatchKeepsCommandInv ==
  ASSUME QueueInv, CommandInv, UNCHANGED vars,
         \/ \E j \in Jobs : Watch(j)
         \/ GetDeploymentJob \/ FailRequest \/ Tick \/ PassDeadline \/ TakeDeadline
  PROVE  CommandInv'
<1> USE DEF CommandInv, vars, jobVars
<1>1. ASSUME NEW j \in Jobs, Watch(j) PROVE CommandInv'
  <2>1. \A s \in Outcomes : Cardinality(JobsOf(s)') \in Nat
    BY JobsCounted DEF JobsOf
  <2>2. CountedInv'
    BY <1>1, <2>1 DEF Watch, NoneCounted, CountedInv, JobsOf, Outcomes
  <2> QED BY <1>1, <2>2 DEF Watch, NoneCounted, CommandTypes, WatchInv, PagingInv, PagesMissNothing
<1>2. ASSUME \/ GetDeploymentJob \/ FailRequest \/ Tick \/ PassDeadline \/ TakeDeadline
      PROVE  CommandInv'
  <2>1. UNCHANGED <<watched, page, listed, since, counted, status, nextJob>>
    BY <1>2 DEF GetDeploymentJob, FailRequest, Tick, PassDeadline, TakeDeadline
  <2>2. CommandTypes' /\ CountedInv'
    BY <1>2, <2>1 DEF GetDeploymentJob, FailRequest, Tick, PassDeadline, TakeDeadline, Exit,
                      CommandTypes, CountedInv
  <2>3. WatchInv'
    <3>1. CASE GetDeploymentJob
      <4>1. watched \in Jobs
        BY <3>1 DEF GetDeploymentJob, WatchInv
      <4>2. Final(status[watched]) => Terminal(watched)
        BY <4>1, QueueTypes DEF Final, Terminal
      <4> QED BY <2>1, <3>1, <4>1, <4>2 DEF GetDeploymentJob, Exit, WatchInv, ShownIsFinal, Terminal
    <3>2. CASE FailRequest \/ Tick \/ PassDeadline \/ TakeDeadline
      BY <2>1, <3>2 DEF FailRequest, Tick, PassDeadline, TakeDeadline, Exit, WatchInv, ShownIsFinal,
                        Terminal
    <3> QED BY <1>2, <3>1, <3>2
  <2>4. PagingInv'
    <3>1. CASE FailRequest
      BY <2>1, <3>1 DEF FailRequest, Exit, PagingInv, PagesMissNothing
    <3>2. CASE GetDeploymentJob \/ Tick \/ PassDeadline \/ TakeDeadline
      <4>1. watched # 0 /\ cpc' \notin {"page", "scrape"}
        BY <3>2 DEF GetDeploymentJob, Tick, PassDeadline, TakeDeadline, Exit, WatchInv
      <4> QED BY <2>1, <4>1 DEF PagingInv, PagesMissNothing
    <3> QED BY <1>2, <3>1, <3>2
  <2> QED BY <2>2, <2>3, <2>4
<1> QED BY <1>1, <1>2

(* A page is shown.  What it leaves out is further back.                   *)
LEMMA PageKeepsCommandInv ==
  ASSUME QueueInv, CommandInv, UNCHANGED vars, List \/ ListDeploymentJobs
  PROVE  CommandInv'
<1> USE DEF CommandInv, vars, jobVars
<1>0. nextJob \in 1 .. MaxJobs + 1
  BY QueueTypes
<1>1. CASE List
  <2>1. CountedInv'
    <3>1. \A s \in Outcomes : Cardinality(JobsOf(s)') \in Nat
      BY JobsCounted DEF JobsOf
    <3> QED BY <1>1, <3>1 DEF List, NoneCounted, CountedInv, JobsOf, Outcomes
  <2>2. PagingInv'
    BY <1>0, <1>1, PageSizeAssumption DEF List, PagingInv, PagesMissNothing
  <2> QED BY <1>0, <1>1, <2>1, <2>2 DEF List, NoneCounted, CommandTypes, WatchInv
<1>2. CASE ListDeploymentJobs
  <2>1. CommandTypes' /\ CountedInv'
    BY <1>2 DEF ListDeploymentJobs, Exit, CommandTypes, CountedInv
  <2>2. WatchInv'
    BY <1>2 DEF ListDeploymentJobs, Exit, WatchInv, ShownIsFinal, Terminal
  <2>3. ASSUME NEW j \in 1 .. since, j \notin listed'
        PROVE  j <= nextJob - 1 - page * PageSize
    <3> DEFINE before == (page - 1) * PageSize
    <3>1. before \in Nat /\ page * PageSize = before + PageSize /\ PageSize \in Nat \ {0}
      BY PageSizeAssumption DEF CommandTypes
    <3>2. j <= nextJob - 1 - before
      BY <1>2, <2>3 DEF ListDeploymentJobs, PagingInv
    <3>3. j \in Jobs /\ nextJob - 1 - j \notin before .. page * PageSize - 1
      BY <1>2, <2>3 DEF ListDeploymentJobs, Page, CommandTypes
    <3> HIDE DEF before
    <3> QED BY <1>0, <3>1, <3>2, <3>3
  <2>4. CASE Cardinality(Page(page)) < PageSize
    <3>1. 1 .. since \subseteq listed'
      <4> SUFFICES ASSUME NEW j \in 1 .. since, j \notin listed' PROVE FALSE
        OBVIOUS
      <4>1. j \in Jobs /\ page \in Nat \ {0}
        BY DEF CommandTypes
      <4>2. Cardinality(Page(page)) = PageSize
        BY <1>0, <2>3, <4>1, FullPage
      <4> QED BY <2>4, <4>2, PageSizeAssumption
    <3>2. cpc' = "exit" /\ since' = since
      BY <1>2, <2>4 DEF ListDeploymentJobs, Exit
    <3>3. PagesMissNothing'
      BY <3>1, <3>2 DEF PagesMissNothing
    <3> QED BY <2>1, <2>2, <3>2, <3>3 DEF PagingInv
  <2>5. CASE ~(Cardinality(Page(page)) < PageSize)
    <3>1. page' - 1 = page /\ cpc' = "page" /\ cpc = "page"
      BY <1>2, <2>5 DEF ListDeploymentJobs, CommandTypes
    <3>2. UNCHANGED <<since, watched, nextJob>>
      BY <1>2 DEF ListDeploymentJobs
    <3>3. \A j \in 1 .. since' : j \in listed' \/ j <= nextJob' - 1 - (page' - 1) * PageSize
      BY <2>3, <3>1, <3>2
    <3>4. PagesMissNothing'
      BY <3>1 DEF PagesMissNothing
    <3>5. watched' = 0
      BY <3>1, <3>2 DEF PagingInv
    <3> QED BY <2>1, <2>2, <3>1, <3>3, <3>4, <3>5 DEF PagingInv
  <2> QED BY <2>1, <2>2, <2>4, <2>5
<1> QED BY <1>1, <1>2

(* A scrape reads the table as it is, or exports 0.                        *)
LEMMA ScrapeKeepsCommandInv ==
  ASSUME QueueInv, CommandInv, UNCHANGED vars,
         Scrape \/ (\E s \in Outcomes : CountJobsByStatus(s)) \/ StopScraping
  PROVE  CommandInv'
<1> USE DEF CommandInv, vars, jobVars
<1>1. \A s \in Outcomes : Cardinality(JobsOf(s)) \in Nat /\ Cardinality(JobsOf(s)') \in Nat
  BY JobsCounted DEF JobsOf
<1>2. CASE Scrape \/ StopScraping
  <2>1. CountedInv'
    BY <1>1, <1>2 DEF Scrape, StopScraping, NoneCounted, CountedInv, JobsOf, Outcomes
  <2>2. WatchInv'
    BY <1>2 DEF Scrape, StopScraping, WatchInv, ShownIsFinal, Terminal
  <2> QED BY <1>2, <2>1, <2>2 DEF Scrape, StopScraping, NoneCounted, CommandTypes, PagingInv,
                                  PagesMissNothing
<1>3. ASSUME NEW s \in Outcomes, CountJobsByStatus(s) PROVE CommandInv'
  <2>1. PICK n \in {0, Cardinality(JobsOf(s))} : counted' = [counted EXCEPT ![s] = n]
    BY <1>3 DEF CountJobsByStatus, JobsOf
  <2>2. n \in Nat /\ n <= Cardinality(JobsOf(s))
    BY <1>1, <2>1
  <2>3. CountedInv'
    BY <1>3, <2>1, <2>2 DEF CountJobsByStatus, CountedInv, CommandTypes, JobsOf, Outcomes
  <2>4. CommandTypes'
    BY <1>3, <2>1, <2>2 DEF CountJobsByStatus, CommandTypes, Outcomes
  <2> QED BY <1>3, <2>3, <2>4 DEF CountJobsByStatus, WatchInv, ShownIsFinal, Terminal, PagingInv,
                                  PagesMissNothing
<1> QED BY <1>2, <1>3

LEMMA CommandNext == QueueInv /\ CommandInv /\ [OperatorNext]_allVars => CommandInv'
<1> SUFFICES ASSUME QueueInv, CommandInv, [OperatorNext]_allVars PROVE CommandInv'
  OBVIOUS
<1>1. CASE Next /\ UNCHANGED commandVars
  BY <1>1, QueueKeepsCommandInv
<1>2. CASE Command /\ UNCHANGED vars
  BY <1>2, WatchKeepsCommandInv, PageKeepsCommandInv, ScrapeKeepsCommandInv DEF Command, Outcomes
<1>3. CASE UNCHANGED allVars
  BY <1>3, QueueKeepsCommandInv DEF allVars
<1> QED BY <1>1, <1>2, <1>3 DEF OperatorNext

(* CommandInv is an invariant of the queue with those who look on.         *)
THEOREM CommandInvariant == OperatorSpec => [](QueueInv /\ CommandInv)
<1>1. OperatorInit => QueueInv
  BY QueueInit DEF OperatorInit
<1> QED BY <1>1, CommandInit, CommandNext, QueueInvKept, PTL DEF OperatorSpec

-----------------------------------------------------------------------------
(* What job watch printed stays true: nobody runs the job again, and while *)
(* heartbeats come in time nobody rewrites its outcome.                    *)
THEOREM ShownStaysFinal == OperatorSpec => []ShownIsFinal
<1>1. CommandInv => ShownIsFinal
  BY DEF CommandInv, WatchInv, ShownIsFinal
<1> QED BY CommandInvariant, <1>1, PTL

(* A client that pages to the end has seen every job that was there when   *)
(* it began, whatever the page size and however many jobs come meanwhile.  *)
THEOREM PagingIsComplete == OperatorSpec => []PagesMissNothing
<1>1. CommandInv => PagesMissNothing
  BY DEF CommandInv, PagingInv
<1> QED BY CommandInvariant, <1>1, PTL

(* While heartbeats come in time what /metrics calls a counter is one.     *)
THEOREM CountersAreCounters == OperatorSpec => CountersOnlyGrow
<1>1. QueueInv /\ CommandInv /\ [OperatorNext]_allVars
        => [~SlowExecution => \A s \in Outcomes : counted'[s] >= counted[s] \/ counted'[s] = 0]_allVars
  <2> SUFFICES ASSUME QueueInv, CommandInv, OperatorNext, ~SlowExecution, NEW s \in Outcomes
               PROVE  counted'[s] >= counted[s] \/ counted'[s] = 0
    OBVIOUS
  <2>1. counted[s] \in Nat /\ counted[s] <= Cardinality(JobsOf(s)) /\ Cardinality(JobsOf(s)) \in Nat
    BY JobsCounted DEF CommandInv, CommandTypes, CountedInv, JobsOf, Outcomes
  <2>2. CASE \E z \in Outcomes : CountJobsByStatus(z)
    BY <2>1, <2>2 DEF CountJobsByStatus, CommandInv, CommandTypes, JobsOf, Outcomes
  <2>3. CASE counted' = counted \/ counted' = NoneCounted
    BY <2>1, <2>3 DEF NoneCounted, Outcomes
  <2>4. counted' = counted \/ counted' = NoneCounted \/ \E z \in Outcomes : CountJobsByStatus(z)
    BY DEF OperatorNext, commandVars, Command, Watch, GetDeploymentJob, FailRequest, Tick, PassDeadline,
           TakeDeadline, List, ListDeploymentJobs, Scrape, StopScraping, Outcomes
  <2> QED BY <2>2, <2>3, <2>4
<1> QED BY CommandInvariant, <1>1, PTL DEF OperatorSpec, CountersOnlyGrow, Outcomes

=============================================================================
