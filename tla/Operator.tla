------------------------------ MODULE Operator ------------------------------
(***************************************************************************)
(* Those who look on beside JobQueue: openclawctl (internal/cli,           *)
(* internal/client) follows a job with "job watch", a client reads the     *)
(* table page by page through GET /api/v1/jobs, a monitor scrapes          *)
(* /metrics.  They only read, but in several requests, and what they read  *)
(* changes in between.                                                     *)
(*                                                                         *)
(* One of them is at work at a time.  Requests that enqueue are JobQueue's.*)
(***************************************************************************)
EXTENDS JobQueue, FiniteSets

CONSTANT PageSize       \* page_size

ASSUME PageSizeAssumption == PageSize \in 1 .. 100

VARIABLES
    cpc,          \* what the command is about to do; "exit" when it is over
    watched,      \* job watch: the job
    late,         \* job watch: --watch-timeout has passed
    page, listed, \* paging: the page that comes next, and what was shown
    since,        \* history: how many jobs there were when paging began
    counted,      \* scraping: the last openclaw_jobs_<status>_total
    exit,         \* exit status of the command
    shown         \* the status job watch printed, "none" if it printed none

commandVars == <<cpc, watched, late, page, listed, since, counted, exit, shown>>
allVars == <<vars, commandVars>>

NoneCounted == [succeeded |-> 0, failed |-> 0]

OperatorInit ==
    /\ Init
    /\ cpc = "exit" /\ watched = 0 /\ late = FALSE
    /\ page = 1 /\ listed = {} /\ since = 0 /\ counted = NoneCounted
    /\ exit = 0 /\ shown = "none"

-----------------------------------------------------------------------------
(* job watch.                                                              *)

(* The operator has the id of some job.                                    *)
Watch(j) ==
    /\ cpc = "exit" /\ status[j] # "none"
    /\ cpc' = "get" /\ watched' = j /\ late' = FALSE
    /\ page' = 1 /\ listed' = {} /\ since' = 0 /\ counted' = NoneCounted
    /\ exit' = 0 /\ shown' = "none"

Exit(code, status_) == cpc' = "exit" /\ exit' = code /\ shown' = status_

(* Mutant: everything but a pending job is final.                          *)
NotPending(s) == s # "pending"

(* What watch takes for the end of a job; no job is ever cancelled.        *)
Final(s) == s \in {"succeeded", "failed", "cancelled"}

(* Mutant: the deadline is made anew for every select.                     *)
GetDeploymentJobRearmed ==
    /\ cpc = "get"
    /\ IF Final(status[watched])
       THEN Exit(0, status[watched]) /\ UNCHANGED late
       ELSE cpc' = "select" /\ late' = FALSE /\ UNCHANGED <<exit, shown>>
    /\ UNCHANGED <<watched, page, listed, since, counted>>

(* GET /api/v1/jobs/{id}: a final status is printed and the command exits  *)
(* with 0, also for a job that failed.                                     *)
GetDeploymentJob ==
    /\ cpc = "get"
    /\ IF Final(status[watched])
       THEN Exit(0, status[watched])
       ELSE cpc' = "select" /\ UNCHANGED <<exit, shown>>
    /\ UNCHANGED <<watched, late, page, listed, since, counted>>

(* A request fails or takes longer than --timeout: that ends the command,  *)
(* with 1, or with 10 if the API answered INTERNAL_ERROR.                  *)
FailRequest ==
    /\ cpc \in {"get", "page"}
    /\ \E code \in {1, 10} : Exit(code, "none")
    /\ UNCHANGED <<watched, late, page, listed, since, counted>>

(* The ticker's channel is ready at some time in every select.             *)
Tick ==
    /\ cpc = "select"
    /\ cpc' = "get"
    /\ UNCHANGED <<watched, late, page, listed, since, counted, exit, shown>>

(* The deadline passes, whatever watch is doing ...                        *)
PassDeadline ==
    /\ cpc \in {"get", "select"} /\ ~late
    /\ late' = TRUE
    /\ UNCHANGED <<cpc, watched, page, listed, since, counted, exit, shown>>

(* ... and a select may take it; if a tick is there as well, Go chooses.   *)
TakeDeadline ==
    /\ cpc = "select" /\ late
    /\ Exit(1, "none")
    /\ UNCHANGED <<watched, late, page, listed, since, counted>>

-----------------------------------------------------------------------------
(* Paging.                                                                 *)

List ==
    /\ cpc = "exit"
    /\ cpc' = "page" /\ page' = 1 /\ listed' = {} /\ since' = nextJob - 1
    /\ watched' = 0 /\ late' = FALSE /\ counted' = NoneCounted
    /\ exit' = 0 /\ shown' = "none"

(* Mutant: OFFSET page * page_size.                                        *)
PageFromZero(k) == {j \in Jobs : nextJob - 1 - j \in k * PageSize .. (k + 1) * PageSize - 1}

(* ORDER BY scheduled_at DESC LIMIT page_size OFFSET (page - 1) * page_size *)
Page(k) == {j \in Jobs : nextJob - 1 - j \in (k - 1) * PageSize .. k * PageSize - 1}

(* A page that is not full is the last one.                                *)
ListDeploymentJobs ==
    /\ cpc = "page"
    /\ listed' = listed \cup Page(page)
    /\ IF Cardinality(Page(page)) < PageSize
       THEN Exit(0, "none") /\ UNCHANGED page
       ELSE page' = page + 1 /\ UNCHANGED <<cpc, exit, shown>>
    /\ UNCHANGED <<watched, late, since, counted>>

-----------------------------------------------------------------------------
(* GET /metrics, again and again.                                          *)

Scrape ==
    /\ cpc = "exit"
    /\ cpc' = "scrape" /\ counted' = NoneCounted
    /\ page' = 1 /\ listed' = {} /\ since' = 0
    /\ watched' = 0 /\ late' = FALSE /\ exit' = 0 /\ shown' = "none"

(* CountJobsByStatus; handleMetrics exports 0 when the statement fails.    *)
CountJobsByStatus(s) ==
    /\ cpc = "scrape"
    /\ \E n \in {0, Cardinality({j \in Jobs : status[j] = s})} :
          counted' = [counted EXCEPT ![s] = n]
    /\ UNCHANGED <<cpc, watched, late, page, listed, since, exit, shown>>

StopScraping ==
    /\ cpc = "scrape"
    /\ cpc' = "exit" /\ counted' = NoneCounted
    /\ UNCHANGED <<watched, late, page, listed, since, exit, shown>>

-----------------------------------------------------------------------------
Command ==
    \/ \E j \in Jobs : Watch(j)
    \/ GetDeploymentJob \/ FailRequest \/ Tick \/ PassDeadline \/ TakeDeadline
    \/ List \/ ListDeploymentJobs
    \/ Scrape \/ (\E s \in {"succeeded", "failed"} : CountJobsByStatus(s)) \/ StopScraping

OperatorNext ==
    \/ Next /\ UNCHANGED commandVars
    \/ Command /\ UNCHANGED vars

(* Requests return, with an answer or an error, tickers tick and the clock *)
(* advances.  A select that finds the deadline and a tick chooses between  *)
(* them at random: not for ever against the deadline.  Nothing is assumed  *)
(* of the workers.                                                         *)
CommandFairness ==
    /\ WF_allVars((GetDeploymentJob \/ FailRequest \/ ListDeploymentJobs) /\ UNCHANGED vars)
    /\ WF_allVars(Tick /\ UNCHANGED vars)
    /\ WF_allVars(PassDeadline /\ UNCHANGED vars)
    /\ SF_allVars(TakeDeadline /\ UNCHANGED vars)

OperatorSpec == OperatorInit /\ [][OperatorNext]_allVars /\ CommandFairness

-----------------------------------------------------------------------------
(* Properties.                                                             *)

(* What a watch printed stays true: the job is not run again, and while    *)
(* heartbeats come in time its status stays the one that was printed.      *)
ShownIsFinal ==
    shown # "none" => /\ Terminal(watched)
                      /\ ~SlowExecution => status[watched] = shown

(* A watch ends, with the job's outcome, an error or the timeout: also the *)
(* watch of a job that no worker ever takes.                               *)
WatchEnds == cpc \in {"get", "select"} ~> cpc = "exit"

(* What /metrics declares a counter only grows, or starts again from 0,    *)
(* while heartbeats come in time: nobody rewrites the outcome of a job.    *)
CountersOnlyGrow ==
    [][~SlowExecution => \A s \in {"succeeded", "failed"} :
          counted'[s] >= counted[s] \/ counted'[s] = 0]_allVars

(* Paging to the end misses no job that was there when it began, though    *)
(* new ones push the pages along.                                          *)
PagesMissNothing ==
    cpc = "exit" /\ watched = 0 /\ exit = 0 => 1 .. since \subseteq listed

-----------------------------------------------------------------------------
(* The inductive invariant behind the safety properties.                   *)

CommandTypes ==
    /\ cpc \in {"exit", "get", "select", "page", "scrape"}
    /\ watched \in 0 .. MaxJobs
    /\ page \in Nat \ {0}
    /\ since \in 0 .. MaxJobs
    /\ counted \in [{"succeeded", "failed"} -> Nat]

(* A watch asks for a job that exists, and prints what it read last.       *)
WatchInv ==
    /\ cpc \in {"get", "select"} => watched \in Jobs
    /\ shown # "none" => watched \in Jobs /\ ShownIsFinal

(* A job that was there before paging began is on the page to come or on   *)
(* one after it, unless it was shown: new jobs only push it back.          *)
PagingInv ==
    /\ cpc \in {"page", "scrape"} => watched = 0
    /\ cpc = "scrape" => since = 0
    /\ cpc = "page" => \A j \in 1 .. since : j \in listed \/ j <= nextJob - 1 - (page - 1) * PageSize
    /\ PagesMissNothing

(* No counter is ahead of the table while outcomes are not rewritten.      *)
CountedInv ==
    ~SlowExecution => \A s \in {"succeeded", "failed"} :
        counted[s] <= Cardinality({j \in Jobs : status[j] = s})

CommandInv == CommandTypes /\ WatchInv /\ PagingInv /\ CountedInv

=============================================================================
