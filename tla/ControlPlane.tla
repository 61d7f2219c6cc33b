---------------------------- MODULE ControlPlane ----------------------------
(***************************************************************************)
(* JobQueue and Executor at work together: ultraworker's ProcessOnce       *)
(* claims a row of deployment_jobs, executes the job it names against      *)
(* Docker and the instance tables, and reports to the row.  A step of the  *)
(* composition is a step of the queue, of an execution, or of both.        *)
(*                                                                         *)
(* Executor takes from the queue only that a tenant has one active job and *)
(* one worker executes it.  Here that is not assumed: workers start on     *)
(* whatever they claimed, and when the heartbeats of live workers may be   *)
(* late ("slow", JobQueue's SlowExecution), executions overlap.            *)
(***************************************************************************)
EXTENDS Integers, Sequences

CONSTANTS
    Tenants,
    Kinds,                       \* jobs clients ask for: some of E!JobSet
    NoKey, Handlers, Workers, NoRequest, NoHandler, NoWorker,
    Names, ContainerName, NoTenant,
    MaxJobs, MaxFaults,          \* bounds: rows; failures and exits of any kind
    MaxSlow                      \* bound: rows, and failures, when slow

VARIABLES
    status, beat, owner, attempts, req, by, nextJob,   \* JobQueue's
    hpc, hreq, resp, wpc, wjob, lapses,
    rows, tstatus, docker, nextId, volume, releases, link,   \* Executor's
    last, pc, on, job, cur, new, ver, got, faults, exits,
    slow       \* how job_heartbeat_ttl is configured

queueVars == <<status, beat, owner, attempts, req, by, nextJob,
               hpc, hreq, resp, wpc, wjob, lapses>>
hostVars == <<docker, nextId, volume, releases, link>>
executorVars == <<rows, tstatus, hostVars, last, pc, on, job, cur, new, ver, got, faults, exits>>
work == <<queueVars, executorVars>>
vars == <<work, slow>>

Q == INSTANCE JobQueue WITH JobTypes <- Kinds, Keys <- {},
                            SlowExecution <- TRUE, faults <- lapses

(* The active job of a tenant, as the rows of the queue have it.           *)
ActiveJob(t) ==
    IF Q!ActiveJobs(t) = {} THEN [type |-> "none", wipe |-> {}]
                            ELSE req[CHOOSE j \in Q!ActiveJobs(t) : TRUE].type

E == INSTANCE Executor WITH active <- [t \in Tenants |-> ActiveJob(t)],
                            jobs <- nextJob - 1, MaxExits <- MaxFaults

ASSUME KindsAssumption == Kinds \subseteq E!JobSet
ASSUME NamesAssumption == ContainerName \in [Tenants -> Names]
ASSUME NobodyAssumption ==
    /\ NoTenant \notin Tenants /\ NoHandler \notin Handlers /\ NoWorker \notin Workers
    /\ NoRequest \notin Q!Requests
ASSUME BoundsAssumption == {MaxJobs, MaxFaults, MaxSlow} \subseteq Nat

Init ==
    /\ Q!Init
    /\ E!Init
    /\ slow \in BOOLEAN

-----------------------------------------------------------------------------
(* Mutant: an instance is not asked for.                                   *)
AdmitAnything(r) == TRUE

(* What handleLifecycleEnqueue wants to see between FindActiveJob and the  *)
(* INSERT: all but a deploy need an instance.                              *)
HasInstance(r) == r.type.type = "deploy" \/ rows[r.tenant] # <<>>

(* handleLifecycleEnqueue.                                                 *)
Request(c) ==
    /\ Q!HandlerStep(c)
    /\ hpc'[c] = "inserting" => HasInstance(hreq[c])
    /\ hpc'[c] = "admitted" /\ slow => nextJob <= MaxSlow
    /\ UNCHANGED executorVars

(* The queue's side of a worker that executes nothing.                     *)
Poll(w) ==
    /\ Q!SelectJobForUpdate(w) \/ Q!FailClaim(w) \/ Q!Restart(w)
    /\ UNCHANGED executorVars

(* The claim commits, and execute is called with the row.                  *)
Claim(w) ==
    /\ Q!CommitClaim(w)
    /\ E!Start(w, req[wjob[w]].tenant, req[wjob[w]].type)
    /\ UNCHANGED <<rows, tstatus, hostVars, last, faults, exits>>

(* The heartbeats of execute and of the handlers: at the start, after the  *)
(* instance row, and at the end.                                           *)
Heartbeat(w) ==
    /\ pc[w] \in {"read", "stop_old", "volumes", "done"}
    /\ Q!UpdateJobHeartbeat(w)
    /\ UNCHANGED executorVars

(* A step of the handler.                                                  *)
Run(w) ==
    /\ pc[w] # "idle"
    /\ UNCHANGED queueVars
    /\ E!Work(w)

Break(w) == UNCHANGED queueVars /\ E!Fail(w)

(* The handler returned: its error, or that there was none, is reported.   *)
Report(w) ==
    LET ok == pc[w] = "done" IN
    /\ pc[w] \in {"done", "failed"}
    /\ Q!MarkJob(w, IF ok THEN "succeeded" ELSE "failed")
    /\ E!Remember(w, ok)
    /\ E!Leave(w)
    /\ UNCHANGED <<rows, tstatus, hostVars, faults, exits>>

(* The worker dies at any point, or cannot report.                         *)
Die(w) ==
    /\ Q!Crash(w) \/ (pc[w] \in {"done", "failed"} /\ Q!LoseOutcome(w))
    /\ IF pc[w] = "idle" THEN UNCHANGED executorVars ELSE E!Crash(w)

(* The heartbeat of a row gets older than the TTL.                         *)
Age(j) ==
    /\ slow \/ \A w \in Workers : ~Q!Executing(w, j)
    /\ Q!Expire(j)
    /\ UNCHANGED executorVars

Exit(n) == UNCHANGED queueVars /\ E!ContainerExits(n)

Next ==
    /\ \/ \E c \in Handlers : Request(c)
       \/ \E w \in Workers : \/ Poll(w) \/ Claim(w) \/ Heartbeat(w)
                             \/ Run(w) \/ Break(w) \/ Report(w) \/ Die(w)
       \/ \E j \in Q!Jobs : Age(j)
       \/ \E n \in Names : Exit(n)
    /\ (lapses + faults + exits)' <= (IF slow THEN MaxSlow ELSE MaxFaults)
    /\ UNCHANGED slow

Spec == Init /\ [][Next]_vars

(* What JobQueue assumes of its workers is here shown, except for what     *)
(* each statement and command does by itself: it returns.                  *)
Fairness ==
    /\ \A w \in Workers : /\ WF_work(Q!SelectJobForUpdate(w) /\ UNCHANGED executorVars)
                          /\ WF_work(Claim(w))
                          /\ WF_work(Run(w) \/ Report(w))
                          /\ WF_work(Q!Restart(w) /\ UNCHANGED executorVars)
    /\ \A j \in Q!Jobs : WF_work(Age(j))

FairSpec == Spec /\ Fairness

-----------------------------------------------------------------------------
(* Properties.                                                             *)

(* While heartbeats come in time and one request is served at a time, the  *)
(* composition implements Executor: the queue gives every tenant one job   *)
(* and every job one worker, so that what is checked of Executor holds of  *)
(* the program.  (It is E!Spec, for behaviours that are not slow.)         *)
ImplementsExecutor ==
    /\ slow \/ E!Init
    /\ [][slow \/ E!Next]_(E!vars)

(* Every job that is enqueued is finished in the end, also when executions *)
(* overlap: every handler reaches its last statement.                      *)
JobsSettle == \A j \in Q!Jobs : status[j] = "pending" ~> Q!Terminal(j)

(* Whoever overlaps with whom, an instance row has a release that was      *)
(* rendered, and the link "current" leads to one or is missing.            *)
RowsAreRendered ==
    \A t \in Tenants : /\ \A i \in DOMAIN rows[t] : rows[t][i].version \in releases[t]
                       /\ link[t] \in releases[t] \cup {0}

-----------------------------------------------------------------------------
(* The inductive invariants behind RowsAreRendered and ImplementsExecutor, *)
(* beside the invariant of JobQueue.                                       *)

(* A worker at work knows its tenant, and from the moment a deploy has     *)
(* rendered its version until it inserts the row, the release is there.    *)
RenderInv ==
    /\ E!TypeOK
    /\ \A w \in Workers : pc[w] # "idle" => on[w] \in Tenants /\ job[w] \in E!JobSet
    /\ \A w \in Workers : pc[w] \in {"render", "unlink", "link", "insert"} => ver[w] # 0
    /\ \A w \in Workers : pc[w] \in {"unlink", "link", "insert"} => ver[w] \in releases[on[w]]
    /\ RowsAreRendered

(* A worker at work holds the row of its job, and unless slow its lease.   *)
Holds(w) ==
    /\ wpc[w] = "executing"
    /\ req[wjob[w]].tenant = on[w] /\ req[wjob[w]].type = job[w]
    /\ ~slow => status[wjob[w]] = "running" /\ beat[wjob[w]] = "fresh" /\ owner[wjob[w]] = w

(* A worker that executes a job of the queue is at work on it; a request   *)
(* about to insert a job that needs an instance has seen one.              *)
HoldInv ==
    /\ \A w \in Workers : IF pc[w] = "idle" THEN wpc[w] # "executing" /\ on[w] = NoTenant
                                           ELSE Holds(w)
    /\ \A c \in Handlers : hpc[c] = "inserting" => HasInstance(hreq[c])

=============================================================================
