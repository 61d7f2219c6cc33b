------------------------------ MODULE JobQueue ------------------------------
(***************************************************************************)
(* The lifecycle job queue: the table deployment_jobs, the API handlers    *)
(* that enqueue into it (internal/api/server.go, handleLifecycleEnqueue)   *)
(* and the ultraworker processes that drain it (internal/jobs/executor.go, *)
(* ProcessOnce) through the statements of internal/store/postgres.         *)
(*                                                                         *)
(* Every SQL statement is one atomic step; a handler or a worker takes     *)
(* several of them and anything may happen in between.  What a job does    *)
(* to Docker is not here: a worker that holds a job is "executing" until   *)
(* it reports.                                                             *)
(***************************************************************************)
EXTENDS Integers

CONSTANTS
    Tenants, JobTypes,          \* what a lifecycle request names
    Keys,                       \* values of the Idempotency-Key header
    NoKey,                      \* a request without that header
    Handlers,                   \* requests the API can serve at the same time
    Workers,                    \* ultraworker processes
    NoRequest, NoHandler, NoWorker,
    MaxJobs,                    \* bound: rows that are ever inserted
    MaxFaults,                  \* bound: failures of the workers
    SlowExecution               \* may a live worker be silent for longer than
                                \* job_heartbeat_ttl while it runs a job?

Requests == [tenant : Tenants, type : JobTypes, key : Keys \cup {NoKey}]

ASSUME KeysAssumption == NoKey \notin Keys
ASSUME RequestsAssumption == NoRequest \notin Requests
ASSUME HandlersAssumption == NoHandler \notin Handlers
ASSUME WorkersAssumption == NoWorker \notin Workers
ASSUME BoundsAssumption == MaxJobs \in Nat /\ MaxFaults \in Nat
ASSUME SlowExecutionAssumption == SlowExecution \in BOOLEAN

(* Job rows in the order of scheduled_at; 0 names no row.                  *)
Jobs == 1 .. MaxJobs

VARIABLES
    status,    \* deployment_jobs.status, "none" for a row not inserted yet
    beat,      \* heartbeat_at: "null", within the TTL ("fresh"), older ("stale")
    owner,     \* worker_name
    attempts,  \* attempt_count
    req,       \* tenant_id, job_type and idempotency_key
    by,        \* history: the handler whose request inserted the row
    nextJob,   \* the next row to insert
    hpc, hreq, \* a handler's next statement and the request it serves
    resp,      \* the handler's last answer
    wpc, wjob, \* a worker's state and the row it holds
    faults     \* failures so far

jobVars == <<status, beat, owner, attempts, req, by, nextJob>>
handlerVars == <<hpc, hreq, resp>>
workerVars == <<wpc, wjob>>
vars == <<jobVars, handlerVars, workerVars, faults>>

-----------------------------------------------------------------------------
Terminal(j) == status[j] \in {"succeeded", "failed"}

(* Mutant: FindActiveJob overlooks running jobs.                           *)
PendingJobsOnly(t) == {j \in Jobs : status[j] = "pending" /\ req[j].tenant = t}

(* Rows FindActiveJob selects.                                             *)
ActiveJobs(t) == {j \in Jobs : status[j] \in {"pending", "running"} /\ req[j].tenant = t}

(* Mutant: the idempotency lookup forgets the job_type.                    *)
SameKeyAnyType(r) == {j \in Jobs : /\ status[j] # "none"
                                   /\ req[j].tenant = r.tenant
                                   /\ req[j].key = r.key}

(* Mutant: the idempotency lookup finds active jobs only.                  *)
SameKeyActive(r) == {j \in Jobs : /\ status[j] \in {"pending", "running"}
                                  /\ req[j].tenant = r.tenant
                                  /\ req[j].type = r.type
                                  /\ req[j].key = r.key}

(* Rows the idempotency lookup of EnqueueDeploymentJob selects.            *)
SameKeyJobs(r) == {j \in Jobs : /\ status[j] # "none"
                                /\ req[j].tenant = r.tenant
                                /\ req[j].type = r.type
                                /\ req[j].key = r.key}

Oldest(S) == {j \in S : \A k \in S : j <= k}
Latest(S) == {j \in S : \A k \in S : k <= j}

(* Mutant: running jobs are claimed whatever the age of their heartbeat.   *)
ClaimableAtAnyAge(j) == status[j] \in {"pending", "running"}

(* Mutant: abandoned jobs are never claimed again.                         *)
ClaimableWhenPending(j) == status[j] = "pending"

(* Rows the WHERE clause of ClaimNextPendingJob lets through.              *)
Claimable(j) ==
    \/ status[j] = "pending"
    \/ status[j] = "running" /\ beat[j] = "stale"

(* Mutant: the SELECT takes no row lock.                                   *)
NeverLocked(j) == FALSE

(* Row locks: FOR UPDATE holds the selected row until the claiming         *)
(* transaction ends; SKIP LOCKED passes over it, every other UPDATE waits. *)
Locked(j) == \E w \in Workers : wpc[w] = "claiming" /\ wjob[w] = j

(* Mutant: a locked row is selected all the same.                          *)
CandidatesUnlocked == {j \in Jobs : Claimable(j)}

Candidates == {j \in Jobs : Claimable(j) /\ ~Locked(j)}

(* ORDER BY pending first, then scheduled_at.                              *)
ClaimedBefore(i, j) ==
    IF status[i] = status[j] THEN i <= j ELSE status[i] = "pending"

Executing(w, j) == wpc[w] = "executing" /\ wjob[w] = j

Answer(kind, j) == [kind |-> kind, job |-> j]

Init ==
    /\ status = [j \in Jobs |-> "none"]
    /\ beat = [j \in Jobs |-> "null"]
    /\ owner = [j \in Jobs |-> NoWorker]
    /\ attempts = [j \in Jobs |-> 0]
    /\ req = [j \in Jobs |-> NoRequest]
    /\ by = [j \in Jobs |-> NoHandler]
    /\ nextJob = 1
    /\ hpc = [c \in Handlers |-> "idle"]
    /\ hreq = [c \in Handlers |-> NoRequest]
    /\ resp = [c \in Handlers |-> Answer("none", 0)]
    /\ wpc = [w \in Workers |-> "idle"]
    /\ wjob = [w \in Workers |-> 0]
    /\ faults = 0

-----------------------------------------------------------------------------
(* The API: handleLifecycleEnqueue.                                        *)

Respond(c, answer) ==
    /\ hpc' = [hpc EXCEPT ![c] = "idle"]
    /\ resp' = [resp EXCEPT ![c] = answer]

(* No such tenant, or a body that does not decode.                         *)
RejectRequest(c, r) ==
    /\ hpc[c] = "idle"
    /\ hreq' = [hreq EXCEPT ![c] = r]
    /\ Respond(c, Answer("rejected", 0))
    /\ UNCHANGED <<jobVars, workerVars, faults>>

(* FindActiveJob returns a row: 409 JOB_ALREADY_RUNNING.                   *)
RejectActive(c, r) ==
    /\ hpc[c] = "idle"
    /\ hreq' = [hreq EXCEPT ![c] = r]
    /\ \E j \in Oldest(ActiveJobs(r.tenant)) : Respond(c, Answer("conflict", j))
    /\ UNCHANGED <<jobVars, workerVars, faults>>

(* FindActiveJob returns no row: the request is let through.               *)
Admit(c, r) ==
    /\ hpc[c] = "idle"
    /\ ActiveJobs(r.tenant) = {}
    /\ hreq' = [hreq EXCEPT ![c] = r]
    /\ hpc' = [hpc EXCEPT ![c] = "admitted"]
    /\ UNCHANGED <<jobVars, resp, workerVars, faults>>

(* An admitted request ends without a row: the profile, image or instance  *)
(* it needs is missing, or a statement fails (the client went away).       *)
RejectAdmitted(c) ==
    /\ hpc[c] # "idle"
    /\ Respond(c, Answer("rejected", 0))
    /\ UNCHANGED <<jobVars, hreq, workerVars, faults>>

(* EnqueueDeploymentJob finds the key: the latest such job is the answer.  *)
ReturnExisting(c) ==
    /\ hpc[c] = "admitted"
    /\ hreq[c].key # NoKey
    /\ \E j \in Latest(SameKeyJobs(hreq[c])) : Respond(c, Answer("accepted", j))
    /\ UNCHANGED <<jobVars, hreq, workerVars, faults>>

(* EnqueueDeploymentJob does not find the key, or there is none to find.   *)
MissKey(c) ==
    /\ hpc[c] = "admitted"
    /\ hreq[c].key # NoKey => SameKeyJobs(hreq[c]) = {}
    /\ hpc' = [hpc EXCEPT ![c] = "inserting"]
    /\ UNCHANGED <<jobVars, hreq, resp, workerVars, faults>>

(* The INSERT.  Its answer is lost when the connection breaks after the    *)
(* row is committed: the client sees an error and the job runs all the     *)
(* same.                                                                   *)
InsertJob(c) ==
    /\ hpc[c] = "inserting"
    /\ nextJob \in Jobs
    /\ status' = [status EXCEPT ![nextJob] = "pending"]
    /\ req' = [req EXCEPT ![nextJob] = hreq[c]]
    /\ by' = [by EXCEPT ![nextJob] = c]
    /\ nextJob' = nextJob + 1
    /\ \E answer \in {Answer("accepted", nextJob), Answer("rejected", 0)} : Respond(c, answer)
    /\ UNCHANGED <<beat, owner, attempts, hreq, workerVars, faults>>

-----------------------------------------------------------------------------
(* The worker: ProcessOnce.                                                *)

(* BEGIN; SELECT ... FOR UPDATE SKIP LOCKED LIMIT 1.                       *)
SelectJobForUpdate(w) ==
    /\ wpc[w] = "idle"
    /\ \E j \in Candidates :
          /\ \A k \in Candidates : ClaimedBefore(j, k)
          /\ wjob' = [wjob EXCEPT ![w] = j]
    /\ wpc' = [wpc EXCEPT ![w] = "claiming"]
    /\ UNCHANGED <<jobVars, handlerVars, faults>>

(* Mutant: attempt_count grows with every claim.                           *)
TakeRowCountingReclaims(w, j) ==
    /\ status' = [status EXCEPT ![j] = "running"]
    /\ owner' = [owner EXCEPT ![j] = w]
    /\ attempts' = [attempts EXCEPT ![j] = @ + 1]
    /\ beat' = [beat EXCEPT ![j] = "fresh"]
    /\ UNCHANGED <<req, by, nextJob>>

(* Mutant: heartbeat_at is left to the first UpdateJobHeartbeat.           *)
TakeRowWithoutBeat(w, j) ==
    /\ status' = [status EXCEPT ![j] = "running"]
    /\ owner' = [owner EXCEPT ![j] = w]
    /\ attempts' = [attempts EXCEPT ![j] = IF status[j] = "pending" THEN @ + 1 ELSE @]
    /\ UNCHANGED <<beat, req, by, nextJob>>

(* The UPDATE of a claimed row.                                            *)
TakeRow(w, j) ==
    /\ status' = [status EXCEPT ![j] = "running"]
    /\ owner' = [owner EXCEPT ![j] = w]
    /\ attempts' = [attempts EXCEPT ![j] = IF status[j] = "pending" THEN @ + 1 ELSE @]
    /\ beat' = [beat EXCEPT ![j] = "fresh"]
    /\ UNCHANGED <<req, by, nextJob>>

(* UPDATE; COMMIT; the worker starts to execute the job.                   *)
CommitClaim(w) ==
    /\ wpc[w] = "claiming"
    /\ TakeRow(w, wjob[w])
    /\ wpc' = [wpc EXCEPT ![w] = "executing"]
    /\ UNCHANGED <<wjob, handlerVars, faults>>

LetGo(w, pc) ==
    /\ wpc' = [wpc EXCEPT ![w] = pc]
    /\ wjob' = [wjob EXCEPT ![w] = 0]

Fault == faults < MaxFaults /\ faults' = faults + 1

(* The UPDATE or the COMMIT fails and the deferred Rollback undoes it, or  *)
(* the COMMIT takes effect and its answer is lost: then the row is running *)
(* and nobody runs it.                                                     *)
FailClaim(w) ==
    /\ Fault
    /\ wpc[w] = "claiming"
    /\ TakeRow(w, wjob[w]) \/ UNCHANGED jobVars
    /\ LetGo(w, "idle")
    /\ UNCHANGED handlerVars

(* UpdateJobHeartbeat, at any of the points of execute that call it; its   *)
(* errors are ignored.  It does not look at status or worker_name.         *)
UpdateJobHeartbeat(w) ==
    /\ wpc[w] = "executing"
    /\ ~Locked(wjob[w])
    /\ beat' = [beat EXCEPT ![wjob[w]] = "fresh"]
    /\ UNCHANGED <<status, owner, attempts, req, by, nextJob, handlerVars, workerVars, faults>>

(* MarkJobSucceeded and MarkJobFailed: WHERE id = $1 and nothing else.     *)
MarkJob(w, outcome) ==
    /\ wpc[w] = "executing"
    /\ ~Locked(wjob[w])
    /\ status' = [status EXCEPT ![wjob[w]] = outcome]
    /\ beat' = [beat EXCEPT ![wjob[w]] = "null"]
    /\ owner' = [owner EXCEPT ![wjob[w]] = NoWorker]
    /\ LetGo(w, "idle")
    /\ UNCHANGED <<attempts, req, by, nextJob, handlerVars, faults>>

(* The statement that reports the outcome fails; ProcessOnce returns and   *)
(* the row stays as it is.                                                 *)
LoseOutcome(w) ==
    /\ Fault
    /\ wpc[w] = "executing"
    /\ LetGo(w, "idle")
    /\ UNCHANGED <<jobVars, handlerVars>>

(* The process dies; an open transaction is rolled back by the server.     *)
Crash(w) ==
    /\ Fault
    /\ wpc[w] # "down"
    /\ LetGo(w, "down")
    /\ UNCHANGED <<jobVars, handlerVars>>

(* The unit has Restart=on-failure.                                        *)
Restart(w) ==
    /\ wpc[w] = "down"
    /\ LetGo(w, "idle")
    /\ UNCHANGED <<jobVars, handlerVars, faults>>

-----------------------------------------------------------------------------
(* Time passes: the last heartbeat of a running job is now older than the  *)
(* TTL.  Unless SlowExecution, heartbeats of a live worker come in time.   *)
Expire(j) ==
    /\ status[j] = "running" /\ beat[j] = "fresh"
    /\ SlowExecution \/ \A w \in Workers : ~Executing(w, j)
    /\ beat' = [beat EXCEPT ![j] = "stale"]
    /\ UNCHANGED <<status, owner, attempts, req, by, nextJob, handlerVars, workerVars, faults>>

Finish(w) == \E outcome \in {"succeeded", "failed"} : MarkJob(w, outcome)

HandlerStep(c) ==
    \/ \E r \in Requests : RejectRequest(c, r) \/ RejectActive(c, r) \/ Admit(c, r)
    \/ RejectAdmitted(c)
    \/ ReturnExisting(c)
    \/ MissKey(c)
    \/ InsertJob(c)

WorkerStep(w) ==
    \/ SelectJobForUpdate(w)
    \/ CommitClaim(w)
    \/ FailClaim(w)
    \/ UpdateJobHeartbeat(w)
    \/ Finish(w)
    \/ LoseOutcome(w)
    \/ Crash(w)
    \/ Restart(w)

Next ==
    \/ \E c \in Handlers : HandlerStep(c)
    \/ \E w \in Workers : WorkerStep(w)
    \/ \E j \in Jobs : Expire(j)

Spec == Init /\ [][Next]_vars

-----------------------------------------------------------------------------
(* Properties.                                                             *)

(* Every variable has its type; attempt_count, which a reclaim does not    *)
(* increase, never passes 1.                                               *)
TypeOK ==
    /\ status \in [Jobs -> {"none", "pending", "running", "succeeded", "failed"}]
    /\ beat \in [Jobs -> {"null", "fresh", "stale"}]
    /\ owner \in [Jobs -> Workers \cup {NoWorker}]
    /\ attempts \in [Jobs -> 0 .. 1]
    /\ req \in [Jobs -> Requests \cup {NoRequest}]
    /\ by \in [Jobs -> Handlers \cup {NoHandler}]
    /\ nextJob \in 1 .. MaxJobs + 1
    /\ hpc \in [Handlers -> {"idle", "admitted", "inserting"}]
    /\ hreq \in [Handlers -> Requests \cup {NoRequest}]
    /\ resp \in [Handlers -> [kind : {"none", "rejected", "conflict", "accepted"},
                              job : 0 .. MaxJobs]]
    /\ wpc \in [Workers -> {"idle", "claiming", "executing", "down"}]
    /\ wjob \in [Workers -> 0 .. MaxJobs]
    /\ faults \in 0 .. MaxFaults

(* A running job has a heartbeat_at.  The claim query skips running rows   *)
(* whose heartbeat_at is NULL, so a job that broke this would stay running *)
(* for ever; late reports of other workers write NULL too.                 *)
RunningHasHeartbeat == \A j \in Jobs : status[j] = "running" => beat[j] # "null"

(* While heartbeats come in time, the row of a job that a live worker      *)
(* executes is running under that worker's name, and nobody else executes  *)
(* it.                                                                     *)
ExclusiveExecution ==
    \A w \in Workers, j \in Jobs : Executing(w, j) =>
        /\ status[j] = "running"
        /\ owner[j] = w
        /\ \A v \in Workers : Executing(v, j) => v = w

SameTenant(i, j) == req[i].tenant = req[j].tenant

BothActive(i, j) == {status[i], status[j]} \subseteq {"pending", "running"}

(* Several active jobs of one tenant come from as many concurrent          *)
(* requests: one handler never adds an active job to its own.              *)
DistinctAdmitters ==
    \A i, j \in Jobs : BothActive(i, j) /\ SameTenant(i, j) /\ by[i] = by[j] => i = j

(* One lifecycle job per tenant at a time: what the 409 of FindActiveJob   *)
(* is for.  The check and the INSERT are two statements.                   *)
AtMostOneActiveJob ==
    \A i, j \in Jobs : BothActive(i, j) /\ SameTenant(i, j) => i = j

SameTriple(r, s) == r.tenant = s.tenant /\ r.type = s.type /\ r.key = s.key

(* Jobs of one tenant, type and Idempotency-Key come from distinct         *)
(* handlers: a client that waits for its answer never makes two.           *)
KeyedDistinct ==
    \A i, j \in Jobs :
        /\ status[i] # "none" /\ status[j] # "none"
        /\ SameTriple(req[i], req[j]) /\ req[i].key # NoKey
        /\ by[i] = by[j]
        => i = j

(* A 202 names a job of the tenant, type and key of the request.           *)
AcceptedJobMatchesRequest ==
    \A c \in Handlers : hpc[c] = "idle" /\ resp[c].kind = "accepted" =>
        /\ status[resp[c].job] # "none"
        /\ SameTriple(req[resp[c].job], hreq[c])

(* A finished job is never pending or running again, however late the      *)
(* reports of the workers come: the claim holds its row lock from the      *)
(* check of the status to the UPDATE.                                      *)
NeverReopened == [][\A j \in Jobs : Terminal(j) => Terminal(j)']_vars

(* While heartbeats come in time, the outcome of a job is written once.    *)
OutcomeStable == [][\A j \in Jobs : Terminal(j) => status'[j] = status[j]]_vars

(* Only a stalled job is claimed again: no live worker executes it.        *)
OnlyStalledReclaimed ==
    [][\A j \in Jobs, w \in Workers :
          Executing(w, j)' /\ ~Executing(w, j) => \A v \in Workers : ~Executing(v, j)]_vars

(* The queue as JobLease sees it: the runner of a job is the live worker   *)
(* that executes it.                                                       *)
Outcome(j) == IF status[j] \in {"pending", "running"} THEN "undecided" ELSE status[j]

Runner(j) == IF \E w \in Workers : Executing(w, j)
             THEN CHOOSE w \in Workers : Executing(w, j)
             ELSE NoWorker

Lease == INSTANCE JobLease WITH
    outcome <- [j \in Jobs |-> Outcome(j)],
    runner <- [j \in Jobs |-> Runner(j)]

(* While heartbeats come in time, every step is a step of JobLease.        *)
ImplementsLease == Lease!Spec

-----------------------------------------------------------------------------
(* The inductive invariant behind the safety properties.                   *)

(* A row lock has one holder, and keeps the row as the claim query saw it. *)
LockInv ==
    /\ \A w, v \in Workers :
          wpc[w] = "claiming" /\ wpc[v] = "claiming" /\ wjob[w] = wjob[v] => w = v
    /\ \A w \in Workers : wpc[w] = "claiming" => wjob[w] \in Jobs /\ Claimable(wjob[w])

(* What is executed was claimed; rows are inserted in order; a job is      *)
(* counted as attempted when its first claim commits.                      *)
RowInv ==
    /\ \A w \in Workers : wpc[w] = "executing" =>
          wjob[w] \in Jobs /\ status[wjob[w]] \in {"running", "succeeded", "failed"}
    /\ \A j \in Jobs : status[j] = "none" <=> nextJob <= j
    /\ \A j \in Jobs : status[j] \in {"none", "pending"} => attempts[j] = 0

(* While heartbeats come in time, who executes a job holds its lease.      *)
LeaseInv ==
    ~SlowExecution => \A w \in Workers : wpc[w] = "executing" =>
        /\ status[wjob[w]] = "running"
        /\ beat[wjob[w]] = "fresh"
        /\ owner[wjob[w]] = w

QueueInv == TypeOK /\ LockInv /\ RowInv /\ RunningHasHeartbeat /\ LeaseInv

(* A request past FindActiveJob has no active job of its own handler at    *)
(* its tenant, and one past the idempotency lookup no job with its key.    *)
AdmissionInv ==
    /\ \A j \in Jobs : status[j] # "none" => req[j] \in Requests /\ by[j] \in Handlers
    /\ \A c \in Handlers : hpc[c] # "idle" => hreq[c] \in Requests
    /\ \A c \in Handlers, j \in Jobs :
          hpc[c] # "idle" /\ by[j] = c /\ req[j].tenant = hreq[c].tenant
             => status[j] \notin {"pending", "running"}
    /\ \A c \in Handlers, j \in Jobs :
          hpc[c] = "inserting" /\ by[j] = c /\ SameTriple(req[j], hreq[c])
             => status[j] = "none" \/ hreq[c].key = NoKey

(* An accepted request is answered with the row of a job.                  *)
AnswerInv == \A c \in Handlers : resp[c].kind = "accepted" => resp[c].job \in Jobs

EnqueueInv == AdmissionInv /\ AnswerInv /\ DistinctAdmitters /\ KeyedDistinct
                 /\ AcceptedJobMatchesRequest

=============================================================================
