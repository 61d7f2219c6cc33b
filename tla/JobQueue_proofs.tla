--------------------------- MODULE JobQueue_proofs ---------------------------
(***************************************************************************)
(* Proofs about JobQueue, for every number of tenants, handlers, workers,  *)
(* jobs and failures, and for both values of SlowExecution.                *)
(***************************************************************************)
EXTENDS JobQueue, TLAPS

USE BoundsAssumption DEF Jobs

-----------------------------------------------------------------------------
(* Type correctness together with the invariant of rows and locks.         *)

(* No row, request or lock at first.                                       *)
LEMMA QueueInit == Init => QueueInv
  BY DEF Init, QueueInv, TypeOK, LockInv, RowInv, RunningHasHeartbeat, LeaseInv, Answer

(* What the row and lock invariants say survives a step that changes       *)
(* neither rows nor workers.                                               *)
LEMMA QueueInvFrame ==
  ASSUME QueueInv, TypeOK', UNCHANGED <<jobVars, workerVars>>
  PROVE  QueueInv'
  BY DEF QueueInv, LockInv, RowInv, RunningHasHeartbeat, LeaseInv, Claimable, jobVars, workerVars

(* The INSERT adds a pending row after all others.                         *)
LEMMA InsertKeepsQueueInv ==
  ASSUME QueueInv, NEW c \in Handlers, InsertJob(c)
  PROVE  QueueInv'
<1> USE DEF QueueInv, InsertJob, Respond, jobVars, handlerVars, workerVars
<1>1. TypeOK'
  BY DEF TypeOK, Answer
<1>2. LockInv'
  BY DEF TypeOK, LockInv, RowInv, Claimable
<1>3. RowInv'
  BY DEF TypeOK, RowInv
<1>4. RunningHasHeartbeat' /\ LeaseInv'
  BY DEF TypeOK, RunningHasHeartbeat, LeaseInv, RowInv
<1> QED BY <1>1, <1>2, <1>3, <1>4

(* An answer leaves the handler's variables well typed.                    *)
LEMMA RespondType ==
  ASSUME TypeOK, NEW c \in Handlers, NEW j \in 0 .. MaxJobs,
         NEW kind \in {"none", "rejected", "conflict", "accepted"}, Respond(c, Answer(kind, j))
  PROVE  /\ hpc' \in [Handlers -> {"idle", "admitted", "inserting"}]
         /\ resp' \in [Handlers -> [kind : {"none", "rejected", "conflict", "accepted"},
                                    job : 0 .. MaxJobs]]
<1>1. Answer(kind, j) \in [kind : {"none", "rejected", "conflict", "accepted"}, job : 0 .. MaxJobs]
  BY DEF Answer
<1> QED BY <1>1 DEF TypeOK, Respond

(* Steps of the API leave the workers alone.                               *)
LEMMA HandlerStepEffect ==
  ASSUME NEW c \in Handlers, HandlerStep(c)
  PROVE  UNCHANGED workerVars
  BY DEF HandlerStep, RejectRequest, RejectActive, Admit, RejectAdmitted, ReturnExisting,
         MissKey, InsertJob

(* Steps of the API keep QueueInv.                                         *)
LEMMA HandlerKeepsQueueInv ==
  ASSUME QueueInv, NEW c \in Handlers, HandlerStep(c)
  PROVE  QueueInv'
<1>1. ASSUME NEW r \in Requests, RejectRequest(c, r) \/ RejectActive(c, r) \/ Admit(c, r)
      PROVE  QueueInv'
  <2>1. /\ hpc' \in [Handlers -> {"idle", "admitted", "inserting"}]
        /\ resp' \in [Handlers -> [kind : {"none", "rejected", "conflict", "accepted"},
                                   job : 0 .. MaxJobs]]
    <3>1. CASE RejectRequest(c, r)
      BY <3>1, RespondType DEF QueueInv, RejectRequest
    <3>2. CASE RejectActive(c, r)
      <4>1. PICK j \in Jobs : Respond(c, Answer("conflict", j))
        BY <3>2 DEF RejectActive, Oldest, ActiveJobs
      <4> QED BY <4>1, RespondType DEF QueueInv
    <3>3. CASE Admit(c, r)
      BY <3>3 DEF Admit, QueueInv, TypeOK
    <3> QED BY <1>1, <3>1, <3>2, <3>3
  <2>2. hreq' = [hreq EXCEPT ![c] = r] /\ UNCHANGED <<jobVars, workerVars, faults>>
    BY <1>1 DEF RejectRequest, RejectActive, Admit
  <2>3. TypeOK'
    BY <2>1, <2>2 DEF QueueInv, TypeOK, jobVars, workerVars
  <2> QED
    BY <2>2, <2>3, QueueInvFrame
<1>2. CASE RejectAdmitted(c) \/ ReturnExisting(c) \/ MissKey(c)
  <2>1. /\ hpc' \in [Handlers -> {"idle", "admitted", "inserting"}]
        /\ resp' \in [Handlers -> [kind : {"none", "rejected", "conflict", "accepted"},
                                   job : 0 .. MaxJobs]]
    <3>1. CASE RejectAdmitted(c)
      BY <3>1, RespondType DEF QueueInv, RejectAdmitted
    <3>2. CASE ReturnExisting(c)
      <4>1. PICK j \in Jobs : Respond(c, Answer("accepted", j))
        BY <3>2 DEF ReturnExisting, Latest, SameKeyJobs
      <4> QED BY <4>1, RespondType DEF QueueInv
    <3>3. CASE MissKey(c)
      BY <3>3 DEF MissKey, QueueInv, TypeOK
    <3> QED BY <1>2, <3>1, <3>2, <3>3
  <2>2. UNCHANGED <<jobVars, hreq, workerVars, faults>>
    BY <1>2 DEF RejectAdmitted, ReturnExisting, MissKey
  <2>3. TypeOK'
    BY <2>1, <2>2 DEF QueueInv, TypeOK, jobVars, workerVars
  <2> QED
    BY <2>2, <2>3, QueueInvFrame
<1>3. CASE InsertJob(c)
  BY <1>3, InsertKeepsQueueInv
<1> QED BY <1>1, <1>2, <1>3 DEF HandlerStep

(* The claim: the SELECT takes a free lock, the UPDATE finds the row as    *)
(* the SELECT left it.                                                     *)
LEMMA SelectKeepsQueueInv ==
  ASSUME QueueInv, NEW w \in Workers, SelectJobForUpdate(w)
  PROVE  QueueInv'
<1> USE DEF QueueInv, SelectJobForUpdate, jobVars, handlerVars
<1>1. PICK j \in Candidates : wjob' = [wjob EXCEPT ![w] = j]
  OBVIOUS
<1>2. j \in Jobs /\ Claimable(j) /\ ~Locked(j)
  BY DEF Candidates
<1>3. TypeOK'
  BY <1>1, <1>2 DEF TypeOK
<1>4. LockInv'
  BY <1>1, <1>2 DEF TypeOK, LockInv, Claimable, Locked
<1>5. RowInv' /\ RunningHasHeartbeat' /\ LeaseInv'
  BY <1>1 DEF TypeOK, RowInv, RunningHasHeartbeat, LeaseInv
<1> QED BY <1>3, <1>4, <1>5

(* The claim, whether its COMMIT is answered or not.                       *)
LEMMA ClaimKeepsQueueInv ==
  ASSUME QueueInv, NEW w \in Workers, CommitClaim(w) \/ FailClaim(w)
  PROVE  QueueInv'
<1> DEFINE j == wjob[w]
<1>1. wpc[w] = "claiming" /\ j \in Jobs /\ Claimable(j)
  BY DEF QueueInv, LockInv, CommitClaim, FailClaim
<1>2. /\ wpc' \in [Workers -> {"idle", "claiming", "executing", "down"}]
      /\ wjob' \in [Workers -> 0 .. MaxJobs]
      /\ faults' \in 0 .. MaxFaults
      /\ UNCHANGED handlerVars
      /\ \A v \in Workers \ {w} : wpc'[v] = wpc[v] /\ wjob'[v] = wjob[v]
      /\ wpc'[w] # "claiming"
      /\ wpc'[w] = "executing" => wjob'[w] = j /\ TakeRow(w, j)
  <2>1. CASE CommitClaim(w)
    BY <2>1 DEF QueueInv, TypeOK, CommitClaim
  <2>2. CASE FailClaim(w)
    BY <2>2 DEF QueueInv, TypeOK, FailClaim, Fault, LetGo
  <2> QED BY <2>1, <2>2
<1>3. CASE UNCHANGED jobVars /\ wpc'[w] # "executing"
  <2>1. TypeOK'
    BY <1>2, <1>3 DEF QueueInv, TypeOK, jobVars, handlerVars
  <2>2. LockInv'
    BY <1>2, <1>3 DEF QueueInv, LockInv, Claimable, jobVars
  <2>3. RowInv' /\ RunningHasHeartbeat' /\ LeaseInv'
    BY <1>2, <1>3 DEF QueueInv, RowInv, RunningHasHeartbeat, LeaseInv, jobVars
  <2> QED BY <2>1, <2>2, <2>3 DEF QueueInv
<1>4. CASE TakeRow(w, j)
  <2>1. status[j] \in {"pending", "running"}
    BY <1>1 DEF Claimable
  <2>2. \A v \in Workers : wpc'[v] = "claiming" => wjob'[v] # j
    BY <1>1, <1>2 DEF QueueInv, LockInv
  <2>3. TypeOK'
    BY <1>1, <1>2, <1>4, <2>1 DEF QueueInv, TypeOK, RowInv, TakeRow, handlerVars
  <2> DEFINE Same(k) == UNCHANGED <<status[k], beat[k], attempts[k]>>
  <2>4. /\ \A k \in Jobs \ {j} : Same(k)
        /\ status'[j] = "running" /\ nextJob' = nextJob
    BY <1>1, <1>4 DEF QueueInv, TypeOK, TakeRow
  <2>5. LockInv'
    <3>1. \A v \in Workers : wpc'[v] = "claiming" =>
             wpc[v] = "claiming" /\ wjob'[v] = wjob[v] /\ wjob[v] \in Jobs \ {j}
      BY <1>2, <2>2 DEF QueueInv, LockInv
    <3> QED BY <2>4, <3>1 DEF QueueInv, LockInv, Claimable
  <2>6. RowInv'
    <3>1. \A v \in Workers : wpc'[v] = "executing" =>
             wjob'[v] \in Jobs /\ status'[wjob'[v]] \in {"running", "succeeded", "failed"}
      BY <1>1, <1>2, <2>4 DEF QueueInv, RowInv
    <3>2. \A k \in Jobs : status'[k] = "none" <=> nextJob' <= k
      BY <2>1, <2>4 DEF QueueInv, RowInv
    <3>3. \A k \in Jobs : status'[k] \in {"none", "pending"} => attempts'[k] = 0
      BY <2>4 DEF QueueInv, RowInv
    <3> QED BY <3>1, <3>2, <3>3 DEF RowInv
  <2>7. RunningHasHeartbeat'
    BY <1>4 DEF QueueInv, TypeOK, RunningHasHeartbeat, TakeRow
  <2>8. LeaseInv'
    BY <1>1, <1>2, <1>4 DEF QueueInv, TypeOK, RowInv, LeaseInv, TakeRow, Claimable
  <2> QED BY <2>3, <2>5, <2>6, <2>7, <2>8 DEF QueueInv
<1> QED BY <1>2, <1>3, <1>4 DEF CommitClaim, FailClaim

(* Reports of an executing worker: none of them touches a locked row.      *)
LEMMA ReportKeepsQueueInv ==
  ASSUME QueueInv, NEW w \in Workers, UpdateJobHeartbeat(w) \/ Finish(w)
  PROVE  QueueInv'
<1> DEFINE j == wjob[w]
<1>1. /\ wpc[w] = "executing" /\ ~Locked(j)
      /\ j \in Jobs /\ status[j] \in {"running", "succeeded", "failed"}
  BY DEF QueueInv, RowInv, UpdateJobHeartbeat, Finish, MarkJob
<1>2. \A v \in Workers : wpc[v] = "claiming" => wjob[v] # j
  BY <1>1 DEF Locked
<1>3. CASE UpdateJobHeartbeat(w)
  <2> USE DEF UpdateJobHeartbeat, QueueInv, TypeOK, handlerVars, workerVars
  <2>1. TypeOK' /\ RowInv' /\ RunningHasHeartbeat'
    BY <1>1, <1>3 DEF RowInv, RunningHasHeartbeat
  <2>2. LockInv'
    BY <1>1, <1>2, <1>3 DEF LockInv, Claimable
  <2>3. LeaseInv'
    BY <1>1, <1>3 DEF LeaseInv, RowInv
  <2> QED BY <2>1, <2>2, <2>3
<1>4. ASSUME NEW o \in {"succeeded", "failed"}, MarkJob(w, o)
      PROVE  QueueInv'
  <2> USE DEF MarkJob, LetGo, QueueInv, TypeOK, handlerVars
  <2>1. TypeOK' /\ RowInv' /\ RunningHasHeartbeat'
    BY <1>1, <1>4 DEF RowInv, RunningHasHeartbeat
  <2>2. LockInv'
    BY <1>1, <1>2, <1>4 DEF LockInv, Claimable
  <2>3. LeaseInv'
    BY <1>1, <1>4 DEF LeaseInv, RowInv
  <2> QED BY <2>1, <2>2, <2>3
<1> QED BY <1>3, <1>4 DEF Finish

(* A worker that lets go of its job, dies or is restarted.                 *)
LEMMA LeaveKeepsQueueInv ==
  ASSUME QueueInv, NEW w \in Workers, LoseOutcome(w) \/ Crash(w) \/ Restart(w)
  PROVE  QueueInv'
<1>1. /\ UNCHANGED <<jobVars, handlerVars>>
      /\ \E pc \in {"idle", "down"} : LetGo(w, pc)
  BY DEF LoseOutcome, Crash, Restart
<1>2. faults' \in 0 .. MaxFaults
  BY DEF QueueInv, TypeOK, LoseOutcome, Crash, Restart, Fault
<1>3. TypeOK'
  BY <1>1, <1>2 DEF QueueInv, TypeOK, LetGo, jobVars, handlerVars
<1>4. \A v \in Workers : wpc'[v] \in {"claiming", "executing"} =>
         wpc'[v] = wpc[v] /\ wjob'[v] = wjob[v]
  BY <1>1 DEF QueueInv, TypeOK, LetGo
<1>5. LockInv'
  BY <1>1, <1>4 DEF QueueInv, LockInv, Claimable, jobVars
<1>6. RowInv' /\ RunningHasHeartbeat' /\ LeaseInv'
  BY <1>1, <1>4 DEF QueueInv, RowInv, RunningHasHeartbeat, LeaseInv, jobVars
<1> QED BY <1>3, <1>5, <1>6 DEF QueueInv

(* Only heartbeats of jobs nobody executes expire unless SlowExecution.    *)
LEMMA ExpireKeepsQueueInv ==
  ASSUME QueueInv, NEW j \in Jobs, Expire(j)
  PROVE  QueueInv'
<1> USE DEF QueueInv, TypeOK, Expire, handlerVars, workerVars
<1>1. TypeOK' /\ RowInv' /\ RunningHasHeartbeat'
  BY DEF RowInv, RunningHasHeartbeat
<1>2. LockInv'
  BY DEF LockInv, Claimable
<1>3. LeaseInv'
  BY DEF LeaseInv, RowInv, Executing
<1> QED BY <1>1, <1>2, <1>3

(* Every step keeps QueueInv.                                              *)
LEMMA QueueNext == QueueInv /\ [Next]_vars => QueueInv'
<1> SUFFICES ASSUME QueueInv, [Next]_vars PROVE QueueInv'
  OBVIOUS
<1>1. ASSUME NEW c \in Handlers, HandlerStep(c) PROVE QueueInv'
  BY <1>1, HandlerKeepsQueueInv
<1>2. ASSUME NEW w \in Workers, WorkerStep(w) PROVE QueueInv'
  BY <1>2, SelectKeepsQueueInv, ClaimKeepsQueueInv, ReportKeepsQueueInv, LeaveKeepsQueueInv
  DEF WorkerStep
<1>3. ASSUME NEW j \in Jobs, Expire(j) PROVE QueueInv'
  BY <1>3, ExpireKeepsQueueInv
<1>4. CASE UNCHANGED vars
  BY <1>4 DEF QueueInv, TypeOK, LockInv, RowInv, RunningHasHeartbeat, LeaseInv, Claimable,
              vars, jobVars, handlerVars, workerVars
<1> QED BY <1>1, <1>2, <1>3, <1>4 DEF Next

(* QueueInv is an inductive invariant of the queue.                        *)
THEOREM QueueInvariant == Spec => []QueueInv
  BY QueueInit, QueueNext, PTL DEF Spec

(* Every reachable state is well typed: attempt_count never passes 1.      *)
THEOREM TypeCorrect == Spec => []TypeOK
<1>1. QueueInv => TypeOK
  BY DEF QueueInv
<1> QED BY QueueInvariant, <1>1, PTL

(* No order of claims and late reports leaves a running row without        *)
(* heartbeat_at, which the claim query would never select again.           *)
THEOREM RunningKeepsHeartbeat == Spec => []RunningHasHeartbeat
<1>1. QueueInv => RunningHasHeartbeat
  BY DEF QueueInv
<1> QED BY QueueInvariant, <1>1, PTL

(* When heartbeats come in time, a job has at most one executing worker,   *)
(* and its row says which.                                                 *)
THEOREM ExclusiveExecutionHolds ==
  ASSUME ~SlowExecution
  PROVE  Spec => []ExclusiveExecution
<1>1. QueueInv => ExclusiveExecution
  BY DEF QueueInv, LeaseInv, ExclusiveExecution, Executing
<1> QED BY QueueInvariant, <1>1, PTL

-----------------------------------------------------------------------------
(* What a step does to the status of a job.                                *)

(* What a step of the queue may do to the status of a finished job.        *)
LEMMA StatusStep ==
  ASSUME QueueInv, [Next]_vars, NEW j \in Jobs
  PROVE  \/ status'[j] = status[j]
         \/ /\ status[j] = "none" /\ status'[j] = "pending"
            /\ \E c \in Handlers : HandlerStep(c)
         \/ status[j] \in {"pending", "running"} /\ status'[j] = "running"
         \/ \E w \in Workers : Executing(w, j) /\ Finish(w)
<1>1. ASSUME NEW c \in Handlers, HandlerStep(c)
      PROVE  status'[j] = status[j] \/ (status[j] = "none" /\ status'[j] = "pending")
  <2>1. CASE InsertJob(c)
    BY <2>1 DEF InsertJob, QueueInv, TypeOK, RowInv
  <2> QED BY <1>1, <2>1 DEF HandlerStep, RejectRequest, RejectActive, Admit, RejectAdmitted,
                           ReturnExisting, MissKey, jobVars
<1>2. ASSUME NEW w \in Workers, CommitClaim(w) \/ FailClaim(w)
      PROVE  status'[j] = status[j]
                \/ (status[j] \in {"pending", "running"} /\ status'[j] = "running")
  <2>1. wjob[w] \in Jobs /\ Claimable(wjob[w])
    BY <1>2 DEF QueueInv, LockInv, CommitClaim, FailClaim
  <2>2. TakeRow(w, wjob[w]) \/ status' = status
    BY <1>2 DEF CommitClaim, FailClaim, jobVars
  <2> QED BY <2>1, <2>2 DEF TakeRow, Claimable, QueueInv, TypeOK
<1>3. ASSUME NEW w \in Workers, Finish(w)
      PROVE  status'[j] = status[j] \/ Executing(w, j)
  BY <1>3 DEF Finish, MarkJob, Executing, QueueInv, TypeOK
<1>4. ASSUME NEW w \in Workers, \/ SelectJobForUpdate(w) \/ UpdateJobHeartbeat(w)
                                \/ LoseOutcome(w) \/ Crash(w) \/ Restart(w)
      PROVE  status' = status
  BY <1>4 DEF SelectJobForUpdate, UpdateJobHeartbeat, LoseOutcome, Crash, Restart, jobVars
<1>5. ASSUME NEW k \in Jobs, Expire(k) PROVE status' = status
  BY <1>5 DEF Expire
<1>6. CASE UNCHANGED vars
  BY <1>6 DEF vars, jobVars
<1> QED BY <1>1, <1>2, <1>3, <1>4, <1>5, <1>6 DEF Next, WorkerStep

(* A step leaves a finished job finished: a claim commits on the row it    *)
(* checked.                                                                *)
LEMMA FinishedStays ==
  ASSUME QueueInv, [Next]_vars, NEW j \in Jobs, Terminal(j)
  PROVE  Terminal(j)'
<1>1. CASE \E w \in Workers : Executing(w, j) /\ Finish(w)
  BY <1>1 DEF Executing, Finish, MarkJob, Terminal, QueueInv, TypeOK
<1> QED BY <1>1, StatusStep DEF Terminal

(* A step leaves an outcome as it is when heartbeats come in time: who     *)
(* reports holds the lease of a running job.                               *)
LEMMA OutcomeStays ==
  ASSUME ~SlowExecution, QueueInv, [Next]_vars, NEW j \in Jobs, Terminal(j)
  PROVE  status'[j] = status[j]
<1>1. \A w \in Workers : ~Executing(w, j)
  BY DEF Terminal, Executing, QueueInv, LeaseInv
<1> QED BY <1>1, StatusStep DEF Terminal

(* A finished job is never pending or running again, whatever the delays.  *)
THEOREM FinishedStaysFinished == Spec => NeverReopened
<1>1. QueueInv /\ [Next]_vars => [\A j \in Jobs : Terminal(j) => Terminal(j)']_vars
  BY FinishedStays
<1> QED BY QueueInvariant, <1>1, PTL DEF Spec, NeverReopened

(* When heartbeats come in time, the outcome of a job is written once.     *)
THEOREM OutcomeIsStable ==
  ASSUME ~SlowExecution
  PROVE  Spec => OutcomeStable
<1>1. QueueInv /\ [Next]_vars => [\A j \in Jobs : Terminal(j) => status'[j] = status[j]]_vars
  BY OutcomeStays
<1> QED BY QueueInvariant, <1>1, PTL DEF Spec, OutcomeStable

-----------------------------------------------------------------------------
(* What the API lets into the queue.                                       *)

(* No row and no answer at first.                                          *)
LEMMA EnqueueInit == Init => EnqueueInv
<1> SUFFICES ASSUME Init PROVE EnqueueInv
  OBVIOUS
<1>1. /\ \A j \in Jobs : status[j] = "none"
      /\ \A c \in Handlers : hpc[c] = "idle" /\ resp[c].kind = "none"
  BY DEF Init, Answer
<1>2. AdmissionInv /\ AnswerInv /\ AcceptedJobMatchesRequest
  BY <1>1 DEF AdmissionInv, AnswerInv, AcceptedJobMatchesRequest
<1>3. DistinctAdmitters /\ KeyedDistinct
  BY <1>1 DEF DistinctAdmitters, KeyedDistinct, BothActive
<1> QED BY <1>2, <1>3 DEF EnqueueInv

(* Steps that leave the API and the identity of the rows alone, and make   *)
(* no idle row active, keep what was admitted.                             *)
LEMMA EnqueueFrame ==
  ASSUME EnqueueInv, UNCHANGED <<req, by, handlerVars>>,
         \A j \in Jobs : \/ status'[j] = status[j]
                         \/ status[j] # "none" /\ status'[j] \in {"succeeded", "failed"}
                         \/ status[j] \in {"pending", "running"} /\ status'[j] = "running"
  PROVE  EnqueueInv'
<1>1. AdmissionInv' /\ AnswerInv'
  BY DEF EnqueueInv, AdmissionInv, AnswerInv, SameTriple, handlerVars
<1>2. DistinctAdmitters'
  BY DEF EnqueueInv, DistinctAdmitters, BothActive, SameTenant
<1>3. KeyedDistinct' /\ AcceptedJobMatchesRequest'
  BY DEF EnqueueInv, AnswerInv, KeyedDistinct, AcceptedJobMatchesRequest, SameTriple, handlerVars
<1> QED BY <1>1, <1>2, <1>3 DEF EnqueueInv

(* A request that is answered without a new row.                           *)
LEMMA AnswerKeepsEnqueueInv ==
  ASSUME QueueInv, EnqueueInv, NEW c \in Handlers, NEW r \in Requests,
         \/ RejectRequest(c, r) \/ RejectActive(c, r)
         \/ RejectAdmitted(c) \/ ReturnExisting(c)
  PROVE  EnqueueInv'
<1> DEFINE MatchesRequest(d) == resp'[d].kind = "accepted" =>
              /\ resp'[d].job \in Jobs
              /\ status[resp'[d].job] # "none"
              /\ SameTriple(req[resp'[d].job], hreq'[d])
<1>1. /\ UNCHANGED jobVars
      /\ hpc' = [hpc EXCEPT ![c] = "idle"]
      /\ \A d \in Handlers \ {c} : hreq'[d] = hreq[d] /\ resp'[d] = resp[d]
  BY DEF QueueInv, TypeOK, RejectRequest, RejectActive, RejectAdmitted, ReturnExisting, Respond
<1>2. MatchesRequest(c)
  <2>1. ASSUME NEW j, NEW kind \in {"rejected", "conflict"}, Respond(c, Answer(kind, j))
        PROVE  MatchesRequest(c)
    BY <2>1 DEF Respond, Answer, QueueInv, TypeOK
  <2>2. CASE ReturnExisting(c)
    <3>1. PICK j \in SameKeyJobs(hreq[c]) : Respond(c, Answer("accepted", j))
      BY <2>2 DEF ReturnExisting, Latest
    <3>2. resp'[c].job = j /\ hreq' = hreq
      BY <3>1, <2>2 DEF Respond, Answer, ReturnExisting, QueueInv, TypeOK
    <3> QED BY <3>1, <3>2 DEF SameKeyJobs, SameTriple
  <2> QED BY <2>1, <2>2 DEF RejectRequest, RejectActive, RejectAdmitted
<1>3. AdmissionInv'
  <2>1. \A d \in Handlers : hpc'[d] # "idle" => hpc'[d] = hpc[d] /\ hreq'[d] = hreq[d]
    BY <1>1 DEF QueueInv, TypeOK
  <2> QED BY <1>1, <2>1 DEF EnqueueInv, AdmissionInv, SameTriple, jobVars
<1>4. AnswerInv'
  BY <1>1, <1>2 DEF EnqueueInv, AnswerInv
<1>5. AcceptedJobMatchesRequest'
  BY <1>1, <1>2 DEF EnqueueInv, AcceptedJobMatchesRequest, SameTriple, jobVars, QueueInv, TypeOK
<1>6. DistinctAdmitters' /\ KeyedDistinct'
  BY <1>1 DEF EnqueueInv, DistinctAdmitters, KeyedDistinct, BothActive, SameTenant, SameTriple, jobVars
<1> QED BY <1>3, <1>4, <1>5, <1>6 DEF EnqueueInv

(* FindActiveJob and the idempotency lookup found nothing.                 *)
LEMMA AdmitKeepsEnqueueInv ==
  ASSUME QueueInv, EnqueueInv, NEW c \in Handlers, NEW r \in Requests,
         Admit(c, r) \/ MissKey(c)
  PROVE  EnqueueInv'
<1>1. /\ UNCHANGED <<jobVars, resp>>
      /\ hpc'[c] # "idle"
      /\ \A d \in Handlers \ {c} : hreq'[d] = hreq[d] /\ hpc'[d] = hpc[d]
  BY DEF Admit, MissKey, QueueInv, TypeOK
<1>2. AnswerInv' /\ AcceptedJobMatchesRequest'
  BY <1>1 DEF EnqueueInv, AnswerInv, AcceptedJobMatchesRequest, SameTriple, jobVars
<1>3. DistinctAdmitters' /\ KeyedDistinct'
  BY <1>1 DEF EnqueueInv, DistinctAdmitters, KeyedDistinct, BothActive, SameTenant, SameTriple, jobVars
<1>4. AdmissionInv'
  <2>1. CASE Admit(c, r)
    <3>1. hpc'[c] = "admitted" /\ hreq'[c] = r
      BY <2>1 DEF Admit, QueueInv, TypeOK
    <3>2. \A j \in Jobs : req[j].tenant = r.tenant => status[j] \notin {"pending", "running"}
      BY <2>1 DEF Admit, ActiveJobs
    <3> QED BY <1>1, <3>1, <3>2 DEF EnqueueInv, AdmissionInv, SameTriple, jobVars
  <2>2. CASE MissKey(c)
    <3>1. hpc[c] = "admitted" /\ hreq' = hreq
      BY <2>2 DEF MissKey
    <3>2. \A j \in Jobs :
             SameTriple(req[j], hreq[c]) => status[j] = "none" \/ hreq[c].key = NoKey
      BY <2>2 DEF MissKey, SameKeyJobs, SameTriple
    <3> QED BY <1>1, <3>1, <3>2 DEF EnqueueInv, AdmissionInv, SameTriple, jobVars
  <2> QED BY <2>1, <2>2
<1> QED BY <1>2, <1>3, <1>4 DEF EnqueueInv

(* The INSERT: the new row is of the inserting handler, which had neither  *)
(* an active job of the tenant nor a job with the key.                     *)
LEMMA InsertKeepsEnqueueInv ==
  ASSUME QueueInv, EnqueueInv, NEW c \in Handlers, InsertJob(c)
  PROVE  EnqueueInv'
<1> DEFINE n == nextJob
<1>1. /\ n \in Jobs /\ hpc[c] = "inserting" /\ hreq[c] \in Requests /\ hreq' = hreq
      /\ status[n] = "none" /\ status'[n] = "pending" /\ req'[n] = hreq[c] /\ by'[n] = c
      /\ \A j \in Jobs \ {n} : status'[j] = status[j] /\ req'[j] = req[j] /\ by'[j] = by[j]
      /\ hpc'[c] = "idle"
      /\ \A d \in Handlers \ {c} : hpc'[d] = hpc[d] /\ resp'[d] = resp[d]
  BY DEF InsertJob, Respond, QueueInv, TypeOK, RowInv, EnqueueInv, AdmissionInv
<1>2. resp'[c].kind = "accepted" => resp'[c].job = n
  BY DEF InsertJob, Respond, Answer, QueueInv, TypeOK
<1>3. \A j \in Jobs : by[j] = c /\ req[j].tenant = hreq[c].tenant
                         => status[j] \notin {"pending", "running"}
  BY <1>1 DEF EnqueueInv, AdmissionInv
<1>4. \A j \in Jobs : by[j] = c /\ SameTriple(req[j], hreq[c])
                         => status[j] = "none" \/ hreq[c].key = NoKey
  BY <1>1 DEF EnqueueInv, AdmissionInv
<1>5. AdmissionInv'
  BY <1>1 DEF EnqueueInv, AdmissionInv, SameTriple
<1>6. AnswerInv'
  BY <1>1, <1>2 DEF EnqueueInv, AnswerInv
<1>7. DistinctAdmitters'
  BY <1>1, <1>3 DEF EnqueueInv, DistinctAdmitters, BothActive, SameTenant
<1>8. KeyedDistinct'
  BY <1>1, <1>4 DEF EnqueueInv, KeyedDistinct, SameTriple
<1>9. AcceptedJobMatchesRequest'
  <2>1. ASSUME NEW d \in Handlers, hpc'[d] = "idle", resp'[d].kind = "accepted"
        PROVE  status'[resp'[d].job] # "none" /\ SameTriple(req'[resp'[d].job], hreq'[d])
    <3>1. CASE d = c
      BY <1>1, <1>2, <2>1, <3>1 DEF SameTriple
    <3>2. CASE d # c
      BY <1>1, <2>1, <3>2 DEF EnqueueInv, AnswerInv, AcceptedJobMatchesRequest, SameTriple
    <3> QED BY <3>1, <3>2
  <2> QED BY <2>1 DEF AcceptedJobMatchesRequest, SameTriple
<1> QED BY <1>5, <1>6, <1>7, <1>8, <1>9 DEF EnqueueInv

(* Every step keeps EnqueueInv.                                            *)
LEMMA EnqueueNext == QueueInv /\ EnqueueInv /\ [Next]_vars => EnqueueInv'
<1> SUFFICES ASSUME QueueInv, EnqueueInv, [Next]_vars PROVE EnqueueInv'
  OBVIOUS
<1>1. ASSUME NEW c \in Handlers, HandlerStep(c) PROVE EnqueueInv'
  <2>1. ASSUME NEW r \in Requests, RejectRequest(c, r) \/ RejectActive(c, r) \/ Admit(c, r)
        PROVE  EnqueueInv'
    BY <2>1, AnswerKeepsEnqueueInv, AdmitKeepsEnqueueInv
  <2>2. CASE RejectAdmitted(c) \/ ReturnExisting(c) \/ MissKey(c)
    <3>1. hreq[c] \in Requests
      BY <2>2 DEF RejectAdmitted, ReturnExisting, MissKey, EnqueueInv, AdmissionInv
    <3> QED BY <2>2, <3>1, AnswerKeepsEnqueueInv, AdmitKeepsEnqueueInv
  <2>3. CASE InsertJob(c)
    BY <2>3, InsertKeepsEnqueueInv
  <2> QED BY <1>1, <2>1, <2>2, <2>3 DEF HandlerStep
<1>2. CASE ~ \E c \in Handlers : HandlerStep(c)
  <2>1. UNCHANGED <<req, by, handlerVars>>
    BY <1>2 DEF Next, WorkerStep, SelectJobForUpdate, CommitClaim, FailClaim, TakeRow,
                UpdateJobHeartbeat, Finish, MarkJob, LoseOutcome, Crash, Restart, Expire,
                vars, jobVars
  <2>2. ASSUME NEW j \in Jobs
        PROVE  \/ status'[j] = status[j]
               \/ status[j] # "none" /\ status'[j] \in {"succeeded", "failed"}
               \/ status[j] \in {"pending", "running"} /\ status'[j] = "running"
    <3>1. ASSUME NEW w \in Workers, Executing(w, j), Finish(w)
          PROVE  status[j] # "none" /\ status'[j] \in {"succeeded", "failed"}
      BY ZenonT(60), <3>1 DEF Executing, Finish, MarkJob, QueueInv, TypeOK, RowInv
    <3> QED BY <1>2, <3>1, StatusStep
  <2> QED BY <2>1, <2>2, EnqueueFrame
<1> QED BY <1>1, <1>2

(* EnqueueInv is an invariant: what one handler has checked stays so.      *)
THEOREM EnqueueInvariant == Spec => []EnqueueInv
  BY QueueInvariant, EnqueueInit, EnqueueNext, PTL DEF Spec

(* Two active jobs of a tenant come from two requests that were served at  *)
(* the same time.                                                          *)
THEOREM AdmittersAreDistinct == Spec => []DistinctAdmitters
<1>1. EnqueueInv => DistinctAdmitters
  BY DEF EnqueueInv
<1> QED BY EnqueueInvariant, <1>1, PTL

(* Two jobs with one Idempotency-Key, tenant and type likewise.            *)
THEOREM KeyedJobsAreDistinct == Spec => []KeyedDistinct
<1>1. EnqueueInv => KeyedDistinct
  BY DEF EnqueueInv
<1> QED BY EnqueueInvariant, <1>1, PTL

(* The row an accepted request is answered with is one it asked for.       *)
THEOREM AnswersMatch == Spec => []AcceptedJobMatchesRequest
<1>1. EnqueueInv => AcceptedJobMatchesRequest
  BY DEF EnqueueInv
<1> QED BY EnqueueInvariant, <1>1, PTL

(* An API that serves one lifecycle request at a time keeps one active job *)
(* per tenant, whatever the workers do: the race of two requests is the    *)
(* only way to a second one.                                               *)
THEOREM OneHandlerOneActiveJob ==
  ASSUME \A c, d \in Handlers : c = d
  PROVE  Spec => []AtMostOneActiveJob
<1>1. EnqueueInv /\ QueueInv => AtMostOneActiveJob
  <2> SUFFICES ASSUME EnqueueInv, QueueInv, NEW i \in Jobs, NEW j \in Jobs,
                      BothActive(i, j), SameTenant(i, j)
               PROVE  i = j
    BY DEF AtMostOneActiveJob
  <2>1. by[i] \in Handlers /\ by[j] \in Handlers
    BY DEF EnqueueInv, AdmissionInv, BothActive
  <2> QED BY <2>1 DEF EnqueueInv, DistinctAdmitters
<1> QED BY EnqueueInvariant, QueueInvariant, <1>1, PTL

-----------------------------------------------------------------------------
(* The queue implements JobLease.                                          *)

(* With at most one worker executing j, Runner(j) is that worker.          *)
LEMMA RunnerIsExecutor ==
  ASSUME ExclusiveExecution, NEW j \in Jobs
  PROVE  /\ Runner(j) \in Workers \cup {NoWorker}
         /\ \A w \in Workers : Runner(j) = w <=> Executing(w, j)
         /\ Runner(j) = NoWorker <=> \A w \in Workers : ~Executing(w, j)
  BY WorkersAssumption DEF Runner, ExclusiveExecution

(* The initial queue is an initial JobLease.                               *)
LEMMA LeaseInit == Init => Lease!Init
<1> SUFFICES ASSUME Init PROVE Lease!Init
  OBVIOUS
<1>1. \A j \in Jobs : Outcome(j) = "none" /\ Runner(j) = NoWorker
  BY DEF Init, Outcome, Runner, Executing
<1> QED BY <1>1 DEF Lease!Init

(* A step that changes neither outcomes nor executions is a stutter.       *)
LEMMA LeaseStutter ==
  ASSUME \A j \in Jobs : Outcome(j)' = Outcome(j),
         \A w \in Workers, j \in Jobs : Executing(w, j)' <=> Executing(w, j)
  PROVE  UNCHANGED Lease!leaseVars
<1>1. ASSUME NEW j \in Jobs PROVE Runner(j)' = Runner(j)
  <2>1. \A w \in Workers : Executing(w, j)' = Executing(w, j)
    BY DEF Executing
  <2> QED BY <2>1 DEF Runner
<1> QED BY <1>1 DEF Lease!leaseVars

(* A step that changes who executes job j changes the runner of j only.    *)
LEMMA RunnerStep ==
  ASSUME NEW j \in Jobs, NEW now \in Workers \cup {NoWorker},
         \A v \in Workers, k \in Jobs \ {j} : Executing(v, k)' <=> Executing(v, k),
         \A v \in Workers : Executing(v, j)' <=> v = now
  PROVE  \A k \in Jobs : Runner(k)' = IF k = j THEN now ELSE Runner(k)
<1>1. ASSUME NEW k \in Jobs \ {j} PROVE Runner(k)' = Runner(k)
  <2>1. \A v \in Workers : Executing(v, k)' = Executing(v, k)
    BY DEF Executing
  <2> QED BY <2>1 DEF Runner
<1>2. Runner(j)' = now
  BY WorkersAssumption DEF Runner
<1> QED BY <1>1, <1>2

(* Every step of the queue is a step of JobLease or a stutter.             *)
LEMMA LeaseNext ==
  ASSUME ~SlowExecution, QueueInv, QueueInv', ExclusiveExecution, ExclusiveExecution', [Next]_vars
  PROVE  [Lease!Next]_(Lease!leaseVars)
<1> DEFINE SameOutcome == \A j \in Jobs : Outcome(j)' = Outcome(j)
           SameRunner == \A w \in Workers, j \in Jobs : Executing(w, j)' <=> Executing(w, j)
<1>1. ASSUME NEW c \in Handlers, HandlerStep(c)
      PROVE  [Lease!Next]_(Lease!leaseVars)
  <2>1. SameRunner
    BY <1>1, HandlerStepEffect DEF Executing, workerVars
  <2>2. CASE UNCHANGED status
    BY <2>1, <2>2, LeaseStutter DEF Outcome
  <2>3. CASE InsertJob(c)
    <3>1. /\ nextJob \in Jobs /\ Outcome(nextJob) = "none"
          /\ [j \in Jobs |-> Outcome(j)]'
                = [[j \in Jobs |-> Outcome(j)] EXCEPT ![nextJob] = "undecided"]
      <4>1. nextJob \in Jobs /\ status[nextJob] = "none"
        BY <2>3 DEF InsertJob, QueueInv, TypeOK, RowInv
      <4>2. status' = [status EXCEPT ![nextJob] = "pending"]
        BY <2>3 DEF InsertJob
      <4>3. \A k \in Jobs : Outcome(k)' = IF k = nextJob THEN "undecided" ELSE Outcome(k)
        BY <4>1, <4>2 DEF Outcome, QueueInv, TypeOK
      <4> QED BY <4>1, <4>3 DEF Outcome
    <3>2. [j \in Jobs |-> Runner(j)]' = [j \in Jobs |-> Runner(j)]
      <4>1. \A v \in Workers, j \in Jobs : Executing(v, j)' = Executing(v, j)
        BY <2>1 DEF Executing
      <4> QED BY <4>1 DEF Runner
    <3>3. Lease!Submit(nextJob)
      BY <3>1, <3>2 DEF Lease!Submit
    <3> QED BY <3>1, <3>3 DEF Lease!Next
  <2> QED BY <1>1, <2>2, <2>3 DEF HandlerStep, RejectRequest, RejectActive, Admit, RejectAdmitted,
                                 ReturnExisting, MissKey, jobVars
<1>2. ASSUME NEW w \in Workers, CommitClaim(w)
      PROVE  [Lease!Next]_(Lease!leaseVars)
  <2>1. PICK j \in Jobs : j = wjob[w] /\ Claimable(j) /\ TakeRow(w, j)
    BY <1>2 DEF CommitClaim, QueueInv, LockInv
  <2>2. \A v \in Workers : ~Executing(v, j)
    BY <2>1 DEF QueueInv, LeaseInv, Claimable, Executing
  <2>3. \A k \in Jobs : ~Executing(w, k)
    BY <1>2 DEF CommitClaim, Executing
  <2>4. /\ \A v \in Workers, k \in Jobs \ {j} : Executing(v, k)' <=> Executing(v, k)
        /\ \A v \in Workers : Executing(v, j)' <=> v = w
    BY <1>2, <2>1, <2>2 DEF CommitClaim, Executing, QueueInv, TypeOK
  <2>5. [k \in Jobs |-> Runner(k)]' = [[k \in Jobs |-> Runner(k)] EXCEPT ![j] = w]
    <3>1. \A k \in Jobs : Runner(k)' = IF k = j THEN w ELSE Runner(k)
      BY <2>1, <2>4, RunnerStep
    <3> QED BY <3>1, <2>1
  <2>6. Outcome(j) = "undecided" /\ [k \in Jobs |-> Outcome(k)]' = [k \in Jobs |-> Outcome(k)]
    BY <2>1 DEF Outcome, Claimable, TakeRow, QueueInv, TypeOK
  <2>7. Runner(j) = NoWorker /\ \A k \in Jobs : Runner(k) # w
    BY <2>1, <2>2, <2>3, RunnerIsExecutor
  <2>8. Lease!Start(w, j)
    BY <2>1, <2>5, <2>6, <2>7 DEF Lease!Start
  <2> QED BY <2>1, <2>8 DEF Lease!Next
<1>3. ASSUME NEW w \in Workers, Finish(w)
      PROVE  [Lease!Next]_(Lease!leaseVars)
  <2>1. PICK o \in {"succeeded", "failed"} : MarkJob(w, o)
    BY <1>3 DEF Finish
  <2>2. PICK j \in Jobs : j = wjob[w] /\ Executing(w, j)
    BY <2>1 DEF MarkJob, Executing, QueueInv, RowInv
  <2>3. /\ \A v \in Workers, k \in Jobs \ {j} : Executing(v, k)' <=> Executing(v, k)
        /\ \A v \in Workers : Executing(v, j)' <=> v = NoWorker
    <3>1. \A v \in Workers : Executing(v, j) => v = w
      BY <2>2 DEF ExclusiveExecution
    <3>2. \A v \in Workers, k \in Jobs : Executing(v, k)' <=> v # w /\ Executing(v, k)
      BY <2>1 DEF MarkJob, LetGo, Executing, QueueInv, TypeOK
    <3> QED BY <2>2, <3>1, <3>2, WorkersAssumption DEF Executing
  <2>4. [k \in Jobs |-> Runner(k)]' = [[k \in Jobs |-> Runner(k)] EXCEPT ![j] = NoWorker]
    <3>1. \A k \in Jobs : Runner(k)' = IF k = j THEN NoWorker ELSE Runner(k)
      BY <2>2, <2>3, RunnerStep
    <3> QED BY <3>1, <2>2
  <2>5. [k \in Jobs |-> Outcome(k)]' = [[k \in Jobs |-> Outcome(k)] EXCEPT ![j] = o]
    BY <2>1, <2>2 DEF MarkJob, Outcome, QueueInv, TypeOK
  <2>6. Runner(j) = w
    BY <2>2, RunnerIsExecutor
  <2>7. Lease!Decide(w, j)
    BY <2>2, <2>4, <2>5, <2>6 DEF Lease!Decide
  <2> QED BY <2>2, <2>7 DEF Lease!Next
<1>4. ASSUME NEW w \in Workers, LoseOutcome(w) \/ Crash(w)
      PROVE  [Lease!Next]_(Lease!leaseVars)
  <2>1. SameOutcome /\ \E pc \in {"idle", "down"} : LetGo(w, pc)
    BY <1>4 DEF LoseOutcome, Crash, Outcome, jobVars
  <2>2. CASE wpc[w] # "executing"
    <3>1. SameRunner
      BY <2>1, <2>2 DEF LetGo, Executing, QueueInv, TypeOK
    <3> QED BY <2>1, <3>1, LeaseStutter
  <2>3. CASE wpc[w] = "executing"
    <3>1. PICK j \in Jobs : j = wjob[w] /\ Executing(w, j)
      BY <2>3 DEF Executing, QueueInv, RowInv
    <3>2. /\ \A v \in Workers, k \in Jobs \ {j} : Executing(v, k)' <=> Executing(v, k)
          /\ \A v \in Workers : Executing(v, j)' <=> v = NoWorker
      <4>1. \A v \in Workers : Executing(v, j) => v = w
        BY <3>1 DEF ExclusiveExecution
      <4>2. \A v \in Workers, k \in Jobs : Executing(v, k)' <=> v # w /\ Executing(v, k)
        BY <2>1 DEF LetGo, Executing, QueueInv, TypeOK
      <4> QED BY <3>1, <4>1, <4>2, WorkersAssumption DEF Executing
    <3>3. [k \in Jobs |-> Runner(k)]' = [[k \in Jobs |-> Runner(k)] EXCEPT ![j] = NoWorker]
      <4>1. \A k \in Jobs : Runner(k)' = IF k = j THEN NoWorker ELSE Runner(k)
        BY <3>1, <3>2, RunnerStep
      <4> QED BY <4>1, <3>1
    <3>4. Runner(j) = w
      BY <3>1, RunnerIsExecutor
    <3>5. [k \in Jobs |-> Outcome(k)]' = [k \in Jobs |-> Outcome(k)]
      BY <2>1
    <3>6. Lease!Drop(w, j)
      BY <3>3, <3>4, <3>5 DEF Lease!Drop
    <3> QED BY <3>1, <3>6 DEF Lease!Next
  <2> QED BY <2>2, <2>3
<1>5. ASSUME NEW w \in Workers, SelectJobForUpdate(w) \/ FailClaim(w)
                                  \/ UpdateJobHeartbeat(w) \/ Restart(w)
      PROVE  SameOutcome /\ SameRunner
  <2>1. CASE FailClaim(w)
    <3>1. SameRunner
      BY <2>1 DEF FailClaim, LetGo, Executing, QueueInv, TypeOK
    <3>2. wjob[w] \in Jobs /\ Claimable(wjob[w])
      BY <2>1 DEF FailClaim, QueueInv, LockInv
    <3>3. SameOutcome
      BY <2>1, <3>2 DEF FailClaim, TakeRow, Claimable, Outcome, jobVars, QueueInv, TypeOK
    <3> QED BY <3>1, <3>3
  <2>2. CASE SelectJobForUpdate(w) \/ Restart(w)
    BY <2>2 DEF SelectJobForUpdate, Restart, LetGo, Executing, Outcome, jobVars, QueueInv, TypeOK
  <2>3. CASE UpdateJobHeartbeat(w)
    BY <2>3 DEF UpdateJobHeartbeat, Executing, Outcome, workerVars
  <2> QED BY <1>5, <2>1, <2>2, <2>3
<1>6. ASSUME NEW j \in Jobs, Expire(j) PROVE SameOutcome /\ SameRunner
  BY <1>6 DEF Expire, Executing, Outcome, workerVars
<1>7. CASE UNCHANGED vars
  BY <1>7, LeaseStutter DEF vars, jobVars, workerVars, Executing, Outcome
<1> QED BY <1>1, <1>2, <1>3, <1>4, <1>5, <1>6, <1>7, LeaseStutter DEF Next, WorkerStep

(* When heartbeats come in time, the queue is a JobLease: one runner per   *)
(* job, one job per runner, and the outcome decided by the runner, once.   *)
THEOREM QueueImplementsLease ==
  ASSUME ~SlowExecution
  PROVE  Spec => ImplementsLease
<1>1. QueueInv => ExclusiveExecution
  BY DEF QueueInv, LeaseInv, ExclusiveExecution, Executing
<1>2. QueueInv' => ExclusiveExecution'
  BY DEF QueueInv, LeaseInv, ExclusiveExecution, Executing
<1>3. QueueInv /\ QueueInv' /\ [Next]_vars => [Lease!Next]_(Lease!leaseVars)
  BY <1>1, <1>2, LeaseNext
<1> QED BY QueueInvariant, LeaseInit, <1>3, PTL DEF Spec, ImplementsLease, Lease!Spec

=============================================================================
