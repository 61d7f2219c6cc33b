------------------------ MODULE ControlPlane_proofs ------------------------
(***************************************************************************)
(* The queue and the executor together, for any number of tenants,         *)
(* workers, requests, jobs and faults.  What is proved of JobQueue holds   *)
(* of the composition, since it only takes steps of the queue; whoever     *)
(* overlaps with whom, rows and links refer to releases; and when          *)
(* heartbeats come in time and requests are served one at a time, the      *)
(* composition implements Executor, whose theorems then hold of it too.    *)
(***************************************************************************)
EXTENDS ControlPlane, TLAPS

QP == INSTANCE JobQueue_proofs WITH JobTypes <- Kinds, Keys <- {},
                                    SlowExecution <- TRUE, faults <- lapses

QT == INSTANCE JobQueue_proofs WITH JobTypes <- Kinds, Keys <- {},
                                    SlowExecution <- FALSE, faults <- lapses

EP == INSTANCE Executor_agree_proofs WITH active <- [t \in Tenants |-> ActiveJob(t)],
                                          jobs <- nextJob - 1, MaxExits <- MaxFaults

(* What the constants of the two modules are assumed to be.                *)
LEMMA Assumptions ==
    /\ NoRequest \notin QP!Requests /\ NoRequest \notin QT!Requests /\ NoHandler \notin Handlers /\ NoWorker \notin Workers
    /\ NoKey \notin {} /\ TRUE \in BOOLEAN /\ FALSE \in BOOLEAN
    /\ MaxJobs \in Nat /\ MaxFaults \in Nat
    /\ ContainerName \in [Tenants -> Names] /\ NoTenant \notin Tenants
    /\ {MaxJobs, MaxFaults} \subseteq Nat
BY NamesAssumption, NobodyAssumption, BoundsAssumption DEF Q!Requests, QP!Requests, QT!Requests

-----------------------------------------------------------------------------
(* The queue.                                                              *)

(* The proofs of JobQueue and the composition speak of the same queue.     *)
LEMMA SameQueue ==
    /\ Q!Init = QP!Init
    /\ [Q!Next]_(Q!vars) = [QP!Next]_(QP!vars)
BY DEF Q!Init, QP!Init, Q!Next, QP!Next, Q!vars, QP!vars, Q!Jobs, QP!Jobs, Q!Answer, QP!Answer,
   Q!HandlerStep, QP!HandlerStep, Q!WorkerStep, QP!WorkerStep, Q!RejectRequest, QP!RejectRequest,
   Q!RejectActive, QP!RejectActive, Q!Admit, QP!Admit, Q!RejectAdmitted, QP!RejectAdmitted,
   Q!ReturnExisting, QP!ReturnExisting, Q!MissKey, QP!MissKey, Q!InsertJob, QP!InsertJob,
   Q!SelectJobForUpdate, QP!SelectJobForUpdate, Q!CommitClaim, QP!CommitClaim,
   Q!FailClaim, QP!FailClaim, Q!UpdateJobHeartbeat, QP!UpdateJobHeartbeat, Q!Finish, QP!Finish,
   Q!LoseOutcome, QP!LoseOutcome, Q!Crash, QP!Crash, Q!Restart, QP!Restart, Q!Expire, QP!Expire,
   Q!MarkJob, QP!MarkJob, Q!LetGo, QP!LetGo, Q!Fault, QP!Fault, Q!TakeRow, QP!TakeRow,
   Q!Respond, QP!Respond, Q!ActiveJobs, QP!ActiveJobs, Q!SameKeyJobs, QP!SameKeyJobs,
   Q!Oldest, QP!Oldest, Q!Latest, QP!Latest, Q!Claimable, QP!Claimable, Q!Locked, QP!Locked,
   Q!Candidates, QP!Candidates, Q!ClaimedBefore, QP!ClaimedBefore, Q!Executing, QP!Executing,
   Q!Requests, QP!Requests, Q!jobVars, QP!jobVars, Q!handlerVars, QP!handlerVars,
   Q!workerVars, QP!workerVars

(* Only when slow may the heartbeat of a job expire that is executed.      *)
MayExpire(j) == slow \/ \A w \in Workers : ~Q!Executing(w, j)

(* Every step of the composition is a step of the queue, or none; and      *)
(* unless slow, the heartbeat of a job that is executed does not expire.   *)
LEMMA QueueEffect ==
    ASSUME [Next]_vars
    PROVE \/ UNCHANGED queueVars
          \/ \E c \in Handlers : Q!HandlerStep(c)
          \/ \E w \in Workers : Q!WorkerStep(w)
          \/ \E j \in Q!Jobs : Q!Expire(j) /\ MayExpire(j)
<1>1. CASE UNCHANGED vars
  BY <1>1 DEF vars, work
<1>2. ASSUME NEW c \in Handlers, Request(c) PROVE Q!HandlerStep(c)
  BY <1>2 DEF Request
<1>3. ASSUME NEW w \in Workers,
             Poll(w) \/ Claim(w) \/ Heartbeat(w) \/ Run(w) \/ Break(w) \/ Report(w) \/ Die(w)
      PROVE Q!WorkerStep(w) \/ UNCHANGED queueVars
  <2>1. CASE Run(w) \/ Break(w)
    BY <2>1 DEF Run, Break
  <2>2. CASE Report(w)
    <3>1. PICK outcome \in {"succeeded", "failed"} : Q!MarkJob(w, outcome)
      BY <2>2 DEF Report
    <3> QED BY <3>1 DEF Q!WorkerStep, Q!Finish
  <2>3. CASE Poll(w) \/ Claim(w) \/ Heartbeat(w) \/ Die(w)
    BY <2>3 DEF Poll, Claim, Heartbeat, Die, Q!WorkerStep
  <2> QED BY <1>3, <2>1, <2>2, <2>3
<1>4. ASSUME NEW j \in Q!Jobs, Age(j)
      PROVE Q!Expire(j) /\ MayExpire(j)
  BY <1>4 DEF Age, MayExpire
<1>5. ASSUME NEW n \in Names, Exit(n) PROVE UNCHANGED queueVars
  BY <1>5 DEF Exit
<1> QED BY <1>1, <1>2, <1>3, <1>4, <1>5 DEF Next

LEMMA QueueStep == [Next]_vars => [Q!Next]_(Q!vars)
<1> SUFFICES ASSUME [Next]_vars PROVE [Q!Next]_(Q!vars)
  OBVIOUS
<1>1. CASE UNCHANGED queueVars
  BY <1>1 DEF queueVars, Q!vars, Q!jobVars, Q!handlerVars, Q!workerVars
<1>2. CASE \/ \E c \in Handlers : Q!HandlerStep(c)
           \/ \E w \in Workers : Q!WorkerStep(w)
           \/ \E j \in Q!Jobs : Q!Expire(j)
  BY <1>2 DEF Q!Next
<1> QED BY <1>1, <1>2, QueueEffect

(* What JobQueue shows of its steps is so of the composition.              *)
THEOREM CompositionIsAQueue == Spec => Q!Spec
<1>1. Init => Q!Init
  BY DEF Init
<1> QED BY <1>1, QueueStep, PTL DEF Spec, Q!Spec

(* The invariant of the queue.                                             *)
LEMMA QueueInvariant == Spec => [](QP!QueueInv /\ QP!EnqueueInv)
<1>1. Q!Spec => QP!Spec
  <2>1. Q!Init => QP!Init
    BY SameQueue
  <2>2. [Q!Next]_(Q!vars) => [QP!Next]_(QP!vars)
    BY SameQueue
  <2> QED BY <2>1, <2>2, PTL DEF Q!Spec, QP!Spec
<1>2. QP!Spec => []QP!QueueInv
  BY Assumptions, QP!QueueInvariant
<1>3. QP!Spec => []QP!EnqueueInv
  BY Assumptions, QP!EnqueueInvariant
<1> QED BY <1>1, <1>2, <1>3, CompositionIsAQueue, PTL

(* Unless slow, it is the queue in which heartbeats come in time.          *)
LEMMA TimelyQueueStep == ~slow /\ [Next]_vars => [QT!Next]_(QT!vars)
<1> SUFFICES ASSUME ~slow, [Next]_vars PROVE [QT!Next]_(QT!vars)
  OBVIOUS
<1>1. CASE UNCHANGED queueVars
  BY <1>1 DEF queueVars, QT!vars, QT!jobVars, QT!handlerVars, QT!workerVars
<1>2. ASSUME NEW c \in Handlers, Q!HandlerStep(c) PROVE QT!HandlerStep(c)
  BY <1>2 DEF Q!HandlerStep, QT!HandlerStep, Q!RejectRequest, QT!RejectRequest, Q!RejectActive,
     QT!RejectActive, Q!Admit, QT!Admit, Q!RejectAdmitted, QT!RejectAdmitted, Q!ReturnExisting,
     QT!ReturnExisting, Q!MissKey, QT!MissKey, Q!InsertJob, QT!InsertJob, Q!Respond, QT!Respond,
     Q!ActiveJobs, QT!ActiveJobs, Q!SameKeyJobs, QT!SameKeyJobs, Q!Oldest, QT!Oldest, Q!Latest,
     QT!Latest, Q!Answer, QT!Answer, Q!Jobs, QT!Jobs, Q!Requests, QT!Requests, Q!jobVars,
     QT!jobVars, Q!workerVars, QT!workerVars
<1>3. ASSUME NEW w \in Workers, Q!WorkerStep(w) PROVE QT!WorkerStep(w)
  BY <1>3 DEF Q!WorkerStep, QT!WorkerStep, Q!SelectJobForUpdate, QT!SelectJobForUpdate,
     Q!CommitClaim, QT!CommitClaim, Q!FailClaim, QT!FailClaim, Q!UpdateJobHeartbeat,
     QT!UpdateJobHeartbeat, Q!Finish, QT!Finish, Q!LoseOutcome, QT!LoseOutcome, Q!Crash, QT!Crash,
     Q!Restart, QT!Restart, Q!MarkJob, QT!MarkJob, Q!LetGo, QT!LetGo, Q!Fault, QT!Fault, Q!TakeRow,
     QT!TakeRow, Q!Claimable, QT!Claimable, Q!Locked, QT!Locked, Q!Candidates, QT!Candidates,
     Q!ClaimedBefore, QT!ClaimedBefore, Q!Jobs, QT!Jobs, Q!jobVars, QT!jobVars, Q!handlerVars,
     QT!handlerVars, Q!workerVars, QT!workerVars
<1>4. ASSUME NEW j \in Q!Jobs, Q!Expire(j), MayExpire(j)
      PROVE j \in QT!Jobs /\ QT!Expire(j)
  BY <1>4 DEF MayExpire, Q!Expire, QT!Expire, Q!Executing, QT!Executing, Q!Jobs, QT!Jobs, Q!handlerVars,
     QT!handlerVars, Q!workerVars, QT!workerVars
<1>5. CASE \E j \in Q!Jobs : Q!Expire(j) /\ MayExpire(j)
  BY <1>4, <1>5 DEF QT!Next
<1>6. CASE \/ \E c \in Handlers : Q!HandlerStep(c)
           \/ \E w \in Workers : Q!WorkerStep(w)
  BY <1>2, <1>3, <1>6 DEF QT!Next
<1> QED BY <1>1, <1>5, <1>6, QueueEffect

(* While heartbeats come in time the jobs of the program are leased as     *)
(* JobLease says, each to one worker, which decides it once, although here *)
(* the heartbeats are those that execute and the handlers really send.     *)
THEOREM TimelyCompositionIsALease ==
    Spec => []slow \/ (QT!ImplementsLease /\ QT!OutcomeStable)
<1>1. Init => QT!Init
  BY DEF Init, Q!Init, QT!Init, Q!Jobs, QT!Jobs, Q!Answer, QT!Answer
<1>2. [Next]_vars => slow' = slow
  BY DEF Next, vars
<1>3. slow /\ [Next]_vars => slow'
  BY <1>2
<1>4. ~slow /\ [Next]_vars => ~slow'
  BY <1>2
<1>5. Spec => []slow \/ QT!Spec
  BY <1>1, <1>3, <1>4, TimelyQueueStep, PTL DEF Spec, QT!Spec
<1>6. QT!Spec => QT!ImplementsLease
  BY Assumptions, QT!QueueImplementsLease
<1>7. QT!Spec => QT!OutcomeStable
  BY Assumptions, QT!OutcomeIsStable
<1> QED BY <1>5, <1>6, <1>7, PTL

-----------------------------------------------------------------------------
(* The hosts.                                                              *)

(* The proofs of Executor and the composition speak of the same handlers.  *)
LEMMA SameHandlers ==
    /\ E!Init = EP!Init /\ E!TypeOK = EP!TypeOK /\ E!JobSet = EP!JobSet
    /\ [E!Next]_(E!vars) = [EP!Next]_(EP!vars)
    /\ \A w \in Workers : E!Work(w) = EP!Work(w) /\ E!Fail(w) = EP!Fail(w)
<1>1. E!Init = EP!Init /\ E!TypeOK = EP!TypeOK /\ E!JobSet = EP!JobSet /\ E!vars = EP!vars
  BY DEF E!Init, EP!Init, E!TypeOK, EP!TypeOK, E!JobSet, EP!JobSet, E!NoJob, EP!NoJob, E!Starts,
     EP!Starts, E!Pcs, EP!Pcs, E!Gone, EP!Gone, E!vars, EP!vars, E!tenantVars, EP!tenantVars,
     E!hostVars, EP!hostVars, E!localVars, EP!localVars, E!counters, EP!counters
<1>2. ASSUME NEW w \in Workers PROVE E!Work(w) = EP!Work(w) /\ E!Fail(w) = EP!Fail(w)
  <2>1. E!Deploy(w) = EP!Deploy(w)
    <3>1. /\ E!ReadCurrent(w) = EP!ReadCurrent(w) /\ E!ReadVersion(w) = EP!ReadVersion(w)
          /\ E!RenderRelease(w) = EP!RenderRelease(w) /\ E!RemoveLink(w) = EP!RemoveLink(w)
          /\ E!Symlink(w) = EP!Symlink(w) /\ E!SymlinkExists(w) = EP!SymlinkExists(w)
      BY DEF E!ReadCurrent, EP!ReadCurrent, E!ReadVersion, EP!ReadVersion, E!RenderRelease,
         EP!RenderRelease, E!RemoveLink, EP!RemoveLink, E!Symlink, EP!Symlink, E!SymlinkExists,
         EP!SymlinkExists, E!Latest, EP!Latest, E!Versions, EP!Versions, E!IsNextVersion,
         EP!IsNextVersion, E!Goto, EP!Goto, E!Type, EP!Type, E!Fault, EP!Fault, E!NoFault,
         EP!NoFault, E!tenantVars, EP!tenantVars, E!hostVars, EP!hostVars, E!localVars,
         EP!localVars, E!counters, EP!counters, E!OnlyRows, EP!OnlyRows, E!OnlyDocker,
         EP!OnlyDocker
    <3>2. /\ E!CreateInstance(w) = EP!CreateInstance(w) /\ E!StopOld(w) = EP!StopOld(w)
          /\ E!EnsureVolume(w) = EP!EnsureVolume(w) /\ E!ClearName(w) = EP!ClearName(w)
          /\ E!RunContainer(w) = EP!RunContainer(w) /\ E!RunConflict(w) = EP!RunConflict(w)
      BY DEF E!CreateInstance, EP!CreateInstance, E!StopOld, EP!StopOld, E!EnsureVolume,
         EP!EnsureVolume, E!ClearName, EP!ClearName, E!RunContainer, EP!RunContainer,
         E!RunConflict, EP!RunConflict, E!InstanceRow, EP!InstanceRow, E!Resolve, EP!Resolve,
         E!SetUp, EP!SetUp, E!Remove, EP!Remove, E!Gone, EP!Gone, E!Goto, EP!Goto, E!Type,
         EP!Type, E!Fault, EP!Fault, E!NoFault, EP!NoFault, E!tenantVars, EP!tenantVars,
         E!hostVars, EP!hostVars, E!localVars, EP!localVars, E!counters, EP!counters,
         E!OnlyRows, EP!OnlyRows, E!OnlyDocker, EP!OnlyDocker
    <3>3. /\ E!RejectNew(w) = EP!RejectNew(w) /\ E!StartOld(w) = EP!StartOld(w)
          /\ E!RestoreOld(w) = EP!RestoreOld(w) /\ E!RemoveOld(w) = EP!RemoveOld(w)
          /\ E!RetireOld(w) = EP!RetireOld(w) /\ E!PublishNew(w) = EP!PublishNew(w)
      BY DEF E!RejectNew, EP!RejectNew, E!StartOld, EP!StartOld, E!RestoreOld, EP!RestoreOld,
         E!RemoveOld, EP!RemoveOld, E!RetireOld, EP!RetireOld, E!PublishNew, EP!PublishNew,
         E!SetStatus, EP!SetStatus, E!SetRunning, EP!SetRunning, E!Resolve, EP!Resolve, E!SetUp,
         EP!SetUp, E!Remove, EP!Remove, E!Gone, EP!Gone, E!Goto, EP!Goto, E!Type, EP!Type,
         E!Fault, EP!Fault, E!NoFault, EP!NoFault, E!tenantVars, EP!tenantVars, E!hostVars,
         EP!hostVars, E!localVars, EP!localVars, E!counters, EP!counters, E!OnlyRows,
         EP!OnlyRows, E!OnlyDocker, EP!OnlyDocker
    <3> QED BY <3>1, <3>2, <3>3 DEF E!Deploy, EP!Deploy
  <2>2. E!Operate(w) = EP!Operate(w)
    BY DEF E!Operate, EP!Operate, E!ReadInstance, EP!ReadInstance, E!StopContainer,
       EP!StopContainer, E!StartContainer, EP!StartContainer, E!RemoveContainer,
       EP!RemoveContainer, E!RemoveVolume, EP!RemoveVolume, E!RemoveWorkspace,
       EP!RemoveWorkspace, E!RecordInstance, EP!RecordInstance, E!Starts, EP!Starts, E!Latest,
       EP!Latest, E!Resolve, EP!Resolve, E!SetUp, EP!SetUp, E!Remove, EP!Remove, E!Gone,
       EP!Gone, E!SetStatus, EP!SetStatus, E!SetRunning, EP!SetRunning, E!Goto, EP!Goto, E!Type,
       EP!Type, E!Fault, EP!Fault, E!NoFault, EP!NoFault, E!tenantVars, EP!tenantVars,
       E!hostVars, EP!hostVars, E!localVars, EP!localVars, E!counters, EP!counters, E!OnlyRows,
       EP!OnlyRows, E!OnlyDocker, EP!OnlyDocker
  <2>3. /\ E!Healthy(w) = EP!Healthy(w) /\ E!Unhealthy(w) = EP!Unhealthy(w)
        /\ E!UpdateTenantStatus(w) = EP!UpdateTenantStatus(w) /\ E!Fail(w) = EP!Fail(w)
    BY DEF E!Healthy, EP!Healthy, E!Unhealthy, EP!Unhealthy, E!UpdateTenantStatus,
       EP!UpdateTenantStatus, E!Fail, EP!Fail, E!Inspected, EP!Inspected, E!AfterHealthy,
       EP!AfterHealthy, E!TenantStatus, EP!TenantStatus, E!Starts, EP!Starts, E!Resolve,
       EP!Resolve, E!Goto, EP!Goto, E!Type, EP!Type, E!Fault, EP!Fault, E!NoFault, EP!NoFault,
       E!tenantVars, EP!tenantVars, E!hostVars, EP!hostVars, E!localVars, EP!localVars,
       E!counters, EP!counters, E!OnlyRows, EP!OnlyRows, E!OnlyDocker, EP!OnlyDocker
  <2> QED BY <2>1, <2>2, <2>3 DEF E!Work, EP!Work
<1>3. (UNCHANGED E!vars) = (UNCHANGED EP!vars)
  BY DEF E!vars, EP!vars, E!tenantVars, EP!tenantVars, E!hostVars, EP!hostVars, E!localVars,
     EP!localVars, E!counters, EP!counters
<1>4. E!Next = EP!Next
  <2>1. ASSUME NEW t \in Tenants PROVE \A j : E!Enqueue(t, j) = EP!Enqueue(t, j)
    BY DEF E!Enqueue, EP!Enqueue, E!NoJob, EP!NoJob, E!hostVars, EP!hostVars, E!localVars,
       EP!localVars
  <2>2. ASSUME NEW w \in Workers, NEW t \in Tenants PROVE E!Begin(w, t) = EP!Begin(w, t)
    BY DEF E!Begin, EP!Begin, E!NoJob, EP!NoJob, E!Start, EP!Start, E!tenantVars, EP!tenantVars,
       E!hostVars, EP!hostVars, E!counters, EP!counters
  <2>3. ASSUME NEW w \in Workers PROVE E!Finish(w) = EP!Finish(w) /\ E!Crash(w) = EP!Crash(w)
    BY DEF E!Finish, EP!Finish, E!Crash, EP!Crash, E!Fault, EP!Fault, E!Leave, EP!Leave,
       E!Remember, EP!Remember, E!NoJob, EP!NoJob, E!tenantVars, EP!tenantVars, E!hostVars,
       EP!hostVars, E!counters, EP!counters
  <2>4. ASSUME NEW n \in Names PROVE E!ContainerExits(n) = EP!ContainerExits(n)
    BY DEF E!ContainerExits, EP!ContainerExits, E!SetUp, EP!SetUp, E!tenantVars, EP!tenantVars,
       E!localVars, EP!localVars
  <2>5. E!Rest = EP!Rest
    BY <1>3 DEF E!Rest, EP!Rest
  <2> QED BY <1>1, <1>2, <2>1, <2>2, <2>3, <2>4, <2>5 DEF E!Next, EP!Next
<1> QED BY <1>1, <1>2, <1>3, <1>4

(* The active job of a tenant is a job or none, and rows are counted.      *)
QueueInv == QP!QueueInv /\ QP!EnqueueInv

ActiveTyped ==
    /\ [t \in Tenants |-> ActiveJob(t)] \in [Tenants -> E!JobSet \cup {E!NoJob}]
    /\ nextJob - 1 \in 0 .. MaxJobs

LEMMA ActiveTypes == QueueInv => ActiveTyped
<1> SUFFICES ASSUME QueueInv PROVE ActiveTyped
  OBVIOUS
<1>1. nextJob - 1 \in 0 .. MaxJobs
  BY Assumptions DEF QueueInv, QP!QueueInv, QP!TypeOK
<1>2. ASSUME NEW t \in Tenants PROVE ActiveJob(t) \in E!JobSet \cup {E!NoJob}
  <2>1. CASE Q!ActiveJobs(t) = {}
    BY <2>1 DEF ActiveJob, E!NoJob
  <2>2. CASE Q!ActiveJobs(t) # {}
    <3>1. PICK j \in Q!ActiveJobs(t) : ActiveJob(t) = req[j].type
      BY <2>2 DEF ActiveJob
    <3>2. req[j] \in Q!Requests
      BY <3>1 DEF Q!ActiveJobs, QueueInv, QP!EnqueueInv, QP!AdmissionInv, QP!Jobs, Q!Jobs,
                  Q!Requests, QP!Requests
    <3> QED BY <3>1, <3>2, KindsAssumption DEF Q!Requests
  <2> QED BY <2>1, <2>2
<1> QED BY <1>1, <1>2 DEF ActiveTyped

LEMMA ActiveTypesNext == QueueInv' => ActiveTyped'
  BY ActiveTypes, PTL

-----------------------------------------------------------------------------
(* Releases, whoever overlaps with whom.                                   *)

(* Under RenderInv a worker has what the proofs of Executor ask for.       *)
LEMMA Equipment ==
    ASSUME RenderInv, NEW w \in Workers, pc[w] # "idle"
    PROVE EP!TypeOK /\ EP!Equipped(w)
BY SameHandlers DEF RenderInv, EP!Equipped, EP!Rendering

(* What a step of a handler needs of the lemmas about it.                  *)
LEMMA WorkSteps ==
    ASSUME RenderInv, NEW w \in Workers, pc[w] # "idle", E!Work(w) \/ E!Fail(w)
    PROVE /\ E!TypeOK'
          /\ UNCHANGED <<on, job>>
          /\ \E x \in EP!Pcs \ {"idle"} : pc' = [pc EXCEPT ![w] = x]
          /\ \A v \in Workers : v # w => ver'[v] = ver[v]
<1>1. EP!TypeOK /\ EP!Equipped(w) /\ (EP!Work(w) \/ EP!Fail(w))
  BY Equipment, SameHandlers
<1>2. EP!TypeOK'
  BY <1>1, Assumptions, EP!WorkKeepsTypes
<1>3. E!TypeOK'
  BY <1>2 DEF E!TypeOK, EP!TypeOK, E!JobSet, EP!JobSet, E!NoJob, EP!NoJob, E!Pcs, EP!Pcs, E!Starts, EP!Starts
<1>4. UNCHANGED <<on, job>> /\ \E x \in EP!Pcs \ {"idle"} : pc' = [pc EXCEPT ![w] = x]
  BY <1>1, Assumptions, EP!WorkFrame
<1>5. \A v \in Workers : v # w => ver'[v] = ver[v]
  BY <1>1, Assumptions, EP!OtherLocals
<1> QED BY <1>3, <1>4, <1>5

(* A step of a handler keeps RenderInv.                                    *)
LEMMA WorkKeepsRenderInv ==
    ASSUME RenderInv, NEW w \in Workers, pc[w] # "idle", E!Work(w) \/ E!Fail(w)
    PROVE RenderInv'
<1>1. EP!TypeOK /\ EP!Equipped(w) /\ (EP!Work(w) \/ EP!Fail(w))
  BY Equipment, SameHandlers
<1>2. /\ E!TypeOK' /\ UNCHANGED <<on, job>>
      /\ \A v \in Workers : v # w => ver'[v] = ver[v] /\ pc'[v] = pc[v]
      /\ pc'[w] # "idle"
  BY <1>1, WorkSteps DEF EP!TypeOK
<1>3. /\ releases \in [Tenants -> SUBSET Nat] /\ link \in [Tenants -> Nat]
      /\ ver \in [Workers -> Nat] /\ on[w] \in Tenants
      /\ rows \in [Tenants -> Seq(EP!Rows)]
  BY <1>1 DEF EP!TypeOK, EP!Equipped, EP!Rows, EP!Statuses
<1>4. /\ \/ releases' = releases
         \/ pc[w] = "render" /\ releases' = [releases EXCEPT ![on[w]] = @ \cup {ver[w]}]
      /\ \/ link' = link
         \/ link' = [link EXCEPT ![on[w]] = 0]
         \/ pc[w] = "link" /\ link' = [link EXCEPT ![on[w]] = ver[w]]
      /\ pc'[w] \in {"unlink", "link", "insert"} =>
            /\ ver' = ver /\ pc[w] \in {"render", "unlink", "link"}
            /\ pc[w] = "render" => releases' = [releases EXCEPT ![on[w]] = @ \cup {ver[w]}]
  BY <1>1, Assumptions, EP!FileSteps
<1>5. \A t \in Tenants : releases[t] \subseteq releases'[t]
  BY <1>3, <1>4
<1>6. \A v \in Workers : pc'[v] # "idle" => on'[v] \in Tenants /\ job'[v] \in E!JobSet
  BY <1>1, <1>2, SameHandlers DEF RenderInv
<1>7. pc'[w] \in {"render", "unlink", "link", "insert"} => ver'[w] # 0
  <2>1. pc'[w] \in {"render", "unlink", "link", "insert"} =>
           EP!ReadVersion(w) \/ (EP!Rendering(w) /\ UNCHANGED <<ver, rows>>)
    BY <1>1, Assumptions, EP!RenderingGoesOn DEF EP!Rendering
  <2>2. EP!ReadVersion(w) => ver'[w] # 0
    BY <1>3 DEF EP!ReadVersion
  <2> QED BY <1>1, <2>1, <2>2 DEF EP!Equipped
<1>8. \A v \in Workers : pc'[v] \in {"render", "unlink", "link", "insert"} => ver'[v] # 0
  BY <1>2, <1>7 DEF RenderInv
<1>9. pc'[w] \in {"unlink", "link", "insert"} => ver'[w] \in releases'[on[w]]
  BY <1>3, <1>4, <1>5 DEF RenderInv
<1>10. \A v \in Workers : pc'[v] \in {"unlink", "link", "insert"} => ver'[v] \in releases'[on'[v]]
  <2>1. ASSUME NEW v \in Workers, v # w, pc'[v] \in {"unlink", "link", "insert"}
        PROVE  ver'[v] \in releases'[on'[v]]
    <3>1. pc[v] = pc'[v] /\ ver'[v] = ver[v] /\ on'[v] = on[v] /\ on[v] \in Tenants
      BY <1>2, <2>1 DEF RenderInv
    <3> QED BY <1>5, <2>1, <3>1 DEF RenderInv
  <2> QED BY <1>2, <1>9, <2>1
<1>11. \A t \in Tenants : link'[t] \in releases'[t] \cup {0}
  BY <1>3, <1>4, <1>5 DEF RenderInv, RowsAreRendered
<1>12. \A t \in Tenants : \A i \in DOMAIN rows'[t] : rows'[t][i].version \in releases'[t]
  <2>1. \A t \in Tenants : \A i \in DOMAIN rows[t] : rows[t][i].version \in releases'[t]
    BY <1>5 DEF RenderInv, RowsAreRendered
  <2>2. CASE EP!CreateInstance(w)
    <3>1. /\ rows' \in [Tenants -> Seq(EP!Rows)]
          /\ \A u \in Tenants : u # on[w] => rows'[u] = rows[u]
          /\ Len(rows'[on[w]]) = Len(rows[on[w]]) + 1
          /\ \A k \in 1 .. Len(rows[on[w]]) : rows'[on[w]][k] = rows[on[w]][k]
          /\ rows'[on[w]][Len(rows[on[w]]) + 1] = EP!InstanceRow("creating", ver[w])
      BY <1>1, <2>2, Assumptions, EP!InsertedRow
    <3>2. EP!InstanceRow("creating", ver[w]).version = ver[w] /\ ver[w] \in releases[on[w]]
      BY <2>2 DEF EP!InstanceRow, EP!CreateInstance, EP!Goto, RenderInv
    <3>3. ASSUME NEW i \in DOMAIN rows'[on[w]] PROVE rows'[on[w]][i].version \in releases'[on[w]]
      <4>1. DOMAIN rows'[on[w]] = 1 .. Len(rows'[on[w]]) /\ DOMAIN rows[on[w]] = 1 .. Len(rows[on[w]])
            /\ Len(rows[on[w]]) \in Nat
        BY <1>3, <3>1
      <4>2. CASE i \in 1 .. Len(rows[on[w]])
        BY <1>3, <2>1, <3>1, <4>1, <4>2
      <4>3. CASE i = Len(rows[on[w]]) + 1
        BY <1>3, <1>5, <3>1, <3>2, <4>3
      <4> QED BY <3>1, <4>1, <4>2, <4>3
    <3> QED BY <2>1, <3>1, <3>3
  <2>3. CASE /\ rows' \in [Tenants -> Seq(EP!Rows)]
             /\ \A u \in Tenants : u # on[w] => rows'[u] = rows[u]
             /\ Len(rows'[on[w]]) = Len(rows[on[w]])
             /\ \A k \in 1 .. Len(rows[on[w]]) : rows'[on[w]][k].version = rows[on[w]][k].version
    <3>1. DOMAIN rows'[on[w]] = 1 .. Len(rows[on[w]]) /\ DOMAIN rows[on[w]] = 1 .. Len(rows[on[w]])
      BY <1>3, <2>3
    <3>2. \A i \in DOMAIN rows'[on[w]] : rows'[on[w]][i].version \in releases'[on[w]]
      BY <1>3, <2>1, <2>3, <3>1
    <3> QED BY <2>1, <2>3, <3>2
  <2>4. CASE rows' = rows
    BY <2>1, <2>4
  <2> QED BY <1>1, <2>2, <2>3, <2>4, Assumptions, EP!RowEffect
<1> QED BY <1>2, <1>6, <1>8, <1>10, <1>11, <1>12 DEF RenderInv, RowsAreRendered

(* So does everything that leaves rows and files alone and gives workers   *)
(* at most a new job.                                                      *)
LEMMA HostFrame ==
    ASSUME RenderInv, QueueInv', UNCHANGED <<rows, tstatus, nextId, volume, releases, link>>,
           docker' \in [Names -> [id : Nat, up : BOOLEAN]],
           last' \in [Tenants -> [job : E!JobSet \cup {E!NoJob}, ok : BOOLEAN]],
           pc' \in [Workers -> E!Pcs], on' \in [Workers -> Tenants \cup {NoTenant}],
           job' \in [Workers -> E!JobSet \cup {E!NoJob}],
           {cur', new', ver', got'} \subseteq [Workers -> Nat],
           faults' \in 0 .. MaxFaults, exits' \in 0 .. MaxFaults,
           \A w \in Workers :
               \/ pc'[w] = "idle"
               \/ pc'[w] = "read" /\ on'[w] \in Tenants /\ job'[w] \in E!JobSet
               \/ pc'[w] = pc[w] /\ on'[w] = on[w] /\ job'[w] = job[w] /\ ver'[w] = ver[w]
    PROVE RenderInv'
<1>1. E!TypeOK'
  <2>1. ActiveTyped'
    BY ActiveTypesNext
  <2>2. [t \in Tenants |-> ActiveJob(t)]' \in [Tenants -> E!JobSet \cup {E!NoJob}]
    BY <2>1 DEF ActiveTyped
  <2>3. (nextJob - 1)' \in 0 .. MaxJobs
    BY <2>1 DEF ActiveTyped
  <2> QED BY <2>2, <2>3 DEF RenderInv, E!TypeOK
<1> QED BY <1>1 DEF RenderInv, RowsAreRendered

(* The queue's own steps and a claim.                                      *)
LEMMA IdleKeepsRenderInv ==
    ASSUME RenderInv, QueueInv', UNCHANGED executorVars
    PROVE RenderInv'
<1>1. E!TypeOK
  BY DEF RenderInv
<1> QED BY <1>1, HostFrame DEF executorVars, hostVars, E!TypeOK

LEMMA ClaimKeepsRenderInv ==
    ASSUME RenderInv, QueueInv, QueueInv', NEW w \in Workers, Claim(w)
    PROVE RenderInv'
<1>1. E!TypeOK
  BY DEF RenderInv
<1>2. req[wjob[w]].tenant \in Tenants /\ req[wjob[w]].type \in E!JobSet
  <2>1. wjob[w] \in QP!Jobs /\ status[wjob[w]] # "none"
    BY DEF Claim, Q!CommitClaim, QueueInv, QP!QueueInv, QP!LockInv, QP!Claimable
  <2>2. req[wjob[w]] \in QP!Requests
    BY <2>1 DEF QueueInv, QP!EnqueueInv, QP!AdmissionInv
  <2> QED BY <2>2, KindsAssumption DEF QP!Requests
<1>3. /\ pc' = [pc EXCEPT ![w] = "read"]
      /\ on' = [on EXCEPT ![w] = req[wjob[w]].tenant]
      /\ job' = [job EXCEPT ![w] = req[wjob[w]].type]
      /\ UNCHANGED <<cur, new, ver, got, rows, tstatus, docker, nextId, volume, releases, link,
                     last, faults, exits>>
  BY DEF Claim, E!Start, hostVars
<1>4. /\ pc \in [Workers -> E!Pcs] /\ on \in [Workers -> Tenants \cup {NoTenant}]
      /\ job \in [Workers -> E!JobSet \cup {E!NoJob}] /\ "read" \in E!Pcs
      /\ docker \in [Names -> [id : Nat, up : BOOLEAN]]
      /\ last \in [Tenants -> [job : E!JobSet \cup {E!NoJob}, ok : BOOLEAN]]
      /\ {cur, new, ver, got} \subseteq [Workers -> Nat]
      /\ faults \in 0 .. MaxFaults /\ exits \in 0 .. MaxFaults
  BY <1>1 DEF E!TypeOK, E!Pcs
<1> QED BY <1>2, <1>3, <1>4, HostFrame

(* A worker that is done with a job, or gone.                              *)
LEMMA LeaveKeepsRenderInv ==
    ASSUME RenderInv, QueueInv', NEW w \in Workers, pc[w] # "idle", E!Leave(w),
           UNCHANGED <<rows, tstatus, docker, nextId, volume, releases, link, exits>>,
           faults' \in 0 .. MaxFaults,
           last' = last \/ \E ok \in BOOLEAN : E!Remember(w, ok)
    PROVE RenderInv'
<1>1. E!TypeOK /\ on[w] \in Tenants /\ job[w] \in E!JobSet
  BY DEF RenderInv
<1>2. /\ pc \in [Workers -> E!Pcs] /\ on \in [Workers -> Tenants \cup {NoTenant}]
      /\ job \in [Workers -> E!JobSet \cup {E!NoJob}] /\ "idle" \in E!Pcs
      /\ docker \in [Names -> [id : Nat, up : BOOLEAN]]
      /\ last \in [Tenants -> [job : E!JobSet \cup {E!NoJob}, ok : BOOLEAN]]
      /\ {cur, new, ver, got} \subseteq [Workers -> Nat]
      /\ exits \in 0 .. MaxFaults
  BY <1>1 DEF E!TypeOK, E!Pcs
<1>3. last' \in [Tenants -> [job : E!JobSet \cup {E!NoJob}, ok : BOOLEAN]]
  <2>1. ASSUME NEW ok \in BOOLEAN, E!Remember(w, ok)
        PROVE last' \in [Tenants -> [job : E!JobSet \cup {E!NoJob}, ok : BOOLEAN]]
    <3>1. [job |-> job[w], ok |-> ok] \in [job : E!JobSet \cup {E!NoJob}, ok : BOOLEAN]
      BY <1>1
    <3> QED BY <1>2, <2>1, <3>1 DEF E!Remember
  <2> QED BY <1>2, <2>1
<1>4. /\ pc' = [pc EXCEPT ![w] = "idle"] /\ on' = [on EXCEPT ![w] = NoTenant]
      /\ job' = [job EXCEPT ![w] = E!NoJob] /\ ver' = [ver EXCEPT ![w] = 0]
      /\ {cur', new', ver', got'} \subseteq [Workers -> Nat]
  BY <1>2 DEF E!Leave
<1>5. /\ pc' \in [Workers -> E!Pcs] /\ on' \in [Workers -> Tenants \cup {NoTenant}]
      /\ job' \in [Workers -> E!JobSet \cup {E!NoJob}]
  BY <1>2, <1>4
<1>6. \A v \in Workers :
          \/ pc'[v] = "idle"
          \/ pc'[v] = pc[v] /\ on'[v] = on[v] /\ job'[v] = job[v] /\ ver'[v] = ver[v]
  BY <1>2, <1>4
<1> QED BY <1>2, <1>3, <1>4, <1>5, <1>6, HostFrame

(* A container that exits.                                                 *)
LEMMA ExitKeepsRenderInv ==
    ASSUME RenderInv, QueueInv', NEW n \in Names, E!ContainerExits(n)
    PROVE RenderInv'
<1>1. E!TypeOK
  BY DEF RenderInv
<1>2. docker' \in [Names -> [id : Nat, up : BOOLEAN]] /\ exits' \in 0 .. MaxFaults
  <2>1. docker \in [Names -> EP!Containers] /\ EP!SetUp({n}, FALSE)
    BY <1>1 DEF E!ContainerExits, E!SetUp, EP!SetUp, E!TypeOK, EP!Containers
  <2>2. docker' \in [Names -> EP!Containers]
    BY <2>1, Assumptions, EP!DockerCommands
  <2>3. exits \in 0 .. MaxFaults /\ exits < MaxFaults /\ exits' = exits + 1
    BY <1>1 DEF E!ContainerExits, E!TypeOK
  <2> QED BY <2>2, <2>3, Assumptions DEF EP!Containers
<1>3. UNCHANGED <<rows, tstatus, nextId, volume, releases, link, last, pc, on, job,
                  cur, new, ver, got, faults>>
  BY DEF E!ContainerExits, E!tenantVars, E!localVars
<1> QED BY <1>1, <1>2, <1>3, HostFrame DEF E!TypeOK

(* RenderInv holds at first and is kept by every step.                     *)
LEMMA RenderInit == Init => RenderInv
<1> SUFFICES ASSUME Init PROVE RenderInv
  OBVIOUS
<1>1. E!Init /\ EP!Init
  BY SameHandlers DEF Init
<1>2. EP!RowInv
  BY <1>1, Assumptions, EP!InitRowInv
<1>3. E!TypeOK
  BY <1>2, SameHandlers DEF EP!RowInv
<1>4. \A w \in Workers : pc[w] = "idle"
  BY <1>1 DEF E!Init
<1>5. RowsAreRendered
  <2>1. \A t \in Tenants : rows[t] = <<>> /\ link[t] = 0
    BY <1>1 DEF E!Init
  <2>2. \A t \in Tenants : \A i \in DOMAIN rows[t] : FALSE
    BY <2>1
  <2> QED BY <2>1, <2>2 DEF RowsAreRendered
<1> QED BY <1>3, <1>4, <1>5 DEF RenderInv

LEMMA RenderNext == RenderInv /\ QueueInv /\ QueueInv' /\ [Next]_vars => RenderInv'
<1> SUFFICES ASSUME RenderInv, QueueInv, QueueInv', [Next]_vars PROVE RenderInv'
  OBVIOUS
<1>1. CASE UNCHANGED vars
  BY <1>1, IdleKeepsRenderInv DEF vars, work
<1>2. ASSUME NEW c \in Handlers, Request(c) PROVE RenderInv'
  BY <1>2, IdleKeepsRenderInv DEF Request
<1>3. ASSUME NEW w \in Workers, Poll(w) \/ Heartbeat(w) PROVE RenderInv'
  BY <1>3, IdleKeepsRenderInv DEF Poll, Heartbeat
<1>4. ASSUME NEW w \in Workers, Claim(w) PROVE RenderInv'
  BY <1>4, ClaimKeepsRenderInv
<1>5. ASSUME NEW w \in Workers, Run(w) \/ Break(w) PROVE RenderInv'
  BY <1>5, WorkKeepsRenderInv DEF Run, Break, E!Fail
<1>6. ASSUME NEW w \in Workers, Report(w) PROVE RenderInv'
  <2>1. (pc[w] = "done") \in BOOLEAN /\ pc[w] # "idle" /\ faults \in 0 .. MaxFaults
    BY <1>6 DEF Report, RenderInv, E!TypeOK
  <2>2. /\ E!Remember(w, pc[w] = "done") /\ E!Leave(w)
        /\ UNCHANGED <<rows, tstatus, docker, nextId, volume, releases, link, faults, exits>>
    BY <1>6 DEF Report, hostVars
  <2> QED BY <2>1, <2>2, LeaveKeepsRenderInv
<1>7. ASSUME NEW w \in Workers, Die(w) PROVE RenderInv'
  <2>1. CASE pc[w] = "idle"
    BY <1>7, <2>1, IdleKeepsRenderInv DEF Die
  <2>2. CASE pc[w] # "idle"
    <3>1. /\ E!Leave(w) /\ last' = last
          /\ UNCHANGED <<rows, tstatus, docker, nextId, volume, releases, link, exits>>
          /\ faults < MaxFaults /\ faults' = faults + 1
      BY <1>7, <2>2 DEF Die, E!Crash, E!Fault, E!tenantVars, E!hostVars
    <3>2. faults' \in 0 .. MaxFaults
      BY <3>1, Assumptions DEF RenderInv, E!TypeOK
    <3> QED BY <2>2, <3>1, <3>2, LeaveKeepsRenderInv
  <2> QED BY <2>1, <2>2
<1>8. ASSUME NEW j \in Q!Jobs, Age(j) PROVE RenderInv'
  BY <1>8, IdleKeepsRenderInv DEF Age
<1>9. ASSUME NEW n \in Names, Exit(n) PROVE RenderInv'
  BY <1>9, ExitKeepsRenderInv DEF Exit
<1> QED BY <1>1, <1>2, <1>3, <1>4, <1>5, <1>6, <1>7, <1>8, <1>9 DEF Next

LEMMA RenderInvariant == Spec => []RenderInv
<1>1. Spec => []QueueInv
  BY QueueInvariant DEF QueueInv
<1> QED BY <1>1, RenderInit, RenderNext, PTL DEF Spec

(* However many executions of however many workers overlap on a tenant,    *)
(* and wherever they die, an instance row has a release that was rendered, *)
(* and the link "current" leads to one or is missing.                      *)
THEOREM RowsAreAlwaysRendered == Spec => []RowsAreRendered
  BY RenderInvariant, PTL DEF RenderInv

-----------------------------------------------------------------------------
(* Who holds what.                                                         *)

(* Instances do not go away.                                               *)
LEMMA WorkKeepsInstances ==
    ASSUME RenderInv, NEW w \in Workers, pc[w] # "idle", E!Work(w) \/ E!Fail(w)
    PROVE \A t \in Tenants : rows[t] # <<>> => rows'[t] # <<>>
<1>1. EP!TypeOK /\ EP!Equipped(w) /\ (EP!Work(w) \/ EP!Fail(w))
  BY Equipment, SameHandlers
<1>2. rows \in [Tenants -> Seq(EP!Rows)] /\ on[w] \in Tenants
  BY <1>1 DEF EP!TypeOK, EP!Equipped, EP!Rows, EP!Statuses
<1>3. \/ rows' = rows
      \/ /\ rows' \in [Tenants -> Seq(EP!Rows)]
         /\ \A t \in Tenants : t # on[w] => rows'[t] = rows[t]
         /\ Len(rows'[on[w]]) = Len(rows[on[w]]) \/ Len(rows'[on[w]]) = Len(rows[on[w]]) + 1
  BY <1>1, Assumptions, EP!RowEffect, EP!InsertedRow
<1>4. rows[on[w]] # <<>> => rows'[on[w]] # <<>>
  <2>1. rows[on[w]] \in Seq(EP!Rows)
    BY <1>2
  <2>2. rows[on[w]] # <<>> => Len(rows[on[w]]) > 0
    BY <2>1
  <2>3. Len(rows[on[w]]) \in Nat
    BY <2>1
  <2> QED BY <1>3, <2>2, <2>3
<1> QED BY <1>3, <1>4

(* What the queue knows of a row that is executed, claimed or inserted.    *)
LEMMA RowFacts ==
    ASSUME QueueInv
    PROVE /\ \A w \in Workers : wpc[w] = "executing" => wjob[w] \in QP!Jobs /\ wjob[w] < nextJob
          /\ \A w \in Workers : wpc[w] = "claiming" =>
                /\ wjob[w] \in QP!Jobs /\ req[wjob[w]] \in QP!Requests
                /\ status[wjob[w]] = "pending" \/ beat[wjob[w]] = "stale"
          /\ \A c \in Handlers : hpc[c] # "idle" => hreq[c] \in QP!Requests
          /\ status \in [QP!Jobs -> {"none", "pending", "running", "succeeded", "failed"}]
          /\ beat \in [QP!Jobs -> {"null", "fresh", "stale"}]
          /\ owner \in [QP!Jobs -> Workers \cup {NoWorker}]
          /\ req \in [QP!Jobs -> QP!Requests \cup {NoRequest}]
          /\ wpc \in [Workers -> {"idle", "claiming", "executing", "down"}]
          /\ wjob \in [Workers -> 0 .. MaxJobs]
          /\ hpc \in [Handlers -> {"idle", "admitted", "inserting"}]
          /\ hreq \in [Handlers -> QP!Requests \cup {NoRequest}]
<1>1. QP!TypeOK /\ QP!LockInv /\ QP!RowInv /\ QP!AdmissionInv
  BY DEF QueueInv, QP!QueueInv, QP!EnqueueInv
<1>2. nextJob \in Int /\ \A j \in QP!Jobs : j \in Int
  BY <1>1, Assumptions DEF QP!TypeOK, QP!Jobs
<1>3. \A w \in Workers : wpc[w] = "executing" => wjob[w] \in QP!Jobs /\ wjob[w] < nextJob
  BY <1>1, <1>2 DEF QP!RowInv
<1>4. \A w \in Workers : wpc[w] = "claiming" =>
          /\ wjob[w] \in QP!Jobs /\ req[wjob[w]] \in QP!Requests
          /\ status[wjob[w]] = "pending" \/ beat[wjob[w]] = "stale"
  BY <1>1 DEF QP!LockInv, QP!Claimable, QP!AdmissionInv
<1> QED BY <1>1, <1>3, <1>4 DEF QP!TypeOK, QP!AdmissionInv

(* What is left of it when workers and requests keep what they hold.       *)
LEMMA HoldFrame ==
    ASSUME HoldInv, UNCHANGED slow,
           \A v \in Workers :
               \/ pc'[v] = "idle" /\ wpc'[v] # "executing" /\ on'[v] = NoTenant
               \/ pc'[v] # "idle" /\ Holds(v)'
               \/ /\ pc[v] # "idle" /\ pc'[v] # "idle"
                  /\ wpc'[v] = wpc[v] /\ wjob'[v] = wjob[v] /\ on'[v] = on[v] /\ job'[v] = job[v]
                  /\ req'[wjob[v]] = req[wjob[v]]
                  /\ ~slow => /\ status'[wjob[v]] = status[wjob[v]]
                              /\ owner'[wjob[v]] = owner[wjob[v]]
                              /\ beat'[wjob[v]] \in {beat[wjob[v]], "fresh"},
           \A c \in Handlers : hpc'[c] = "inserting" => HasInstance(hreq[c])'
    PROVE HoldInv'
<1>1. ASSUME NEW v \in Workers, pc'[v] # "idle" PROVE Holds(v)'
  BY <1>1 DEF HoldInv, Holds
<1> QED BY <1>1 DEF HoldInv

(* What a request waits to insert keeps its instance.                      *)
LEMMA InsertersFrame ==
    ASSUME QueueInv, HoldInv, UNCHANGED <<hpc, hreq>>,
           \A t \in Tenants : rows[t] # <<>> => rows'[t] # <<>>
    PROVE \A c \in Handlers : hpc'[c] = "inserting" => HasInstance(hreq[c])'
<1>1. ASSUME NEW c \in Handlers, hpc'[c] = "inserting" PROVE hreq[c].tenant \in Tenants
  BY <1>1, RowFacts DEF QP!Requests
<1> QED BY <1>1 DEF HoldInv, HasInstance

(* A step of a handler of the API.                                         *)
LEMMA RequestEffect ==
    ASSUME QueueInv, NEW c \in Handlers, Q!HandlerStep(c)
    PROVE /\ UNCHANGED <<beat, owner, attempts, wpc, wjob, lapses>>
          /\ UNCHANGED <<status, req, nextJob>> \/ Q!InsertJob(c)
          /\ \A d \in Handlers : d # c => hpc'[d] = hpc[d] /\ hreq'[d] = hreq[d]
          /\ hpc'[c] = "inserting" => hreq'[c] = hreq[c]
<1>1. /\ hpc \in [Handlers -> {"idle", "admitted", "inserting"}]
      /\ hreq \in [Handlers -> QP!Requests \cup {NoRequest}]
  BY RowFacts
<1>2. ASSUME NEW r \in Q!Requests, Q!RejectRequest(c, r) \/ Q!RejectActive(c, r) \/ Q!Admit(c, r)
      PROVE /\ UNCHANGED <<beat, owner, attempts, wpc, wjob, lapses, status, req, nextJob>>
            /\ \A d \in Handlers : d # c => hpc'[d] = hpc[d] /\ hreq'[d] = hreq[d]
            /\ hpc'[c] # "inserting"
  BY <1>1, <1>2 DEF Q!RejectRequest, Q!RejectActive, Q!Admit, Q!Respond, Q!jobVars, Q!workerVars
<1>3. CASE Q!RejectAdmitted(c) \/ Q!ReturnExisting(c) \/ Q!MissKey(c) \/ Q!InsertJob(c)
  BY <1>1, <1>3 DEF Q!RejectAdmitted, Q!ReturnExisting, Q!MissKey, Q!InsertJob, Q!Respond,
                    Q!jobVars, Q!workerVars
<1> QED BY <1>2, <1>3 DEF Q!HandlerStep

LEMMA RequestKeepsHoldInv ==
    ASSUME QueueInv, HoldInv, UNCHANGED slow, NEW c \in Handlers, Request(c)
    PROVE HoldInv'
<1>1. Q!HandlerStep(c) /\ UNCHANGED executorVars /\ (hpc'[c] = "inserting" => HasInstance(hreq[c]))
  BY DEF Request
<1>2. /\ UNCHANGED <<beat, owner, wpc, wjob, pc, on, job, rows>>
      /\ UNCHANGED <<status, req, nextJob>> \/ Q!InsertJob(c)
      /\ \A d \in Handlers : d # c => hpc'[d] = hpc[d] /\ hreq'[d] = hreq[d]
      /\ hpc'[c] = "inserting" => hreq'[c] = hreq[c]
  BY <1>1, RequestEffect DEF executorVars
<1>3. \A v \in Workers : wpc[v] = "executing" =>
          status'[wjob[v]] = status[wjob[v]] /\ req'[wjob[v]] = req[wjob[v]]
  <2>1. ASSUME NEW v \in Workers, wpc[v] = "executing"
        PROVE wjob[v] \in QP!Jobs /\ wjob[v] # nextJob
    <3>1. wjob[v] < nextJob /\ wjob[v] \in QP!Jobs /\ wjob[v] \in Int
      BY <2>1, RowFacts, Assumptions DEF QP!Jobs
    <3> QED BY <3>1
  <2>2. CASE Q!InsertJob(c)
    BY <2>1, <2>2, RowFacts DEF Q!InsertJob
  <2> QED BY <1>2, <2>2
<1>4. \A v \in Workers : \/ pc'[v] = "idle" /\ wpc'[v] # "executing" /\ on'[v] = NoTenant
                         \/ pc'[v] # "idle" /\ wpc[v] = "executing"
  BY <1>2 DEF HoldInv, Holds
<1>5. \A d \in Handlers : hpc'[d] = "inserting" => HasInstance(hreq[d])'
  BY <1>1, <1>2 DEF HoldInv, HasInstance
<1> QED BY <1>2, <1>3, <1>4, <1>5, HoldFrame

(* An update of the row a worker has claimed is nobody's business but its  *)
(* own, when heartbeats come in time.                                      *)
LEMMA ClaimedRow ==
    ASSUME QueueInv, HoldInv, NEW w \in Workers, wpc[w] = "claiming",
           Q!TakeRow(w, wjob[w]) \/ UNCHANGED Q!jobVars
    PROVE \A v \in Workers : pc[v] # "idle" =>
              /\ req'[wjob[v]] = req[wjob[v]]
              /\ ~slow => /\ status'[wjob[v]] = status[wjob[v]]
                          /\ owner'[wjob[v]] = owner[wjob[v]]
                          /\ beat'[wjob[v]] = beat[wjob[v]]
<1>1. status[wjob[w]] = "pending" \/ beat[wjob[w]] = "stale"
  BY RowFacts
<1>2. ASSUME NEW v \in Workers, pc[v] # "idle", ~slow
      PROVE wjob[v] \in QP!Jobs /\ wjob[v] # wjob[w]
  <2>1. wpc[v] = "executing" /\ status[wjob[v]] = "running" /\ beat[wjob[v]] = "fresh"
    BY <1>2 DEF HoldInv, Holds
  <2> QED BY <1>1, <2>1, RowFacts
<1> QED BY <1>2, RowFacts DEF Q!TakeRow, Q!jobVars

LEMMA PollKeepsHoldInv ==
    ASSUME QueueInv, HoldInv, UNCHANGED slow, NEW w \in Workers, Poll(w)
    PROVE HoldInv'
<1>1. UNCHANGED <<pc, on, job, rows, hpc, hreq>>
  BY DEF Poll, executorVars, Q!SelectJobForUpdate, Q!FailClaim, Q!Restart, Q!handlerVars
<1>2. /\ pc[w] = "idle" /\ wpc'[w] # "executing"
      /\ \A v \in Workers : v # w => wpc'[v] = wpc[v] /\ wjob'[v] = wjob[v]
  <2>1. wpc[w] \in {"idle", "claiming", "down"} => pc[w] = "idle"
    BY DEF HoldInv, Holds
  <2>2. CASE Q!SelectJobForUpdate(w)
    BY <2>1, <2>2, RowFacts DEF Q!SelectJobForUpdate
  <2>3. CASE Q!FailClaim(w) \/ Q!Restart(w)
    BY <2>1, <2>3, RowFacts DEF Q!FailClaim, Q!Restart, Q!LetGo
  <2> QED BY <2>2, <2>3 DEF Poll
<1>3. \A v \in Workers : pc[v] # "idle" =>
          /\ req'[wjob[v]] = req[wjob[v]]
          /\ ~slow => /\ status'[wjob[v]] = status[wjob[v]]
                      /\ owner'[wjob[v]] = owner[wjob[v]]
                      /\ beat'[wjob[v]] = beat[wjob[v]]
  <2>1. CASE Q!FailClaim(w)
    BY <2>1, ClaimedRow DEF Q!FailClaim
  <2>2. CASE Q!SelectJobForUpdate(w) \/ Q!Restart(w)
    BY <2>2 DEF Q!SelectJobForUpdate, Q!Restart, Q!jobVars
  <2> QED BY <2>1, <2>2 DEF Poll
<1>4. \A c \in Handlers : hpc'[c] = "inserting" => HasInstance(hreq[c])'
  BY <1>1, InsertersFrame
<1>5. \A v \in Workers : \/ pc'[v] = "idle" /\ wpc'[v] # "executing" /\ on'[v] = NoTenant
                         \/ pc'[v] # "idle" /\ v # w
  BY <1>1, <1>2 DEF HoldInv
<1> QED BY <1>1, <1>2, <1>3, <1>4, <1>5, HoldFrame

LEMMA ClaimKeepsHoldInv ==
    ASSUME QueueInv, RenderInv, HoldInv, UNCHANGED slow, NEW w \in Workers, Claim(w)
    PROVE HoldInv'
<1>1. /\ Q!CommitClaim(w) /\ UNCHANGED <<rows, hpc, hreq>>
      /\ E!Start(w, req[wjob[w]].tenant, req[wjob[w]].type)
  BY DEF Claim, Q!CommitClaim, Q!handlerVars
<1>2. wpc[w] = "claiming" /\ Q!TakeRow(w, wjob[w]) /\ wjob' = wjob
      /\ wpc' = [wpc EXCEPT ![w] = "executing"]
  BY <1>1 DEF Q!CommitClaim
<1>3. /\ pc' = [pc EXCEPT ![w] = "read"]
      /\ on' = [on EXCEPT ![w] = req[wjob[w]].tenant]
      /\ job' = [job EXCEPT ![w] = req[wjob[w]].type]
  BY <1>1 DEF E!Start
<1>4. /\ pc \in [Workers -> E!Pcs] /\ on \in [Workers -> Tenants \cup {NoTenant}]
      /\ job \in [Workers -> E!JobSet \cup {E!NoJob}]
  BY DEF RenderInv, E!TypeOK
<1>5. pc'[w] # "idle" /\ Holds(w)'
  <2>1. wjob[w] \in QP!Jobs
    BY <1>2, RowFacts
  <2>2. /\ status'[wjob[w]] = "running" /\ beat'[wjob[w]] = "fresh" /\ owner'[wjob[w]] = w
        /\ req' = req
    BY <1>2, <2>1, RowFacts DEF Q!TakeRow
  <2>3. pc'[w] = "read" /\ on'[w] = req[wjob[w]].tenant /\ job'[w] = req[wjob[w]].type
        /\ wpc'[w] = "executing" /\ wjob'[w] = wjob[w]
    BY <1>2, <1>3, <1>4, RowFacts
  <2> QED BY <2>2, <2>3 DEF Holds
<1>6. \A v \in Workers : v # w => /\ wpc'[v] = wpc[v] /\ wjob'[v] = wjob[v]
                                 /\ pc'[v] = pc[v] /\ on'[v] = on[v] /\ job'[v] = job[v]
  BY <1>2, <1>3, <1>4, RowFacts
<1>7. \A v \in Workers : pc[v] # "idle" =>
          /\ req'[wjob[v]] = req[wjob[v]]
          /\ ~slow => /\ status'[wjob[v]] = status[wjob[v]]
                      /\ owner'[wjob[v]] = owner[wjob[v]]
                      /\ beat'[wjob[v]] = beat[wjob[v]]
  BY <1>2, ClaimedRow
<1>8. \A c \in Handlers : hpc'[c] = "inserting" => HasInstance(hreq[c])'
  BY <1>1, InsertersFrame
<1>9. \A v \in Workers : v # w /\ pc'[v] = "idle" => wpc'[v] # "executing" /\ on'[v] = NoTenant
  BY <1>6 DEF HoldInv
<1> QED BY <1>5, <1>6, <1>7, <1>8, <1>9, HoldFrame

(* Heartbeats, late or not.                                                *)
LEMMA BeatKeepsHoldInv ==
    ASSUME QueueInv, HoldInv, UNCHANGED slow,
           \/ \E w \in Workers : Heartbeat(w)
           \/ \E j \in Q!Jobs : Age(j)
    PROVE HoldInv'
<1>1. /\ UNCHANGED <<status, owner, req, hpc, hreq, wpc, wjob>>
      /\ UNCHANGED <<pc, on, job, rows>>
  BY DEF Heartbeat, Age, Q!UpdateJobHeartbeat, Q!Expire, Q!handlerVars, Q!workerVars, executorVars
<1>2. ~slow => \A v \in Workers : pc[v] # "idle" => beat'[wjob[v]] \in {beat[wjob[v]], "fresh"}
  <2> SUFFICES ASSUME ~slow, NEW v \in Workers, pc[v] # "idle"
               PROVE beat'[wjob[v]] \in {beat[wjob[v]], "fresh"}
    OBVIOUS
  <2>1. wpc[v] = "executing" /\ wjob[v] \in QP!Jobs
    BY RowFacts DEF HoldInv, Holds
  <2>2. CASE \E w \in Workers : Heartbeat(w)
    BY <2>1, <2>2, RowFacts DEF Heartbeat, Q!UpdateJobHeartbeat
  <2>3. CASE \E j \in Q!Jobs : Age(j)
    <3>1. PICK j \in Q!Jobs : Age(j)
      BY <2>3
    <3>2. wjob[v] # j
      BY <2>1, <3>1 DEF Age, Q!Executing
    <3> QED BY <2>1, <3>1, <3>2, RowFacts DEF Age, Q!Expire
  <2> QED BY <2>2, <2>3
<1>3. \A c \in Handlers : hpc'[c] = "inserting" => HasInstance(hreq[c])'
  BY <1>1, InsertersFrame
<1>4. \A v \in Workers : pc'[v] = "idle" => wpc'[v] # "executing" /\ on'[v] = NoTenant
  BY <1>1 DEF HoldInv
<1> QED BY <1>1, <1>2, <1>3, <1>4, HoldFrame

(* A worker goes on with its job.                                          *)
LEMMA WorkKeepsHoldInv ==
    ASSUME QueueInv, RenderInv, HoldInv, UNCHANGED slow, UNCHANGED queueVars,
           NEW w \in Workers, pc[w] # "idle", E!Work(w) \/ E!Fail(w)
    PROVE HoldInv'
<1>1. /\ UNCHANGED <<status, beat, owner, req, hpc, hreq, wpc, wjob>>
      /\ UNCHANGED <<on, job>>
  BY WorkSteps DEF queueVars
<1>2. \A v \in Workers : pc'[v] = "idle" <=> pc[v] = "idle"
  <2>1. PICK x \in EP!Pcs \ {"idle"} : pc' = [pc EXCEPT ![w] = x]
    BY WorkSteps
  <2>2. pc \in [Workers -> E!Pcs]
    BY DEF RenderInv, E!TypeOK
  <2> QED BY <2>1, <2>2
<1>3. \A c \in Handlers : hpc'[c] = "inserting" => HasInstance(hreq[c])'
  BY <1>1, InsertersFrame, WorkKeepsInstances
<1>4. \A v \in Workers : pc'[v] = "idle" => wpc'[v] # "executing" /\ on'[v] = NoTenant
  BY <1>1, <1>2 DEF HoldInv
<1> QED BY <1>1, <1>2, <1>3, <1>4, HoldFrame

(* A worker is done with its job, or gone.                                 *)
LEMMA LeaveKeepsHoldInv ==
    ASSUME QueueInv, RenderInv, HoldInv, UNCHANGED slow, NEW w \in Workers,
           Report(w) \/ Die(w)
    PROVE HoldInv'
<1>1. /\ pc \in [Workers -> E!Pcs] /\ on \in [Workers -> Tenants \cup {NoTenant}]
      /\ job \in [Workers -> E!JobSet \cup {E!NoJob}]
  BY DEF RenderInv, E!TypeOK
<1>2. UNCHANGED <<rows, hpc, hreq, req>>
  BY DEF Report, Die, Q!MarkJob, Q!Crash, Q!LoseOutcome, E!Crash, E!tenantVars, executorVars,
         Q!handlerVars, Q!jobVars
<1>3. /\ wpc'[w] # "executing"
      /\ \A v \in Workers : v # w => wpc'[v] = wpc[v] /\ wjob'[v] = wjob[v]
  <2>1. \E x \in {"idle", "down"} : Q!LetGo(w, x)
    BY DEF Report, Die, Q!MarkJob, Q!Crash, Q!LoseOutcome
  <2> QED BY <2>1, RowFacts DEF Q!LetGo
<1>4. /\ pc'[w] = "idle" /\ on'[w] = NoTenant
      /\ \A v \in Workers : v # w => pc'[v] = pc[v] /\ on'[v] = on[v] /\ job'[v] = job[v]
  <2>1. E!Leave(w) \/ (pc[w] = "idle" /\ UNCHANGED <<pc, on, job>>)
    BY DEF Report, Die, E!Crash, executorVars
  <2> QED BY <1>1, <2>1 DEF E!Leave, HoldInv
<1>5. ASSUME NEW v \in Workers, v # w, pc[v] # "idle", ~slow
      PROVE  /\ status'[wjob[v]] = status[wjob[v]]
             /\ owner'[wjob[v]] = owner[wjob[v]]
             /\ beat'[wjob[v]] = beat[wjob[v]]
  <2>1. CASE Report(w)
    <3>1. wpc[v] = "executing" /\ owner[wjob[v]] = v /\ owner[wjob[w]] = w
      BY <1>5, <2>1 DEF HoldInv, Holds, Report
    <3>2. wjob[v] # wjob[w] /\ wjob[v] \in QP!Jobs
      BY <1>5, <3>1, RowFacts
    <3> QED BY <2>1, <3>2, RowFacts DEF Report, Q!MarkJob
  <2>2. CASE Die(w)
    BY <2>2 DEF Die, Q!Crash, Q!LoseOutcome, Q!jobVars
  <2> QED BY <2>1, <2>2
<1>6. \A c \in Handlers : hpc'[c] = "inserting" => HasInstance(hreq[c])'
  BY <1>2, InsertersFrame
<1>7. \A v \in Workers : pc'[v] = "idle" => wpc'[v] # "executing" /\ on'[v] = NoTenant
  BY <1>3, <1>4 DEF HoldInv
<1> QED BY <1>2, <1>3, <1>4, <1>5, <1>6, <1>7, HoldFrame

(* Nothing happens to the queue or the handlers.                           *)
LEMMA RestKeepsHoldInv ==
    ASSUME QueueInv, HoldInv, UNCHANGED slow, UNCHANGED <<queueVars, pc, on, job, rows>>
    PROVE HoldInv'
<1>1. UNCHANGED <<status, beat, owner, req, hpc, hreq, wpc, wjob>>
  BY DEF queueVars
<1>2. \A c \in Handlers : hpc'[c] = "inserting" => HasInstance(hreq[c])'
  BY <1>1, InsertersFrame
<1>3. \A v \in Workers : pc'[v] = "idle" => wpc'[v] # "executing" /\ on'[v] = NoTenant
  BY <1>1 DEF HoldInv
<1> QED BY <1>1, <1>2, <1>3, HoldFrame

LEMMA HoldInit == Init => HoldInv
<1> SUFFICES ASSUME Init PROVE HoldInv
  OBVIOUS
<1>1. \A w \in Workers : pc[w] = "idle" /\ wpc[w] = "idle" /\ on[w] = NoTenant
  BY DEF Init, E!Init, Q!Init
<1>2. \A c \in Handlers : hpc[c] = "idle"
  BY DEF Init, Q!Init
<1> QED BY <1>1, <1>2 DEF HoldInv

LEMMA HoldNext == QueueInv /\ RenderInv /\ HoldInv /\ [Next]_vars => HoldInv'
<1> SUFFICES ASSUME QueueInv, RenderInv, HoldInv, [Next]_vars PROVE HoldInv'
  OBVIOUS
<1>1. UNCHANGED slow
  BY DEF Next, vars
<1>2. CASE UNCHANGED vars
  BY <1>1, <1>2, RestKeepsHoldInv DEF vars, work, executorVars
<1>3. ASSUME NEW c \in Handlers, Request(c) PROVE HoldInv'
  BY <1>1, <1>3, RequestKeepsHoldInv
<1>4. ASSUME NEW w \in Workers, Poll(w) PROVE HoldInv'
  BY <1>1, <1>4, PollKeepsHoldInv
<1>5. ASSUME NEW w \in Workers, Claim(w) PROVE HoldInv'
  BY <1>1, <1>5, ClaimKeepsHoldInv
<1>6. ASSUME NEW w \in Workers, Heartbeat(w) PROVE HoldInv'
  BY <1>1, <1>6, BeatKeepsHoldInv
<1>7. ASSUME NEW w \in Workers, Run(w) \/ Break(w) PROVE HoldInv'
  <2>1. UNCHANGED queueVars /\ pc[w] # "idle" /\ (E!Work(w) \/ E!Fail(w))
    BY <1>7 DEF Run, Break, E!Fail
  <2> QED BY <1>1, <2>1, WorkKeepsHoldInv
<1>8. ASSUME NEW w \in Workers, Report(w) \/ Die(w) PROVE HoldInv'
  BY <1>1, <1>8, LeaveKeepsHoldInv
<1>9. ASSUME NEW j \in Q!Jobs, Age(j) PROVE HoldInv'
  BY <1>1, <1>9, BeatKeepsHoldInv
<1>10. ASSUME NEW n \in Names, Exit(n) PROVE HoldInv'
  BY <1>1, <1>10, RestKeepsHoldInv DEF Exit, E!ContainerExits, E!tenantVars, E!localVars
<1> QED BY <1>2, <1>3, <1>4, <1>5, <1>6, <1>7, <1>8, <1>9, <1>10 DEF Next

LEMMA HoldInvariant == Spec => []HoldInv
<1>1. Spec => []QueueInv
  BY QueueInvariant DEF QueueInv
<1> QED BY <1>1, RenderInvariant, HoldInit, HoldNext, PTL DEF Spec

(* What JobQueue assumes of its workers and Executor of its queue: while   *)
(* heartbeats come in time, who executes a job is alone with it; here its  *)
(* heartbeats are what execute and the handlers send.                      *)
THEOREM TimelyExecutionIsExclusive == Spec => [](slow \/ Q!ExclusiveExecution)
<1>1. HoldInv => slow \/ Q!ExclusiveExecution
  BY DEF HoldInv, Holds, Q!ExclusiveExecution, Q!Executing
<1> QED BY <1>1, HoldInvariant, PTL

-----------------------------------------------------------------------------
(* The composition implements Executor.                                    *)

OneRequestAtATime == \A c, d \in Handlers : c = d

(* The active job of a tenant is the only one it has.                      *)
ActiveFacts ==
    \A t \in Tenants :
        /\ \A i, j \in Q!ActiveJobs(t) : i = j
        /\ \A j \in Q!ActiveJobs(t) : ActiveJob(t) = req[j].type /\ req[j].type \in E!JobSet
        /\ Q!ActiveJobs(t) = {} => ActiveJob(t) = E!NoJob

LEMMA OneActiveJob == OneRequestAtATime /\ QueueInv => ActiveFacts
<1> SUFFICES ASSUME OneRequestAtATime, QueueInv, NEW t \in Tenants
             PROVE /\ \A i, j \in Q!ActiveJobs(t) : i = j
                   /\ \A j \in Q!ActiveJobs(t) :
                          ActiveJob(t) = req[j].type /\ req[j].type \in E!JobSet
                   /\ Q!ActiveJobs(t) = {} => ActiveJob(t) = E!NoJob
  BY DEF ActiveFacts
<1>1. \A j \in Q!ActiveJobs(t) : /\ j \in QP!Jobs /\ status[j] \in {"pending", "running"}
                                /\ req[j] \in QP!Requests /\ by[j] \in Handlers
                                /\ req[j].tenant = t
  BY DEF Q!ActiveJobs, QueueInv, QP!EnqueueInv, QP!AdmissionInv, Q!Jobs, QP!Jobs
<1>2. ASSUME NEW i \in Q!ActiveJobs(t), NEW j \in Q!ActiveJobs(t) PROVE i = j
  BY <1>1 DEF OneRequestAtATime, QueueInv, QP!EnqueueInv, QP!DistinctAdmitters, QP!BothActive,
              QP!SameTenant
<1>3. ASSUME NEW j \in Q!ActiveJobs(t)
      PROVE ActiveJob(t) = req[j].type /\ req[j].type \in E!JobSet
  <2>1. PICK i \in Q!ActiveJobs(t) : ActiveJob(t) = req[i].type
    BY DEF ActiveJob
  <2>2. i = j
    BY <1>2
  <2>3. req[j].type \in Kinds
    BY <1>1 DEF QP!Requests
  <2> QED BY <2>1, <2>2, <2>3, KindsAssumption
<1>4. Q!ActiveJobs(t) = {} => ActiveJob(t) = E!NoJob
  BY DEF ActiveJob, E!NoJob
<1> QED BY <1>2, <1>3, <1>4

LEMMA OneActiveJobNext == OneRequestAtATime /\ QueueInv' => ActiveFacts'
<1>1. OneRequestAtATime' /\ QueueInv' => ActiveFacts'
  BY OneActiveJob, PTL
<1> QED BY <1>1 DEF OneRequestAtATime

(* A tenant whose active rows stay as they are keeps its active job.       *)
LEMMA ActiveFrame ==
    ASSUME ActiveFacts, ActiveFacts', NEW t \in Tenants,
           \A j \in Q!Jobs : j \in Q!ActiveJobs(t)' <=> j \in Q!ActiveJobs(t),
           \A j \in Q!ActiveJobs(t) : req'[j].type = req[j].type
    PROVE ActiveJob(t)' = ActiveJob(t)
<1>1. Q!ActiveJobs(t)' = Q!ActiveJobs(t)
  BY DEF Q!ActiveJobs, Q!Jobs
<1>2. CASE Q!ActiveJobs(t) = {}
  BY <1>1, <1>2 DEF ActiveFacts, E!NoJob
<1>3. CASE Q!ActiveJobs(t) # {}
  <2>1. PICK j : j \in Q!ActiveJobs(t)
    BY <1>3
  <2>2. ActiveJob(t) = req[j].type
    BY <2>1 DEF ActiveFacts
  <2>3. ActiveJob(t)' = req'[j].type
    BY <1>1, <2>1 DEF ActiveFacts
  <2> QED BY <2>1, <2>2, <2>3
<1> QED BY <1>2, <1>3

(* A step of the queue between active statuses is none of Executor.        *)
LEMMA SameActive ==
    ASSUME ActiveFacts, ActiveFacts', req' = req,
           \A j \in Q!Jobs : \/ status'[j] = status[j]
                             \/ {status[j], status'[j]} \subseteq {"pending", "running"}
    PROVE [t \in Tenants |-> ActiveJob(t)]' = [t \in Tenants |-> ActiveJob(t)]
<1>1. ASSUME NEW t \in Tenants PROVE ActiveJob(t)' = ActiveJob(t)
  BY ActiveFrame DEF Q!ActiveJobs, Q!Jobs
<1> QED BY <1>1

LEMMA QueueOnly ==
    ASSUME ActiveFacts, ActiveFacts', req' = req, nextJob' = nextJob, UNCHANGED executorVars,
           \A j \in Q!Jobs : \/ status'[j] = status[j]
                             \/ {status[j], status'[j]} \subseteq {"pending", "running"}
    PROVE UNCHANGED E!vars
<1>1. [t \in Tenants |-> ActiveJob(t)]' = [t \in Tenants |-> ActiveJob(t)]
  BY SameActive
<1>2. UNCHANGED <<rows, tstatus, docker, nextId, volume, releases, link, last, pc, on, job,
                  cur, new, ver, got, faults, exits>>
  BY DEF executorVars, hostVars
<1> QED BY <1>1, <1>2 DEF E!vars, E!tenantVars, E!hostVars, E!localVars, E!counters

(* A request that is let through enqueues a job of Executor.               *)
LEMMA RequestRefines ==
    ASSUME OneRequestAtATime, QueueInv, HoldInv, ActiveFacts, ActiveFacts',
           NEW c \in Handlers, Request(c)
    PROVE E!Next \/ UNCHANGED E!vars
<1>1. Q!HandlerStep(c) /\ UNCHANGED executorVars
  BY DEF Request
<1>2. CASE UNCHANGED <<status, req, nextJob>>
  BY <1>1, <1>2, QueueOnly
<1>3. CASE Q!InsertJob(c)
  <2>1. /\ hpc[c] = "inserting" /\ nextJob \in QP!Jobs /\ nextJob' = nextJob + 1
        /\ status' = [status EXCEPT ![nextJob] = "pending"]
        /\ req' = [req EXCEPT ![nextJob] = hreq[c]]
    BY <1>3 DEF Q!InsertJob, Q!Jobs, QP!Jobs
  <2>2. hreq[c] \in QP!Requests
    BY <2>1, RowFacts
  <2>3. PICK t \in Tenants, k \in E!JobSet, n \in QP!Jobs :
            t = hreq[c].tenant /\ k = hreq[c].type /\ n = nextJob
    BY <2>1, <2>2, KindsAssumption DEF QP!Requests
  <2>4. Q!ActiveJobs(t) = {}
    <3>1. ASSUME NEW i \in Q!ActiveJobs(t) PROVE FALSE
      <4>1. i \in QP!Jobs /\ status[i] \in {"pending", "running"} /\ req[i].tenant = t
        BY DEF Q!ActiveJobs, Q!Jobs, QP!Jobs
      <4>2. by[i] \in Handlers
        BY <4>1 DEF QueueInv, QP!EnqueueInv, QP!AdmissionInv
      <4>3. by[i] = c
        BY <4>2 DEF OneRequestAtATime
      <4> QED BY <2>1, <2>3, <4>1, <4>3 DEF QueueInv, QP!EnqueueInv, QP!AdmissionInv
    <3> QED BY <3>1
  <2>5. /\ \A i \in QP!Jobs : i # n => status'[i] = status[i] /\ req'[i] = req[i]
        /\ status'[n] = "pending" /\ req'[n] = hreq[c]
    BY <2>1, <2>3, RowFacts
  <2>6. status[n] = "none"
    <3>1. n \in Int
      BY Assumptions DEF QP!Jobs
    <3> QED BY <2>3, <3>1 DEF QueueInv, QP!QueueInv, QP!RowInv
  <2>7. ActiveJob(t)' = k
    <3>1. n \in Q!ActiveJobs(t)'
      BY <2>3, <2>5 DEF Q!ActiveJobs, Q!Jobs, QP!Jobs
    <3> QED BY <2>3, <2>5, <3>1 DEF ActiveFacts
  <2>8. ASSUME NEW u \in Tenants, u # t PROVE ActiveJob(u)' = ActiveJob(u)
    <3>1. \A i \in Q!Jobs : i \in Q!ActiveJobs(u)' <=> i \in Q!ActiveJobs(u)
      BY <2>3, <2>5, <2>6, <2>8 DEF Q!ActiveJobs, Q!Jobs, QP!Jobs
    <3>2. \A i \in Q!ActiveJobs(u) : req'[i].type = req[i].type
      BY <2>5, <2>6 DEF Q!ActiveJobs, Q!Jobs, QP!Jobs
    <3> QED BY <3>1, <3>2, ActiveFrame
  <2>9. [x \in Tenants |-> ActiveJob(x)]' = [[x \in Tenants |-> ActiveJob(x)] EXCEPT ![t] = k]
    BY <2>7, <2>8
  <2>10. ActiveJob(t) = E!NoJob
    BY <2>4 DEF ActiveFacts
  <2>11. k.type # "deploy" => rows[t] # <<>>
    BY <2>1, <2>3 DEF HoldInv, HasInstance
  <2>12. nextJob - 1 < MaxJobs /\ nextJob' - 1 = nextJob - 1 + 1
    BY <2>1, Assumptions DEF QP!Jobs
  <2>13. UNCHANGED <<rows, tstatus, docker, nextId, volume, releases, link, last, pc, on, job,
                     cur, new, ver, got, faults, exits>>
    BY <1>1 DEF executorVars, hostVars
  <2>14. E!Enqueue(t, k)
    BY <2>9, <2>10, <2>11, <2>12, <2>13 DEF E!Enqueue, E!hostVars, E!localVars
  <2> QED BY <2>14 DEF E!Next
<1> QED BY <1>1, <1>2, <1>3, RequestEffect

(* A claim begins the execution of the tenant's active job, which nobody   *)
(* else executes.                                                          *)
LEMMA ClaimRefines ==
    ASSUME QueueInv, HoldInv, ActiveFacts, ActiveFacts', ~slow, NEW w \in Workers, Claim(w)
    PROVE E!Next
<1>1. /\ wpc[w] = "claiming" /\ Q!TakeRow(w, wjob[w])
      /\ E!Start(w, req[wjob[w]].tenant, req[wjob[w]].type)
      /\ UNCHANGED <<rows, tstatus, docker, nextId, volume, releases, link, last, faults, exits>>
  BY DEF Claim, Q!CommitClaim, hostVars
<1>2. /\ wjob[w] \in QP!Jobs /\ req[wjob[w]] \in QP!Requests
      /\ status[wjob[w]] \in {"pending", "running"}
      /\ status[wjob[w]] = "pending" \/ beat[wjob[w]] = "stale"
  BY <1>1, RowFacts DEF QueueInv, QP!QueueInv, QP!LockInv, QP!Claimable
<1>3. PICK t \in Tenants, n \in QP!Jobs :
          n \in Q!ActiveJobs(t) /\ t = req[wjob[w]].tenant /\ n = wjob[w]
  <2>1. req[wjob[w]].tenant \in Tenants
    BY <1>2 DEF QP!Requests
  <2>2. wjob[w] \in Q!ActiveJobs(req[wjob[w]].tenant)
    BY <1>2 DEF Q!ActiveJobs, Q!Jobs, QP!Jobs
  <2> QED BY <1>2, <2>1, <2>2
<1>4. ActiveJob(t) = req[n].type /\ ActiveJob(t) \in E!JobSet
  BY <1>3 DEF ActiveFacts
<1>5. ActiveJob(t) # E!NoJob
  BY <1>4 DEF E!JobSet, E!NoJob, E!Starts
<1>6. \A v \in Workers : on[v] # t
  <2>1. ASSUME NEW v \in Workers, on[v] = t PROVE FALSE
    <3>1. pc[v] # "idle"
      BY <2>1, NobodyAssumption DEF HoldInv
    <3>2. /\ wpc[v] = "executing" /\ req[wjob[v]].tenant = t
          /\ status[wjob[v]] = "running" /\ beat[wjob[v]] = "fresh"
      BY <2>1, <3>1 DEF HoldInv, Holds
    <3>3. wjob[v] \in Q!ActiveJobs(t)
      BY <3>2, RowFacts DEF Q!ActiveJobs, Q!Jobs, QP!Jobs
    <3>4. wjob[v] = wjob[w]
      BY <1>3, <3>3 DEF ActiveFacts
    <3> QED BY <1>2, <3>2, <3>4
  <2> QED BY <2>1
<1>7. /\ req' = req /\ nextJob' = nextJob
      /\ \A j \in Q!Jobs : \/ status'[j] = status[j]
                           \/ {status[j], status'[j]} \subseteq {"pending", "running"}
  BY <1>1, <1>2, RowFacts DEF Q!TakeRow, Q!Jobs, QP!Jobs
<1>8. [x \in Tenants |-> ActiveJob(x)]' = [x \in Tenants |-> ActiveJob(x)]
  BY <1>7, SameActive
<1>9. E!Start(w, t, ActiveJob(t))
  BY <1>1, <1>3, <1>4
<1>10. E!Begin(w, t)
  BY <1>1, <1>5, <1>6, <1>7, <1>8, <1>9 DEF E!Begin, E!tenantVars, E!hostVars, E!counters
<1> QED BY <1>10 DEF E!Next

(* A report finishes the tenant's active job.                              *)
LEMMA ReportRefines ==
    ASSUME QueueInv, RenderInv, HoldInv, ActiveFacts, ActiveFacts', ~slow,
           NEW w \in Workers, Report(w)
    PROVE E!Next
<1>1. /\ pc[w] \in {"done", "failed"} /\ nextJob' = nextJob /\ req' = req
      /\ \E outcome \in {"succeeded", "failed"} : status' = [status EXCEPT ![wjob[w]] = outcome]
      /\ E!Remember(w, pc[w] = "done") /\ E!Leave(w)
      /\ UNCHANGED <<rows, tstatus, docker, nextId, volume, releases, link, faults, exits>>
  BY DEF Report, Q!MarkJob, hostVars
<1>2. /\ wpc[w] = "executing" /\ req[wjob[w]].tenant = on[w] /\ status[wjob[w]] = "running"
      /\ wjob[w] \in QP!Jobs
  BY <1>1, RowFacts DEF HoldInv, Holds
<1>3. PICK t \in Tenants, n \in QP!Jobs :
          n \in Q!ActiveJobs(t) /\ t = on[w] /\ n = wjob[w]
  <2>1. on[w] \in Tenants
    BY <1>1 DEF RenderInv
  <2>2. wjob[w] \in Q!ActiveJobs(on[w])
    BY <1>2 DEF Q!ActiveJobs, Q!Jobs, QP!Jobs
  <2> QED BY <1>2, <2>1, <2>2
<1>4. /\ \A i \in QP!Jobs : i # n => status'[i] = status[i]
      /\ status'[n] \in {"succeeded", "failed"}
  BY <1>1, <1>2, <1>3, RowFacts
<1>5. ActiveJob(t)' = E!NoJob
  <2>1. \A i \in Q!ActiveJobs(t)' : i \in Q!ActiveJobs(t) /\ i # n
    BY <1>1, <1>4 DEF Q!ActiveJobs, Q!Jobs, QP!Jobs
  <2>2. Q!ActiveJobs(t)' = {}
    BY <1>3, <2>1 DEF ActiveFacts
  <2> QED BY <2>2 DEF ActiveFacts, E!NoJob
<1>6. ASSUME NEW u \in Tenants, u # t PROVE ActiveJob(u)' = ActiveJob(u)
  <2>1. req[n].tenant = t
    BY <1>3 DEF Q!ActiveJobs
  <2>2. \A i \in Q!Jobs : i \in Q!ActiveJobs(u)' <=> i \in Q!ActiveJobs(u)
    BY <1>1, <1>4, <1>6, <2>1 DEF Q!ActiveJobs, Q!Jobs, QP!Jobs
  <2> QED BY <1>1, <2>2, ActiveFrame
<1>7. [x \in Tenants |-> ActiveJob(x)]'
          = [[x \in Tenants |-> ActiveJob(x)] EXCEPT ![on[w]] = E!NoJob]
  BY <1>3, <1>5, <1>6
<1>8. E!Finish(w)
  BY <1>1, <1>7 DEF E!Finish, E!hostVars, E!counters
<1> QED BY <1>1, <1>8 DEF E!Next

(* A worker that dies leaves the job active.                               *)
LEMMA DieRefines ==
    ASSUME ActiveFacts, ActiveFacts', NEW w \in Workers, Die(w)
    PROVE E!Next \/ UNCHANGED E!vars
<1>1. UNCHANGED <<status, req, nextJob>>
  BY DEF Die, Q!Crash, Q!LoseOutcome, Q!jobVars
<1>2. CASE pc[w] = "idle"
  BY <1>1, <1>2, QueueOnly DEF Die
<1>3. CASE pc[w] # "idle"
  BY <1>3 DEF Die, E!Next
<1> QED BY <1>2, <1>3

(* The queue's steps that Executor does not see.                           *)
LEMMA PollRefines ==
    ASSUME QueueInv, ActiveFacts, ActiveFacts', NEW w \in Workers, Poll(w)
    PROVE UNCHANGED E!vars
<1>1. UNCHANGED executorVars
  BY DEF Poll
<1>2. CASE Q!SelectJobForUpdate(w) \/ Q!Restart(w)
  BY <1>1, <1>2, QueueOnly DEF Q!SelectJobForUpdate, Q!Restart, Q!jobVars
<1>3. CASE Q!FailClaim(w)
  <2>1. wpc[w] = "claiming" /\ (Q!TakeRow(w, wjob[w]) \/ UNCHANGED Q!jobVars)
    BY <1>3 DEF Q!FailClaim
  <2>2. wjob[w] \in QP!Jobs /\ status[wjob[w]] \in {"pending", "running"}
    BY <2>1 DEF QueueInv, QP!QueueInv, QP!LockInv, QP!Claimable
  <2>3. /\ req' = req /\ nextJob' = nextJob
        /\ \A j \in Q!Jobs : \/ status'[j] = status[j]
                             \/ {status[j], status'[j]} \subseteq {"pending", "running"}
    BY <2>1, <2>2, RowFacts DEF Q!TakeRow, Q!jobVars, Q!Jobs, QP!Jobs
  <2> QED BY <1>1, <2>3, QueueOnly
<1> QED BY <1>2, <1>3 DEF Poll

(* Every step that is not slow is a step of Executor, or none.             *)
LEMMA StepRefines ==
    ASSUME OneRequestAtATime, QueueInv, RenderInv, HoldInv, ActiveFacts, ActiveFacts', [Next]_vars
    PROVE [slow \/ E!Next]_(E!vars)
<1> SUFFICES ASSUME ~slow PROVE E!Next \/ UNCHANGED E!vars
  OBVIOUS
<1>1. CASE UNCHANGED vars
  BY <1>1, QueueOnly DEF vars, work, queueVars
<1>2. ASSUME NEW c \in Handlers, Request(c) PROVE E!Next \/ UNCHANGED E!vars
  BY <1>2, RequestRefines
<1>3. ASSUME NEW w \in Workers, Poll(w) PROVE UNCHANGED E!vars
  BY <1>3, PollRefines
<1>4. ASSUME NEW w \in Workers, Claim(w) PROVE E!Next
  BY <1>4, ClaimRefines
<1>5. ASSUME NEW w \in Workers, Heartbeat(w) PROVE UNCHANGED E!vars
  BY <1>5, QueueOnly DEF Heartbeat, Q!UpdateJobHeartbeat
<1>6. ASSUME NEW w \in Workers, Run(w) \/ Break(w) PROVE E!Next
  BY <1>6 DEF Run, Break, E!Fail, E!Next
<1>7. ASSUME NEW w \in Workers, Report(w) PROVE E!Next
  BY <1>7, ReportRefines
<1>8. ASSUME NEW w \in Workers, Die(w) PROVE E!Next \/ UNCHANGED E!vars
  BY <1>8, DieRefines
<1>9. ASSUME NEW j \in Q!Jobs, Age(j) PROVE UNCHANGED E!vars
  BY <1>9, QueueOnly DEF Age, Q!Expire
<1>10. ASSUME NEW n \in Names, Exit(n) PROVE E!Next
  BY <1>10 DEF Exit, E!Next
<1> QED BY <1>1, <1>2, <1>3, <1>4, <1>5, <1>6, <1>7, <1>8, <1>9, <1>10 DEF Next

(* When the API serves one lifecycle request at a time and heartbeats come *)
(* in time, the queue gives every tenant one job and every job one worker: *)
(* the program is Executor's, with a row for every job.                    *)
THEOREM CompositionImplementsExecutor ==
    ASSUME OneRequestAtATime
    PROVE  Spec => ImplementsExecutor
<1>1. Init => slow \/ E!Init
  BY DEF Init
<1>2. QueueInv => ActiveFacts
  BY OneActiveJob
<1>3. QueueInv' => ActiveFacts'
  BY OneActiveJobNext
<1>4. QueueInv /\ QueueInv' /\ RenderInv /\ HoldInv /\ [Next]_vars => [slow \/ E!Next]_(E!vars)
  BY <1>2, <1>3, StepRefines
<1>5. Spec => []QueueInv
  BY QueueInvariant DEF QueueInv
<1> QED BY <1>1, <1>4, <1>5, RenderInvariant, HoldInvariant, PTL DEF Spec, ImplementsExecutor

-----------------------------------------------------------------------------
(* What is proved of Executor holds of the program.                        *)

(* A behaviour is slow or never is, and then it is one of Executor.        *)
LEMMA TimelyIsExecutor ==
    ASSUME OneRequestAtATime
    PROVE  Spec => []slow \/ ([]~slow /\ EP!Spec)
<1>1. [Next]_vars => slow' = slow
  BY DEF Next, vars
<1>2. E!Init => EP!Init
  BY SameHandlers
<1>3. [E!Next]_(E!vars) => [EP!Next]_(EP!vars)
  BY SameHandlers
<1>4. slow /\ [Next]_vars => slow'
  BY <1>1
<1>5. ~slow /\ [Next]_vars => ~slow'
  BY <1>1
<1>6. [slow \/ E!Next]_(E!vars) /\ ~slow => [EP!Next]_(EP!vars)
  BY <1>3
<1> QED BY <1>2, <1>4, <1>5, <1>6, CompositionImplementsExecutor, PTL
        DEF Spec, EP!Spec, ImplementsExecutor

(* Versions grow with the rows of a tenant, and no two rows share one.     *)
THEOREM VersionsIncreaseInTime ==
    ASSUME OneRequestAtATime
    PROVE  Spec => [](slow \/ E!VersionsIncrease)
<1>1. EP!Spec => []EP!VersionsIncrease
  BY Assumptions, EP!VersionsAlwaysIncrease
<1>2. EP!VersionsIncrease => E!VersionsIncrease
  BY DEF EP!VersionsIncrease, E!VersionsIncrease
<1> QED BY <1>1, <1>2, TimelyIsExecutor, PTL

(* After a lifecycle job that succeeded tables, Docker and files agree, no *)
(* container is ever out of reach, and a superseded row is left running    *)
(* only where a failure, a death or an exit has left it, from the request  *)
(* through queue, claims, deaths and retries to the report, if no two      *)
(* tenants share the name of a container.                                  *)
THEOREM LifecycleJobsAgree ==
    ASSUME OneRequestAtATime, EP!OwnNames
    PROVE  Spec => [](slow \/ (E!SuccessMeansAgreement /\ E!ContainerReachable /\ E!LeftRunningIsDue))
<1>1. EP!Spec => []EP!SuccessMeansAgreement
  BY Assumptions, EP!SuccessIsAgreement
<1>2. EP!Spec => []EP!ContainerReachable
  BY Assumptions, EP!ContainersStayReachable
<1>3. EP!Spec => []EP!LeftRunningIsDue
  BY Assumptions, EP!LeftRunningStaysDue
<1>4. EP!SuccessMeansAgreement => E!SuccessMeansAgreement
  BY DEF EP!SuccessMeansAgreement, E!SuccessMeansAgreement, EP!Agree, E!Agree, EP!Quiet, E!Quiet,
     EP!NoJob, E!NoJob, EP!CurrentRow, E!CurrentRow, EP!Container, E!Container, EP!Starts, E!Starts,
     EP!Gone, E!Gone, EP!Versions, E!Versions
<1>5. EP!ContainerReachable => E!ContainerReachable
  BY DEF EP!ContainerReachable, E!ContainerReachable, EP!Container, E!Container, EP!Gone, E!Gone,
     EP!Resolve, E!Resolve, EP!Latest, E!Latest
<1>6. EP!LeftRunningIsDue => E!LeftRunningIsDue
  <2>1. \A S : EP!Cardinality(S) = E!Cardinality(S)
    BY DEF EP!Cardinality, E!Cardinality
  <2> QED BY <2>1 DEF EP!LeftRunningIsDue, E!LeftRunningIsDue, EP!LeftRunning, E!LeftRunning,
       EP!Quiet, E!Quiet, EP!NoJob, E!NoJob
<1> QED BY <1>1, <1>2, <1>3, <1>4, <1>5, <1>6, TimelyIsExecutor, PTL

=============================================================================
