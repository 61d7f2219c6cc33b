-------------------------- MODULE Executor_proofs --------------------------
(***************************************************************************)
(* What jobs do to their tenants, for any number of tenants, workers,      *)
(* jobs and faults.                                                        *)
(***************************************************************************)
EXTENDS Executor, SequenceTheorems, TLAPS

Statuses == {"creating", "failed", "running", "stopped", "destroyed"}
Rows == [status : Statuses, cid : Nat, version : Nat \ {0}]

(* MaxJobs and the other bounds are natural numbers.                       *)
LEMMA Bounds == MaxJobs \in Nat /\ MaxFaults \in Nat /\ MaxExits \in Nat
  BY BoundsAssumption

(* A job has one of five types, and to have no job is none of them.        *)
LEMMA JobTypes ==
    /\ NoJob \notin JobSet
    /\ \A j \in JobSet : j.type \in {"deploy", "stop", "start", "restart", "destroy"}
  BY DEF NoJob, JobSet, Starts

-----------------------------------------------------------------------------
(* Who works on what.                                                      *)

(* A worker that is not idle has a tenant of its own and that tenant's     *)
(* active job.                                                             *)
Owned ==
    /\ \A w \in Workers : pc[w] = "idle" <=> on[w] = NoTenant
    /\ \A v, w \in Workers : on[v] = on[w] /\ on[v] # NoTenant => v = w
    /\ \A w \in Workers : pc[w] # "idle" => job[w] \in JobSet /\ job[w] = active[on[w]]

(* A deploy that has read its version and not yet inserted its row.        *)
Rendering(w) == pc[w] \in {"render", "unlink", "link", "insert"}

(* What a worker needs for its steps to keep the types, whoever else works *)
(* on its tenant.                                                          *)
Equipped(w) ==
    on[w] \in Tenants /\ job[w] \in JobSet /\ (Rendering(w) => ver[w] # 0)

(* A step of a handler changes neither the queue nor who works on what.    *)
LEMMA WorkFrame ==
    ASSUME TypeOK, NEW w \in Workers, pc[w] # "idle", Work(w) \/ Fail(w)
    PROVE /\ UNCHANGED <<on, job, active, last, jobs>>
          /\ \E x \in Pcs \ {"idle"} : pc' = [pc EXCEPT ![w] = x]
<1>1. CASE Fail(w)
  BY <1>1 DEF Fail, Pcs, tenantVars, localVars
<1>2. CASE Deploy(w)
  BY <1>2 DEF Deploy, ReadCurrent, ReadVersion, RenderRelease, RemoveLink, Symlink, SymlinkExists,
     CreateInstance, StopOld, EnsureVolume, ClearName, RunContainer, RunConflict, RejectNew, StartOld,
     RestoreOld, RemoveOld, RetireOld, PublishNew, Goto, OnlyRows, OnlyDocker, tenantVars, hostVars,
     localVars, counters, Pcs
<1>3. CASE Operate(w)
  BY <1>3 DEF Operate, ReadInstance, StopContainer, StartContainer, RemoveContainer, RemoveVolume,
     RemoveWorkspace, RecordInstance, Goto, OnlyRows, OnlyDocker, tenantVars, hostVars, localVars,
     counters, Pcs
<1>4. CASE Healthy(w) \/ Unhealthy(w) \/ UpdateTenantStatus(w)
  BY <1>4 DEF Healthy, Unhealthy, UpdateTenantStatus, AfterHealthy, Goto, tenantVars, localVars,
     counters, Pcs
<1> QED BY <1>1, <1>2, <1>3, <1>4 DEF Work

(* What happens to the rows of a tenant when one of them is replaced.      *)
LEMMA RowReplaced ==
    ASSUME rows \in [Tenants -> Seq(Rows)], NEW t \in Tenants, NEW i \in Nat, NEW r,
           i \in 1 .. Len(rows[t]) => r \in Rows,
           rows' = [rows EXCEPT ![t] = [rows[t] EXCEPT ![i] = r]]
    PROVE /\ rows' \in [Tenants -> Seq(Rows)]
          /\ \A u \in Tenants : u # t => rows'[u] = rows[u]
          /\ Len(rows'[t]) = Len(rows[t])
          /\ \A k \in 1 .. Len(rows[t]) : rows'[t][k] = IF k = i THEN r ELSE rows[t][k]
<1>1. rows[t] \in Seq(Rows) /\ DOMAIN rows[t] = 1 .. Len(rows[t]) /\ Len(rows[t]) \in Nat
  OBVIOUS
<1>2. CASE i \in 1 .. Len(rows[t])
  <2>1. PICK q : q = [rows[t] EXCEPT ![i] = r]
    OBVIOUS
  <2>2. /\ q \in Seq(Rows) /\ Len(q) = Len(rows[t])
        /\ \A k \in 1 .. Len(rows[t]) : q[k] = IF k = i THEN r ELSE rows[t][k]
    BY <1>1, <1>2, <2>1, ExceptSeq
  <2>3. rows' = [rows EXCEPT ![t] = q]
    BY <2>1
  <2> QED BY <1>2, <2>2, <2>3
<1>3. CASE i \notin 1 .. Len(rows[t])
  <2>1. [rows[t] EXCEPT ![i] = r] = rows[t]
    BY <1>1, <1>3
  <2>2. rows' = rows
    BY <2>1
  <2> QED BY <1>3, <2>2
<1> QED BY <1>2, <1>3

(* UpdateInstanceStatus changes the status of one row ...                  *)
LEMMA SetStatusEffect ==
    ASSUME rows \in [Tenants -> Seq(Rows)], NEW t \in Tenants, NEW i \in Nat, NEW s \in Statuses,
           SetStatus(t, i, s)
    PROVE /\ rows' \in [Tenants -> Seq(Rows)]
          /\ \A u \in Tenants : u # t => rows'[u] = rows[u]
          /\ Len(rows'[t]) = Len(rows[t])
          /\ \A k \in 1 .. Len(rows[t]) :
                /\ rows'[t][k].version = rows[t][k].version
                /\ rows'[t][k].cid = rows[t][k].cid
                /\ rows'[t][k].status = IF k = i THEN s ELSE rows[t][k].status
<1>1. PICK r : r = [rows[t][i] EXCEPT !.status = s]
  OBVIOUS
<1>2. i \in 1 .. Len(rows[t]) =>
         /\ r \in Rows /\ r.version = rows[t][i].version /\ r.cid = rows[t][i].cid /\ r.status = s
  <2>1. i \in 1 .. Len(rows[t]) => rows[t][i] \in Rows
    OBVIOUS
  <2> QED BY <1>1, <2>1 DEF Rows
<1>3. rows' = [rows EXCEPT ![t] = [rows[t] EXCEPT ![i] = r]]
  BY <1>1 DEF SetStatus
<1>4. /\ rows' \in [Tenants -> Seq(Rows)]
      /\ \A u \in Tenants : u # t => rows'[u] = rows[u]
      /\ Len(rows'[t]) = Len(rows[t])
      /\ \A k \in 1 .. Len(rows[t]) : rows'[t][k] = IF k = i THEN r ELSE rows[t][k]
  <2>1. i \in 1 .. Len(rows[t]) => r \in Rows
    BY <1>2
  <2>2. rows \in [Tenants -> Seq(Rows)]
    OBVIOUS
  <2>3. rows' \in [Tenants -> Seq(Rows)]
    BY <1>3, <2>1, <2>2, RowReplaced
  <2>4. \A u \in Tenants : u # t => rows'[u] = rows[u]
    BY <1>3, <2>1, <2>2, RowReplaced
  <2>5. Len(rows'[t]) = Len(rows[t])
    BY <1>3, <2>1, <2>2, RowReplaced
  <2>6. \A k \in 1 .. Len(rows[t]) : rows'[t][k] = IF k = i THEN r ELSE rows[t][k]
    BY <1>3, <2>1, <2>2, RowReplaced
  <2> QED BY <2>3, <2>4, <2>5, <2>6
<1> QED BY <1>2, <1>4

(* ... and UpdateInstanceRunning its status and container id.              *)
LEMMA SetRunningEffect ==
    ASSUME rows \in [Tenants -> Seq(Rows)], NEW t \in Tenants, NEW i \in Nat, NEW c \in Nat,
           SetRunning(t, i, c)
    PROVE /\ rows' \in [Tenants -> Seq(Rows)]
          /\ \A u \in Tenants : u # t => rows'[u] = rows[u]
          /\ Len(rows'[t]) = Len(rows[t])
          /\ \A k \in 1 .. Len(rows[t]) :
                /\ rows'[t][k].version = rows[t][k].version
                /\ rows'[t][k].cid = IF k = i THEN c ELSE rows[t][k].cid
                /\ rows'[t][k].status = IF k = i THEN "running" ELSE rows[t][k].status
<1>1. PICK r : r = [rows[t][i] EXCEPT !.status = "running", !.cid = c]
  OBVIOUS
<1>2. i \in 1 .. Len(rows[t]) =>
         /\ r \in Rows /\ r.version = rows[t][i].version /\ r.cid = c /\ r.status = "running"
  <2>1. i \in 1 .. Len(rows[t]) => rows[t][i] \in Rows
    OBVIOUS
  <2> QED BY <1>1, <2>1 DEF Rows, Statuses
<1>3. rows' = [rows EXCEPT ![t] = [rows[t] EXCEPT ![i] = r]]
  BY <1>1 DEF SetRunning
<1>4. /\ rows' \in [Tenants -> Seq(Rows)]
      /\ \A u \in Tenants : u # t => rows'[u] = rows[u]
      /\ Len(rows'[t]) = Len(rows[t])
      /\ \A k \in 1 .. Len(rows[t]) : rows'[t][k] = IF k = i THEN r ELSE rows[t][k]
  <2>1. i \in 1 .. Len(rows[t]) => r \in Rows
    BY <1>2
  <2>2. rows \in [Tenants -> Seq(Rows)]
    OBVIOUS
  <2>3. rows' \in [Tenants -> Seq(Rows)]
    BY <1>3, <2>1, <2>2, RowReplaced
  <2>4. \A u \in Tenants : u # t => rows'[u] = rows[u]
    BY <1>3, <2>1, <2>2, RowReplaced
  <2>5. Len(rows'[t]) = Len(rows[t])
    BY <1>3, <2>1, <2>2, RowReplaced
  <2>6. \A k \in 1 .. Len(rows[t]) : rows'[t][k] = IF k = i THEN r ELSE rows[t][k]
    BY <1>3, <2>1, <2>2, RowReplaced
  <2> QED BY <2>3, <2>4, <2>5, <2>6
<1> QED BY <1>2, <1>4

-----------------------------------------------------------------------------
(* Types.                                                                  *)

(* What a worker has read are numbers.                                     *)
LEMMA LocalsTyped ==
    ASSUME TypeOK, NEW w \in Workers, Equipped(w), Work(w) \/ Fail(w)
    PROVE /\ cur' \in [Workers -> Nat] /\ new' \in [Workers -> Nat]
          /\ ver' \in [Workers -> Nat] /\ got' \in [Workers -> Nat]
<1>1. /\ cur \in [Workers -> Nat] /\ new \in [Workers -> Nat]
      /\ ver \in [Workers -> Nat] /\ got \in [Workers -> Nat] /\ on[w] \in Tenants
      /\ rows[on[w]] \in Seq(Rows) /\ nextId \in Nat /\ \A n \in Names : docker[n].id \in Nat
  BY DEF TypeOK, Equipped, Rows, Statuses
<1>2. Len(rows[on[w]]) \in Nat
  BY <1>1
<1>3. CASE ReadCurrent(w)
  <2>1. /\ UNCHANGED <<new, ver, got>>
        /\ \E i \in Nat : cur' = [cur EXCEPT ![w] = i]
    BY <1>2, <1>3, Zenon DEF ReadCurrent, Latest
  <2> QED BY <1>1, <2>1
<1>4. CASE ReadInstance(w)
  BY <1>1, <1>2, <1>4 DEF ReadInstance, Latest, tenantVars, hostVars, counters
<1>5. CASE ReadVersion(w)
  BY <1>1, <1>2, <1>5 DEF ReadVersion
<1>6. CASE CreateInstance(w)
  <2>1. UNCHANGED <<cur, ver, got>> /\ new' = [new EXCEPT ![w] = Len(rows[on[w]]) + 1]
    BY <1>6 DEF CreateInstance
  <2> QED BY <1>1, <1>2, <2>1
<1>7. CASE RunContainer(w)
  BY <1>1, <1>7 DEF RunContainer
<1>8. CASE Healthy(w)
  <2>1. \A n \in Inspected(w) : n \in Names
    BY DEF Inspected, Resolve
  <2> QED BY <1>1, <1>8, <2>1 DEF Healthy
<1>9. CASE RenderRelease(w) \/ RemoveLink(w) \/ Symlink(w) \/ SymlinkExists(w) \/ StopOld(w)
           \/ EnsureVolume(w) \/ ClearName(w) \/ RunConflict(w) \/ RejectNew(w) \/ StartOld(w)
           \/ RestoreOld(w) \/ RemoveOld(w) \/ RetireOld(w) \/ PublishNew(w)
  BY <1>1, <1>9 DEF RenderRelease, RemoveLink, Symlink, SymlinkExists, StopOld, EnsureVolume, ClearName,
     RunConflict, RejectNew, StartOld, RestoreOld, RemoveOld, RetireOld, PublishNew, OnlyRows, OnlyDocker,
     localVars
<1>10. CASE StopContainer(w) \/ StartContainer(w) \/ RemoveContainer(w) \/ RemoveVolume(w)
            \/ RemoveWorkspace(w) \/ RecordInstance(w) \/ Unhealthy(w) \/ UpdateTenantStatus(w) \/ Fail(w)
  BY <1>1, <1>10 DEF StopContainer, StartContainer, RemoveContainer, RemoveVolume, RemoveWorkspace,
     RecordInstance, Unhealthy, UpdateTenantStatus, Fail, OnlyRows, OnlyDocker, localVars
<1> QED BY <1>3, <1>4, <1>5, <1>6, <1>7, <1>8, <1>9, <1>10 DEF Work, Deploy, Operate

(* Nobody changes what another worker has read.                            *)
LEMMA OtherLocals ==
    ASSUME TypeOK, NEW w \in Workers, NEW v \in Workers, v # w, Work(w) \/ Fail(w)
    PROVE cur'[v] = cur[v] /\ new'[v] = new[v] /\ ver'[v] = ver[v] /\ got'[v] = got[v]
<1>1. /\ cur \in [Workers -> Nat] /\ new \in [Workers -> Nat]
      /\ ver \in [Workers -> Nat] /\ got \in [Workers -> Nat]
  BY DEF TypeOK
<1>2. CASE ReadCurrent(w) \/ ReadInstance(w) \/ ReadVersion(w)
  BY <1>1, <1>2 DEF ReadCurrent, ReadInstance, ReadVersion
<1>3. CASE CreateInstance(w) \/ RunContainer(w) \/ Healthy(w)
  BY <1>1, <1>3 DEF CreateInstance, RunContainer, Healthy
<1>4. CASE RenderRelease(w) \/ RemoveLink(w) \/ Symlink(w) \/ SymlinkExists(w) \/ StopOld(w)
           \/ EnsureVolume(w) \/ ClearName(w) \/ RunConflict(w) \/ RejectNew(w) \/ StartOld(w)
           \/ RestoreOld(w) \/ RemoveOld(w) \/ RetireOld(w) \/ PublishNew(w)
  BY <1>4 DEF RenderRelease, RemoveLink, Symlink, SymlinkExists, StopOld, EnsureVolume, ClearName,
     RunConflict, RejectNew, StartOld, RestoreOld, RemoveOld, RetireOld, PublishNew, OnlyRows, OnlyDocker,
     localVars
<1>5. CASE StopContainer(w) \/ StartContainer(w) \/ RemoveContainer(w) \/ RemoveVolume(w)
           \/ RemoveWorkspace(w) \/ RecordInstance(w) \/ Unhealthy(w) \/ UpdateTenantStatus(w) \/ Fail(w)
  BY <1>5 DEF StopContainer, StartContainer, RemoveContainer, RemoveVolume, RemoveWorkspace,
     RecordInstance, Unhealthy, UpdateTenantStatus, Fail, OnlyRows, OnlyDocker, localVars
<1> QED BY <1>2, <1>3, <1>4, <1>5 DEF Work, Deploy, Operate

(* Bounds on faults and exits.                                             *)
LEMMA CountersTyped ==
    ASSUME TypeOK, NEW w \in Workers, Work(w) \/ Fail(w)
    PROVE faults' \in 0 .. MaxFaults /\ exits' = exits
<1>1. faults \in 0 .. MaxFaults
  BY DEF TypeOK
<1>2. CASE Deploy(w)
  <2>1. exits' = exits /\ (UNCHANGED faults \/ Fault)
    BY <1>2 DEF Deploy, ReadCurrent, ReadVersion, RenderRelease, RemoveLink, Symlink,
       SymlinkExists, CreateInstance, StopOld, EnsureVolume, ClearName, RunContainer, RunConflict,
       RejectNew, StartOld, RestoreOld, RemoveOld, RetireOld, PublishNew, OnlyRows, OnlyDocker,
       counters, NoFault
  <2> QED BY <1>1, <2>1, Bounds DEF Fault
<1>3. CASE Operate(w)
  BY <1>1, <1>3, Bounds DEF Operate, ReadInstance, StopContainer, StartContainer, RemoveContainer,
     RemoveVolume, RemoveWorkspace, RecordInstance, OnlyRows, OnlyDocker, counters, NoFault
<1>4. CASE Healthy(w) \/ Unhealthy(w) \/ UpdateTenantStatus(w) \/ Fail(w)
  BY <1>1, <1>4, Bounds DEF Healthy, Unhealthy, UpdateTenantStatus, Fail, counters, Fault, NoFault
<1> QED BY <1>2, <1>3, <1>4 DEF Work

(* Four kinds of steps change the rows of the tenant.                      *)
LEMMA RowSteps ==
    ASSUME TypeOK, NEW w \in Workers, Equipped(w), Work(w) \/ Fail(w)
    PROVE \/ rows' = rows
          \/ \E i \in Nat, s \in Statuses : SetStatus(on[w], i, s)
          \/ \E i \in Nat, c \in Nat : SetRunning(on[w], i, c)
          \/ CreateInstance(w)
<1>1. cur[w] \in Nat /\ new[w] \in Nat /\ got[w] \in Nat
  BY DEF TypeOK
<1>2. CASE RejectNew(w) \/ RestoreOld(w) \/ RetireOld(w) \/ PublishNew(w) \/ RecordInstance(w)
  <2>1. CASE RejectNew(w)
    <3>1. SetStatus(on[w], new[w], "failed") \/ rows' = rows
      BY <2>1 DEF RejectNew
    <3> QED BY <1>1, <3>1 DEF Statuses
  <2>2. CASE RestoreOld(w)
    <3>1. SetStatus(on[w], cur[w], "running") \/ rows' = rows
      BY <2>2 DEF RestoreOld
    <3> QED BY <1>1, <3>1 DEF Statuses
  <2>3. CASE RetireOld(w)
    <3>1. SetStatus(on[w], cur[w], "destroyed") \/ rows' = rows
      BY <2>3 DEF RetireOld
    <3> QED BY <1>1, <3>1 DEF Statuses
  <2>4. CASE PublishNew(w)
    BY <1>1, <2>4 DEF PublishNew
  <2>5. CASE RecordInstance(w)
    <3>1. \/ SetStatus(on[w], cur[w], "stopped") \/ SetStatus(on[w], cur[w], "destroyed")
          \/ SetRunning(on[w], cur[w], got[w])
      BY <2>5 DEF RecordInstance
    <3> QED BY <1>1, <3>1 DEF Statuses
  <2> QED BY <1>2, <2>1, <2>2, <2>3, <2>4, <2>5
<1>3. CASE ReadCurrent(w) \/ ReadVersion(w) \/ RenderRelease(w) \/ RemoveLink(w) \/ Symlink(w)
           \/ SymlinkExists(w) \/ StopOld(w) \/ EnsureVolume(w) \/ ClearName(w) \/ RunContainer(w)
           \/ RunConflict(w) \/ StartOld(w) \/ RemoveOld(w)
  BY <1>3 DEF ReadCurrent, ReadVersion, RenderRelease, RemoveLink, Symlink, SymlinkExists, StopOld,
     EnsureVolume, ClearName, RunContainer, RunConflict, StartOld, RemoveOld, OnlyDocker, tenantVars
<1>4. CASE ReadInstance(w) \/ StopContainer(w) \/ StartContainer(w) \/ RemoveContainer(w)
           \/ RemoveVolume(w) \/ RemoveWorkspace(w) \/ Healthy(w) \/ Unhealthy(w)
           \/ UpdateTenantStatus(w) \/ Fail(w)
  BY <1>4 DEF ReadInstance, StopContainer, StartContainer, RemoveContainer, RemoveVolume, RemoveWorkspace,
     Healthy, Unhealthy, UpdateTenantStatus, Fail, OnlyDocker, tenantVars
<1> QED BY <1>2, <1>3, <1>4 DEF Work, Deploy, Operate

(* What docker commands leave behind are containers.                       *)
Containers == [id : Nat, up : BOOLEAN]

LEMMA DockerCommands ==
    ASSUME docker \in [Names -> Containers], NEW S, NEW up \in BOOLEAN, SetUp(S, up) \/ Remove(S)
    PROVE docker' \in [Names -> Containers]
<1>1. \A n \in Names : docker[n] \in Containers /\ [docker[n] EXCEPT !.up = up] \in Containers
  BY DEF Containers
<1>2. Gone \in Containers
  BY DEF Gone, Containers
<1> QED BY <1>1, <1>2 DEF SetUp, Remove

LEMMA DockerTyped ==
    ASSUME TypeOK, NEW w \in Workers, Equipped(w), Work(w) \/ Fail(w)
    PROVE docker' \in [Names -> Containers] /\ nextId' \in Nat \ {0}
<1>1. docker \in [Names -> Containers] /\ nextId \in Nat \ {0} /\ on[w] \in Tenants
  BY DEF TypeOK, Equipped, Containers
<1>2. ASSUME NEW S, NEW up \in BOOLEAN, SetUp(S, up) \/ Remove(S), nextId' = nextId
      PROVE docker' \in [Names -> Containers] /\ nextId' \in Nat \ {0}
  BY <1>1, <1>2, DockerCommands
<1>3. CASE StopOld(w) \/ StopContainer(w) \/ StartOld(w) \/ StartContainer(w)
  <2>1. nextId' = nextId /\ (docker' = docker \/ \E up \in BOOLEAN : SetUp(Resolve(on[w], cur[w]), up))
    BY <1>3 DEF StopOld, StopContainer, StartOld, StartContainer, OnlyDocker
  <2> QED BY <1>1, <1>2, <2>1
<1>4. CASE ClearName(w) \/ RemoveOld(w) \/ RemoveContainer(w)
  <2>1. nextId' = nextId /\ (docker' = docker \/ \E S : Remove(S))
    BY <1>4 DEF ClearName, RemoveOld, RemoveContainer, OnlyDocker
  <2> QED BY <1>1, <1>2, <2>1
<1>5. CASE RunContainer(w)
  <2>1. PICK ok \in BOOLEAN :
           docker' = [docker EXCEPT ![ContainerName[on[w]]] = [id |-> nextId, up |-> ok]]
    BY <1>5 DEF RunContainer
  <2>2. [id |-> nextId, up |-> ok] \in Containers
    BY <1>1 DEF Containers
  <2>3. docker' \in [Names -> Containers]
    BY <1>1, <2>1, <2>2
  <2>4. nextId' = nextId + 1
    BY <1>5 DEF RunContainer
  <2> QED BY <1>1, <2>3, <2>4
<1>6. CASE ReadCurrent(w) \/ ReadVersion(w) \/ RenderRelease(w) \/ RemoveLink(w) \/ Symlink(w)
           \/ SymlinkExists(w) \/ CreateInstance(w) \/ EnsureVolume(w) \/ RunConflict(w)
           \/ RejectNew(w) \/ RestoreOld(w) \/ RetireOld(w) \/ PublishNew(w)
  BY <1>1, <1>6 DEF ReadCurrent, ReadVersion, RenderRelease, RemoveLink, Symlink, SymlinkExists,
     CreateInstance, EnsureVolume, RunConflict, RejectNew, RestoreOld, RetireOld, PublishNew, OnlyRows,
     hostVars
<1>7. CASE ReadInstance(w) \/ RemoveVolume(w) \/ RemoveWorkspace(w) \/ RecordInstance(w)
           \/ Healthy(w) \/ Unhealthy(w) \/ UpdateTenantStatus(w) \/ Fail(w)
  BY <1>1, <1>7 DEF ReadInstance, RemoveVolume, RemoveWorkspace, RecordInstance, Healthy, Unhealthy,
     UpdateTenantStatus, Fail, OnlyRows, hostVars
<1> QED BY <1>3, <1>4, <1>5, <1>6, <1>7 DEF Work, Deploy, Operate

-----------------------------------------------------------------------------
(* Versions.                                                               *)

(* The version a deploy renders is above those of all rows.                *)
VersionIsNew ==
    \A w \in Workers : Rendering(w) =>
        /\ ver[w] # 0
        /\ \A i \in 1 .. Len(rows[on[w]]) : rows[on[w]][i].version < ver[w]

RowInv == TypeOK /\ Owned /\ VersionIsNew /\ VersionsIncrease

(* A deploy that renders has just read its version, or goes on.            *)
LEMMA RenderingGoesOn ==
    ASSUME TypeOK, NEW w \in Workers, Work(w) \/ Fail(w), Rendering(w)'
    PROVE ReadVersion(w) \/ (Rendering(w) /\ UNCHANGED <<ver, rows>>)
<1>1. pc \in [Workers -> Pcs]
  BY DEF TypeOK
<1>2. CASE RenderRelease(w) \/ RemoveLink(w) \/ Symlink(w) \/ SymlinkExists(w)
  BY <1>1, <1>2 DEF Rendering, RenderRelease, RemoveLink, Symlink, SymlinkExists, Goto, tenantVars, localVars
<1>3. CASE ReadVersion(w)
  BY <1>3
<1>4. CASE ReadCurrent(w) \/ CreateInstance(w) \/ StopOld(w) \/ EnsureVolume(w) \/ ClearName(w)
           \/ RunContainer(w) \/ RunConflict(w) \/ RejectNew(w) \/ StartOld(w) \/ RestoreOld(w)
           \/ RemoveOld(w) \/ RetireOld(w) \/ PublishNew(w)
  BY <1>1, <1>4 DEF Rendering, ReadCurrent, CreateInstance, StopOld, EnsureVolume, ClearName, RunContainer,
     RunConflict, RejectNew, StartOld, RestoreOld, RemoveOld, RetireOld, PublishNew, Goto
<1>5. CASE Operate(w)
  BY <1>1, <1>5 DEF Rendering, Operate, ReadInstance, StopContainer, StartContainer, RemoveContainer,
     RemoveVolume, RemoveWorkspace, RecordInstance, Goto
<1>6. CASE Healthy(w) \/ Unhealthy(w) \/ UpdateTenantStatus(w) \/ Fail(w)
  BY <1>1, <1>6 DEF Rendering, Healthy, AfterHealthy, Unhealthy, UpdateTenantStatus, Fail, Goto
<1> QED BY <1>2, <1>3, <1>4, <1>5, <1>6 DEF Work, Deploy

(* The files and the status of the tenant.                                 *)
LEMMA FilesTyped ==
    ASSUME TypeOK, NEW w \in Workers, Equipped(w), Work(w) \/ Fail(w)
    PROVE /\ tstatus' \in [Tenants -> {"draft", "running", "stopped", "ready"}]
          /\ volume' \in [Tenants -> BOOLEAN]
          /\ releases' \in [Tenants -> SUBSET (Nat \ {0})]
          /\ link' \in [Tenants -> Nat]
<1>1. /\ tstatus \in [Tenants -> {"draft", "running", "stopped", "ready"}]
      /\ volume \in [Tenants -> BOOLEAN] /\ releases \in [Tenants -> SUBSET (Nat \ {0})]
      /\ link \in [Tenants -> Nat] /\ on[w] \in Tenants /\ ver[w] \in Nat /\ job[w] \in JobSet
  BY DEF TypeOK, Equipped
<1>2. CASE RenderRelease(w)
  <2>1. ver[w] # 0
    BY <1>2 DEF Equipped, Rendering, RenderRelease, Goto
  <2>2. releases' \in [Tenants -> SUBSET (Nat \ {0})]
    BY <1>1, <1>2, <2>1 DEF RenderRelease
  <2>3. UNCHANGED <<tstatus, volume, link>>
    BY <1>2 DEF RenderRelease, tenantVars
  <2> QED BY <1>1, <2>2, <2>3
<1>3. CASE RemoveLink(w) \/ Symlink(w) \/ RemoveWorkspace(w)
  <2>1. UNCHANGED <<tstatus, volume, releases>> /\ \E v \in Nat : link' = [link EXCEPT ![on[w]] = v]
    <3>1. link[on[w]] \in Nat /\ link = [link EXCEPT ![on[w]] = link[on[w]]]
      BY <1>1
    <3>2. CASE RemoveLink(w)
      BY <3>1, <3>2 DEF RemoveLink, tenantVars
    <3>3. CASE Symlink(w)
      BY <1>1, <3>3 DEF Symlink, tenantVars
    <3>4. CASE RemoveWorkspace(w)
      BY <3>1, <3>4 DEF RemoveWorkspace, tenantVars
    <3> QED BY <1>3, <3>2, <3>3, <3>4
  <2> QED BY <1>1, <2>1
<1>7. CASE EnsureVolume(w) \/ RemoveVolume(w)
  <2>1. UNCHANGED <<tstatus, releases, link>> /\ \E b \in BOOLEAN : volume' = [volume EXCEPT ![on[w]] = b]
    <3>1. CASE EnsureVolume(w)
      BY <3>1 DEF EnsureVolume, tenantVars
    <3>2. CASE RemoveVolume(w)
      <4>1. (volume[on[w]] /\ "volume" \notin job[w].wipe) \in BOOLEAN
        OBVIOUS
      <4>2. /\ UNCHANGED <<tstatus, releases, link>>
            /\ volume' = [volume EXCEPT ![on[w]] = volume[on[w]] /\ "volume" \notin job[w].wipe]
        BY <3>2 DEF RemoveVolume, tenantVars
      <4> QED BY <4>1, <4>2, Zenon
    <3> QED BY <1>7, <3>1, <3>2
  <2> QED BY <1>1, <2>1
<1>4. CASE UpdateTenantStatus(w)
  <2>1. TenantStatus(Type(w)) \in {"draft", "running", "stopped", "ready"}
    BY <1>1, JobTypes DEF TenantStatus, Type, Starts
  <2> QED BY <1>1, <1>4, <2>1 DEF UpdateTenantStatus, hostVars
<1>5. CASE ReadCurrent(w) \/ ReadVersion(w) \/ SymlinkExists(w) \/ CreateInstance(w) \/ StopOld(w)
           \/ ClearName(w) \/ RunContainer(w) \/ RunConflict(w) \/ RejectNew(w) \/ StartOld(w)
           \/ RestoreOld(w) \/ RemoveOld(w) \/ RetireOld(w) \/ PublishNew(w)
  BY <1>1, <1>5 DEF ReadCurrent, ReadVersion, SymlinkExists, CreateInstance, StopOld, ClearName,
     RunContainer, RunConflict, RejectNew, StartOld, RestoreOld, RemoveOld, RetireOld, PublishNew,
     OnlyRows, OnlyDocker, tenantVars, hostVars
<1>6. CASE ReadInstance(w) \/ StopContainer(w) \/ StartContainer(w) \/ RemoveContainer(w)
           \/ RecordInstance(w) \/ Healthy(w) \/ Unhealthy(w) \/ Fail(w)
  BY <1>1, <1>6 DEF ReadInstance, StopContainer, StartContainer, RemoveContainer, RecordInstance,
     Healthy, Unhealthy, Fail, OnlyRows, OnlyDocker, tenantVars, hostVars
<1> QED BY <1>2, <1>3, <1>4, <1>5, <1>6, <1>7 DEF Work, Deploy, Operate

(* The row that is inserted is the last one.                               *)
LEMMA InsertedRow ==
    ASSUME TypeOK, NEW w \in Workers, Equipped(w), CreateInstance(w)
    PROVE /\ rows' \in [Tenants -> Seq(Rows)]
          /\ \A u \in Tenants : u # on[w] => rows'[u] = rows[u]
          /\ Len(rows'[on[w]]) = Len(rows[on[w]]) + 1
          /\ \A k \in 1 .. Len(rows[on[w]]) : rows'[on[w]][k] = rows[on[w]][k]
          /\ rows'[on[w]][Len(rows[on[w]]) + 1] = InstanceRow("creating", ver[w])
<1>1. /\ rows \in [Tenants -> Seq(Rows)] /\ on[w] \in Tenants /\ ver[w] \in Nat
  BY DEF TypeOK, Equipped, Rows, Statuses
<1>2. rows[on[w]] \in Seq(Rows)
  BY <1>1
<1>3. InstanceRow("creating", ver[w]) \in Rows
  BY <1>1 DEF Equipped, Rendering, CreateInstance, Goto, InstanceRow, Rows, Statuses
<1>4. PICK q : q = Append(rows[on[w]], InstanceRow("creating", ver[w]))
  OBVIOUS
<1>5. /\ q \in Seq(Rows) /\ Len(q) = Len(rows[on[w]]) + 1
      /\ \A k \in 1 .. Len(rows[on[w]]) : q[k] = rows[on[w]][k]
      /\ q[Len(rows[on[w]]) + 1] = InstanceRow("creating", ver[w])
  BY <1>2, <1>3, <1>4, AppendProperties
<1>6. rows' = [rows EXCEPT ![on[w]] = q]
  BY <1>4 DEF CreateInstance
<1> QED BY <1>1, <1>5, <1>6

(* No step of a handler takes a row or a version away.                     *)
LEMMA RowEffect ==
    ASSUME TypeOK, NEW w \in Workers, Equipped(w), Work(w) \/ Fail(w)
    PROVE \/ rows' = rows
          \/ /\ rows' \in [Tenants -> Seq(Rows)]
             /\ \A u \in Tenants : u # on[w] => rows'[u] = rows[u]
             /\ Len(rows'[on[w]]) = Len(rows[on[w]])
             /\ \A k \in 1 .. Len(rows[on[w]]) : rows'[on[w]][k].version = rows[on[w]][k].version
          \/ CreateInstance(w)
<1>1. rows \in [Tenants -> Seq(Rows)] /\ on[w] \in Tenants
  BY DEF TypeOK, Equipped, Rows, Statuses
<1>2. ASSUME NEW i \in Nat, NEW s \in Statuses, SetStatus(on[w], i, s)
      PROVE /\ rows' \in [Tenants -> Seq(Rows)]
            /\ \A u \in Tenants : u # on[w] => rows'[u] = rows[u]
            /\ Len(rows'[on[w]]) = Len(rows[on[w]])
            /\ \A k \in 1 .. Len(rows[on[w]]) : rows'[on[w]][k].version = rows[on[w]][k].version
  BY <1>1, <1>2, SetStatusEffect
<1>3. ASSUME NEW i \in Nat, NEW c \in Nat, SetRunning(on[w], i, c)
      PROVE /\ rows' \in [Tenants -> Seq(Rows)]
            /\ \A u \in Tenants : u # on[w] => rows'[u] = rows[u]
            /\ Len(rows'[on[w]]) = Len(rows[on[w]])
            /\ \A k \in 1 .. Len(rows[on[w]]) : rows'[on[w]][k].version = rows[on[w]][k].version
  BY <1>1, <1>3, SetRunningEffect
<1> QED BY <1>2, <1>3, RowSteps

(* A step of a handler keeps the types, whoever else is at work.           *)
LEMMA WorkKeepsTypes ==
    ASSUME TypeOK, NEW w \in Workers, pc[w] # "idle", Equipped(w), Work(w) \/ Fail(w)
    PROVE TypeOK'
<1>1. PICK x \in Pcs \ {"idle"} : pc' = [pc EXCEPT ![w] = x]
  BY WorkFrame
<1>2. UNCHANGED <<on, job, active, last, jobs>>
  BY WorkFrame
<1>3. rows' \in [Tenants -> Seq(Rows)]
  <2>1. rows \in [Tenants -> Seq(Rows)]
    BY DEF TypeOK, Rows, Statuses
  <2> QED BY <2>1, RowEffect, InsertedRow
<1>4. pc' \in [Workers -> Pcs]
  BY <1>1 DEF TypeOK
<1> QED BY <1>2, <1>3, <1>4, LocalsTyped, CountersTyped, DockerTyped, FilesTyped
    DEF TypeOK, Rows, Statuses, Containers

(* The release is added before the link, and the row comes after both.     *)
LEMMA FileSteps ==
    ASSUME TypeOK, NEW w \in Workers, Equipped(w), Work(w) \/ Fail(w)
    PROVE /\ \/ releases' = releases
             \/ pc[w] = "render" /\ releases' = [releases EXCEPT ![on[w]] = @ \cup {ver[w]}]
          /\ \/ link' = link
             \/ link' = [link EXCEPT ![on[w]] = 0]
             \/ pc[w] = "link" /\ link' = [link EXCEPT ![on[w]] = ver[w]]
          /\ pc'[w] \in {"unlink", "link", "insert"} =>
                /\ ver' = ver /\ pc[w] \in {"render", "unlink", "link"}
                /\ pc[w] = "render" => releases' = [releases EXCEPT ![on[w]] = @ \cup {ver[w]}]
<1>1. pc \in [Workers -> Pcs] /\ link \in [Tenants -> Nat]
  BY DEF TypeOK
<1>2. CASE RenderRelease(w)
  BY <1>1, <1>2 DEF RenderRelease, Goto, localVars
<1>3. CASE RemoveLink(w) \/ Symlink(w) \/ SymlinkExists(w)
  BY <1>1, <1>3 DEF RemoveLink, Symlink, SymlinkExists, Goto, localVars, hostVars
<1>4. CASE RemoveWorkspace(w)
  BY <1>1, <1>4 DEF RemoveWorkspace, Goto
<1>5. CASE CreateInstance(w) \/ ReadCurrent(w) \/ ReadVersion(w) \/ RunConflict(w)
           \/ EnsureVolume(w) \/ RunContainer(w) \/ ReadInstance(w) \/ RemoveVolume(w)
  BY <1>1, <1>5 DEF CreateInstance, ReadCurrent, ReadVersion, RunConflict, EnsureVolume, RunContainer,
     ReadInstance, RemoveVolume, Goto, hostVars
<1>6. CASE StopOld(w) \/ ClearName(w) \/ StartOld(w) \/ RemoveOld(w)
           \/ StopContainer(w) \/ StartContainer(w) \/ RemoveContainer(w)
  BY <1>1, <1>6 DEF StopOld, ClearName, StartOld, RemoveOld, StopContainer, StartContainer,
     RemoveContainer, Goto, OnlyDocker
<1>7. CASE RejectNew(w) \/ RestoreOld(w) \/ RetireOld(w) \/ PublishNew(w) \/ RecordInstance(w)
  BY <1>1, <1>7 DEF RejectNew, RestoreOld, RetireOld, PublishNew, RecordInstance, Goto, OnlyRows, hostVars
<1>8. CASE Healthy(w) \/ Unhealthy(w) \/ UpdateTenantStatus(w) \/ Fail(w)
  BY <1>1, <1>8 DEF Healthy, AfterHealthy, Unhealthy, UpdateTenantStatus, Fail, Goto, hostVars
<1> QED BY <1>2, <1>3, <1>4, <1>5, <1>6, <1>7, <1>8 DEF Work, Deploy, Operate

(* Under RowInv a worker has what it needs.                                *)
LEMMA Equipment ==
    ASSUME RowInv, NEW w \in Workers, pc[w] # "idle"
    PROVE Equipped(w)
BY DEF RowInv, TypeOK, Owned, VersionIsNew, Rendering, Equipped

(* A step of a handler keeps RowInv.                                       *)
LEMMA WorkKeepsRowInv ==
    ASSUME RowInv, NEW w \in Workers, pc[w] # "idle", Work(w) \/ Fail(w)
    PROVE RowInv'
<1> USE DEF RowInv
<1>1. PICK x \in Pcs \ {"idle"} : pc' = [pc EXCEPT ![w] = x]
  BY WorkFrame
<1>2. UNCHANGED <<on, job, active, last, jobs>>
  BY WorkFrame
<1>3. /\ rows \in [Tenants -> Seq(Rows)] /\ pc \in [Workers -> Pcs] /\ ver \in [Workers -> Nat]
      /\ on \in [Workers -> Tenants \cup {NoTenant}] /\ on[w] \in Tenants
  BY DEF TypeOK, Owned, Rows, Statuses
<1>4. /\ \A u \in Tenants : Len(rows[u]) \in Nat /\ DOMAIN rows[u] = 1 .. Len(rows[u])
      /\ \A u \in Tenants : \A k \in 1 .. Len(rows[u]) : rows[u][k].version \in Nat
  <2>1. ASSUME NEW u \in Tenants PROVE rows[u] \in Seq(Rows)
    BY <1>3
  <2>2. ASSUME NEW u \in Tenants, NEW k \in 1 .. Len(rows[u]) PROVE rows[u][k].version \in Nat
    <3>1. rows[u][k] \in Rows
      BY <2>1
    <3> QED BY <3>1 DEF Rows
  <2> QED BY <2>1, <2>2
<1>5. \/ rows' = rows
      \/ /\ rows' \in [Tenants -> Seq(Rows)]
         /\ \A u \in Tenants : u # on[w] => rows'[u] = rows[u]
         /\ Len(rows'[on[w]]) = Len(rows[on[w]])
         /\ \A k \in 1 .. Len(rows[on[w]]) : rows'[on[w]][k].version = rows[on[w]][k].version
      \/ CreateInstance(w)
  BY Equipment, RowEffect
<1>6. rows' \in [Tenants -> Seq(Rows)]
  BY <1>3, <1>5, Equipment, InsertedRow
<1>7. TypeOK'
  BY Equipment, WorkKeepsTypes
<1>8. Owned'
  BY <1>1, <1>2, <1>3 DEF Owned
<1>9. \A u \in Tenants : Len(rows'[u]) \in Nat /\ DOMAIN rows'[u] = 1 .. Len(rows'[u])
  BY <1>6
<1>10. VersionsIncrease'
  <2>1. CASE rows' = rows
    BY <2>1 DEF VersionsIncrease
  <2>2. CASE CreateInstance(w)
    <3>1. /\ \A u \in Tenants : u # on[w] => rows'[u] = rows[u]
          /\ Len(rows'[on[w]]) = Len(rows[on[w]]) + 1
          /\ \A k \in 1 .. Len(rows[on[w]]) : rows'[on[w]][k] = rows[on[w]][k]
          /\ rows'[on[w]][Len(rows[on[w]]) + 1] = InstanceRow("creating", ver[w])
      BY <2>2, Equipment, InsertedRow
    <3>2. \A k \in 1 .. Len(rows[on[w]]) : rows[on[w]][k].version < ver[w]
      BY <2>2 DEF CreateInstance, Goto, VersionIsNew, Rendering
    <3>3. rows'[on[w]][Len(rows[on[w]]) + 1].version = ver[w]
      BY <3>1 DEF InstanceRow
    <3>4. ASSUME NEW i \in 1 .. Len(rows'[on[w]]), NEW k \in 1 .. Len(rows'[on[w]]), i < k
          PROVE rows'[on[w]][i].version < rows'[on[w]][k].version
      <4>1. i \in 1 .. Len(rows[on[w]])
        BY <1>3, <1>4, <3>1, <3>4
      <4>2. CASE k = Len(rows[on[w]]) + 1
        BY <3>1, <3>2, <3>3, <4>1, <4>2
      <4>3. CASE k \in 1 .. Len(rows[on[w]])
        BY <1>3, <1>4, <3>1, <3>4, <4>1, <4>3 DEF VersionsIncrease
      <4> QED BY <1>3, <1>4, <3>1, <4>2, <4>3
    <3> QED BY <1>3, <1>4, <1>9, <3>1, <3>4 DEF VersionsIncrease
  <2>3. CASE /\ \A u \in Tenants : u # on[w] => rows'[u] = rows[u]
             /\ Len(rows'[on[w]]) = Len(rows[on[w]])
             /\ \A k \in 1 .. Len(rows[on[w]]) : rows'[on[w]][k].version = rows[on[w]][k].version
    BY ZenonT(60), <1>3, <1>4, <1>9, <2>3 DEF VersionsIncrease
  <2> QED BY <1>5, <2>1, <2>2, <2>3
<1>11. VersionIsNew'
  <2>1. ASSUME Rendering(w)'
        PROVE ver'[w] # 0 /\ \A i \in 1 .. Len(rows'[on[w]]) : rows'[on[w]][i].version < ver'[w]
    <3>1. CASE ReadVersion(w)
      <4>1. PICK v \in 1 .. Len(rows[on[w]]) + 1 : IsNextVersion(on[w], v) /\ ver' = [ver EXCEPT ![w] = v]
        BY <3>1 DEF ReadVersion
      <4>2. rows' = rows /\ ver'[w] = v
        BY <1>3, <3>1, <4>1 DEF ReadVersion, tenantVars
      <4>3. \A i \in 1 .. Len(rows[on[w]]) : rows[on[w]][i].version < v
        BY <1>3, <1>4, <4>1 DEF IsNextVersion, Versions
      <4> QED BY <1>3, <1>4, <4>1, <4>2, <4>3
    <3>2. CASE Rendering(w) /\ UNCHANGED <<ver, rows>>
      BY <3>2 DEF VersionIsNew
    <3> QED BY <2>1, <3>1, <3>2, RenderingGoesOn
  <2>2. ASSUME NEW v \in Workers, v # w, Rendering(v)'
        PROVE ver'[v] # 0 /\ \A i \in 1 .. Len(rows'[on[v]]) : rows'[on[v]][i].version < ver'[v]
    <3>1. Rendering(v) /\ on[v] \in Tenants /\ on[v] # on[w]
      BY <1>1, <1>3, <2>2, NoTenantAssumption DEF Rendering, Owned
    <3>2. rows'[on[v]] = rows[on[v]]
      BY <1>5, <3>1, Equipment, InsertedRow
    <3>3. ver'[v] = ver[v]
      BY <1>3, <2>2, OtherLocals
    <3> QED BY <3>1, <3>2, <3>3 DEF VersionIsNew
  <2> QED BY <1>2, <2>1, <2>2 DEF VersionIsNew
<1> QED BY <1>7, <1>8, <1>10, <1>11

(* So does a worker that leaves its job, finished or not, ...              *)
LEMMA LeaveKeepsRowInv ==
    ASSUME RowInv, NEW w \in Workers, pc[w] # "idle", Finish(w) \/ Crash(w)
    PROVE RowInv'
<1> USE DEF RowInv
<1>1. /\ UNCHANGED <<rows, tstatus, hostVars, jobs, exits>>
      /\ Leave(w)
  BY DEF Finish, Crash, tenantVars, counters
<1>2. on[w] \in Tenants /\ job[w] \in JobSet
  BY DEF TypeOK, Owned
<1>3. on' = [on EXCEPT ![w] = NoTenant] /\ pc' = [pc EXCEPT ![w] = "idle"] /\ ver' = [ver EXCEPT ![w] = 0]
  BY <1>1 DEF Leave
<1>4. \/ active' = active
      \/ active' = [active EXCEPT ![on[w]] = NoJob]
  BY DEF Finish, Crash, tenantVars
<1>5. TypeOK'
  <2>1. active' \in [Tenants -> JobSet \cup {NoJob}]
    BY <1>2, <1>4 DEF TypeOK
  <2>2. last' \in [Tenants -> [job : JobSet \cup {NoJob}, ok : BOOLEAN]]
    <3>1. CASE last' = last
      BY <3>1 DEF TypeOK
    <3>2. CASE Remember(w, pc[w] = "done")
      <4>1. PICK b \in BOOLEAN : b = (pc[w] = "done")
        OBVIOUS
      <4>2. [job |-> job[w], ok |-> b] \in [job : JobSet \cup {NoJob}, ok : BOOLEAN]
        BY <1>2
      <4>3. last' = [last EXCEPT ![on[w]] = [job |-> job[w], ok |-> b]]
        BY <3>2, <4>1 DEF Remember
      <4> QED BY <1>2, <4>2, <4>3 DEF TypeOK
    <3> QED BY <3>1, <3>2 DEF Finish, Crash, tenantVars
  <2>3. pc' \in [Workers -> Pcs] /\ on' \in [Workers -> Tenants \cup {NoTenant}]
    BY <1>3 DEF TypeOK, Pcs
  <2>4. job' \in [Workers -> JobSet \cup {NoJob}]
    BY <1>1 DEF Leave, TypeOK
  <2>5. {cur, new, ver, got}' \subseteq [Workers -> Nat]
    BY <1>1 DEF Leave, TypeOK
  <2>6. faults' \in 0 .. MaxFaults
    BY Bounds DEF Finish, Crash, Fault, counters, TypeOK
  <2> QED BY <1>1, <2>1, <2>2, <2>3, <2>4, <2>5, <2>6 DEF TypeOK, hostVars
<1>6. Owned'
  <2>1. \A v \in Workers : v # w => job'[v] = job[v]
    BY <1>1 DEF Leave, TypeOK
  <2>2. \A v \in Workers : v # w /\ pc[v] # "idle" => active'[on[v]] = active[on[v]]
    BY <1>2, <1>4, NoTenantAssumption DEF Owned, TypeOK
  <2>3. /\ pc'[w] = "idle" /\ on'[w] = NoTenant
        /\ \A v \in Workers : v # w => pc'[v] = pc[v] /\ on'[v] = on[v]
    BY <1>3 DEF TypeOK
  <2> QED BY <1>2, <2>1, <2>2, <2>3 DEF Owned
<1>7. VersionsIncrease'
  BY <1>1 DEF VersionsIncrease
<1>8. VersionIsNew'
  BY <1>1, <1>3 DEF VersionIsNew, Rendering, TypeOK
<1> QED BY <1>5, <1>6, <1>7, <1>8

(* ... a job that is admitted or begun, and a container that exits.        *)
LEMMA QueueKeepsRowInv ==
    ASSUME RowInv,
           \/ \E t \in Tenants, j \in JobSet : Enqueue(t, j)
           \/ \E w \in Workers, t \in Tenants : Begin(w, t)
           \/ \E n \in Names : ContainerExits(n)
    PROVE RowInv'
<1> USE DEF RowInv
<1>1. ASSUME NEW t \in Tenants, NEW j \in JobSet, Enqueue(t, j) PROVE RowInv'
  <2>1. TypeOK'
    BY SMTT(40), <1>1, Bounds DEF TypeOK, Enqueue, hostVars, localVars
  <2>2. Owned'
    BY <1>1, JobTypes DEF Owned, TypeOK, Enqueue, localVars
  <2>3. VersionsIncrease' /\ VersionIsNew'
    BY <1>1 DEF VersionsIncrease, VersionIsNew, Rendering, Enqueue, localVars
  <2> QED BY <2>1, <2>2, <2>3
<1>2. ASSUME NEW w \in Workers, NEW t \in Tenants, Begin(w, t) PROVE RowInv'
  <2>1. TypeOK'
    <3>1. /\ pc' = [pc EXCEPT ![w] = "read"]
          /\ on' = [on EXCEPT ![w] = t]
          /\ job' = [job EXCEPT ![w] = active[t]]
          /\ UNCHANGED <<rows, tstatus, docker, nextId, volume, releases, link, active, last,
                         cur, new, ver, got, jobs, faults, exits>>
      BY <1>2 DEF Begin, Start, tenantVars, hostVars, counters
    <3>2. /\ pc' \in [Workers -> Pcs] /\ on' \in [Workers -> Tenants \cup {NoTenant}]
          /\ job' \in [Workers -> JobSet \cup {NoJob}]
      BY <3>1 DEF TypeOK, Pcs
    <3> QED BY <3>1, <3>2 DEF TypeOK
  <2>2. Owned'
    <3>1. /\ pc[w] = "idle" /\ active[t] # NoJob /\ active' = active
          /\ \A v \in Workers : on[v] # t
          /\ pc' = [pc EXCEPT ![w] = "read"]
          /\ on' = [on EXCEPT ![w] = t]
          /\ job' = [job EXCEPT ![w] = active[t]]
      BY <1>2 DEF Begin, Start, tenantVars
    <3>2. /\ pc'[w] = "read" /\ on'[w] = t /\ job'[w] = active[t] /\ active[t] \in JobSet
          /\ \A v \in Workers : v # w => pc'[v] = pc[v] /\ on'[v] = on[v] /\ job'[v] = job[v]
      BY <3>1 DEF TypeOK
    <3> QED BY <3>1, <3>2, NoTenantAssumption DEF Owned
  <2>3. VersionsIncrease' /\ VersionIsNew'
    BY <1>2 DEF VersionsIncrease, VersionIsNew, Rendering, TypeOK, Begin, Start, tenantVars
  <2> QED BY <2>1, <2>2, <2>3
<1>3. ASSUME NEW n \in Names, ContainerExits(n) PROVE RowInv'
  <2>1. docker' \in [Names -> Containers]
    BY <1>3, DockerCommands DEF ContainerExits, TypeOK, Containers
  <2>2. exits' \in 0 .. MaxExits
    BY <1>3, Bounds DEF ContainerExits, TypeOK
  <2>3. UNCHANGED <<tenantVars, nextId, volume, releases, link, pc, localVars, jobs, faults>>
    BY <1>3 DEF ContainerExits
  <2>4. TypeOK'
    BY <2>1, <2>2, <2>3 DEF TypeOK, Containers, tenantVars, localVars
  <2>5. Owned' /\ VersionsIncrease' /\ VersionIsNew'
    BY <2>3 DEF Owned, VersionsIncrease, VersionIsNew, Rendering, tenantVars, localVars
  <2> QED BY <2>4, <2>5
<1> QED BY <1>1, <1>2, <1>3

(* It holds at the beginning, and when nothing happens.                    *)
LEMMA InitRowInv == ASSUME Init PROVE RowInv
<1>1. rows \in [Tenants -> Seq(Rows)] /\ \A t \in Tenants : rows[t] = <<>>
  BY DEF Init
<1>2. TypeOK
  BY <1>1, Bounds DEF Init, TypeOK, Rows, Statuses, Gone, Pcs
<1>3. Owned
  BY DEF Init, Owned
<1>4. VersionsIncrease /\ VersionIsNew
  BY <1>1 DEF Init, VersionsIncrease, VersionIsNew, Rendering
<1> QED BY <1>2, <1>3, <1>4 DEF RowInv

LEMMA RowInvStutters == ASSUME RowInv, UNCHANGED vars PROVE RowInv'
BY DEF vars, tenantVars, hostVars, localVars, counters, RowInv, TypeOK, Owned, VersionsIncrease,
   VersionIsNew, Rendering

(* RowInv is an inductive invariant, also when tenants share a name.       *)
THEOREM RowInvariant == Spec => []RowInv
<1>1. Init => RowInv
  BY InitRowInv
<1>2. RowInv /\ [Next]_vars => RowInv'
  BY RowInvStutters, WorkKeepsRowInv, LeaveKeepsRowInv, QueueKeepsRowInv DEF Next, Rest
<1> QED BY <1>1, <1>2, PTL DEF Spec

(* Every variable has its type.                                            *)
THEOREM TypeCorrect == Spec => []TypeOK
  BY RowInvariant, PTL DEF RowInv

(* The versions of a tenant grow with its rows, whatever fails, dies and   *)
(* is executed again.                                                      *)
THEOREM VersionsAlwaysIncrease == Spec => []VersionsIncrease
  BY RowInvariant, PTL DEF RowInv

=============================================================================
