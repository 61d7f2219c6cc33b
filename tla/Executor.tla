------------------------------ MODULE Executor ------------------------------
(***************************************************************************)
(* What a lifecycle job does to a tenant: internal/jobs/executor.go over   *)
(* the Docker client of internal/docker and the tables tenant_instances    *)
(* and tenants.  Every SQL statement, docker command and change of the     *)
(* file system is a step of its own; after any of them the worker may die, *)
(* and the job, which stays active, is executed again from the start.      *)
(*                                                                         *)
(* The queue is reduced to what JobQueue guarantees when heartbeats come   *)
(* in time and requests do not race: a tenant has one active job and one   *)
(* worker executes it.                                                     *)
(***************************************************************************)
EXTENDS Integers, Sequences, FiniteSets

CONSTANTS
    Tenants, Workers,
    Names,          \* names of containers
    ContainerName,  \* containerNameForTenant: distinct slugs may share a name
    NoTenant,
    MaxJobs,        \* bound: lifecycle jobs ever enqueued
    MaxFaults,      \* bound: commands that fail and workers that die
    MaxExits        \* bound: containers that exit on their own

ASSUME ContainerNameAssumption == ContainerName \in [Tenants -> Names]
ASSUME NoTenantAssumption == NoTenant \notin Tenants
ASSUME BoundsAssumption == {MaxJobs, MaxFaults, MaxExits} \subseteq Nat

(* Job types and, for a destroy, what it is to delete with the container.  *)
Starts == {"start", "restart"}
JobSet == [type : {"deploy", "stop"} \cup Starts, wipe : {{}}]
             \cup [type : {"destroy"}, wipe : SUBSET {"volume", "workspace"}]
NoJob == [type |-> "none", wipe |-> {}]

(* Ids of containers count from 1; 0 is a NULL container_id, or no         *)
(* container under a name.                                                 *)
Gone == [id |-> 0, up |-> FALSE]

VARIABLES
    rows,      \* tenant_instances of a tenant by created_at
    tstatus,   \* tenants.status
    docker,    \* the container under each name
    nextId,    \* next container id
    volume,    \* does the tenant's volume exist?
    releases,  \* config versions under the tenant's directory releases
    link,      \* the release its link "current" points to, 0 for none
    active,    \* the active job of the tenant
    last,      \* history: the last finished job and whether it succeeded
    pc, on,    \* a worker's next step and the tenant it works on
    job,       \* the job it was given
    cur,       \* the row it read as current (deploy: 0 unless hasCurrent)
    new,       \* the row a deploy inserted
    ver, got,  \* configVersion, and the container id the health check read
    jobs, faults, exits

tenantVars == <<rows, tstatus, active, last>>
hostVars == <<docker, nextId, volume, releases, link>>
localVars == <<on, job, cur, new, ver, got>>
counters == <<jobs, faults, exits>>
vars == <<tenantVars, hostVars, pc, localVars, counters>>

-----------------------------------------------------------------------------
Versions(t) == {rows[t][i].version : i \in DOMAIN rows[t]}

(* Mutant: MAX(config_version) without the + 1, once there is a row.       *)
IsLastVersion(t, v) ==
    /\ v \in Versions(t) \cup {1}
    /\ \A u \in Versions(t) : u <= v

(* NextConfigVersion: COALESCE(MAX(config_version), 0) + 1.                *)
IsNextVersion(t, v) ==
    /\ v - 1 \in Versions(t) \cup {0}
    /\ \A u \in Versions(t) : u < v

(* Mutant: the latest row that has a container id.                         *)
LatestWithContainer(t) ==
    LET ids == {i \in DOMAIN rows[t] : rows[t][i].cid # 0} IN
    IF ids = {} THEN Len(rows[t]) ELSE CHOOSE i \in ids : \A k \in ids : k <= i

(* GetCurrentTenantInstance: the latest row, 0 if there is none.           *)
Latest(t) == Len(rows[t])

(* Mutant: no fallback to the name of the container.                       *)
ResolveId(t, i) == {n \in Names : docker[n].id # 0 /\ docker[n].id = rows[t][i].cid}

(* containerRef: the name (at most one) docker resolves a row's reference  *)
(* to, by the container id of the row if it has one, else by name.         *)
Resolve(t, i) ==
    LET cid == rows[t][i].cid IN
    {n \in Names : /\ docker[n].id # 0
                   /\ IF cid # 0 THEN docker[n].id = cid ELSE n = ContainerName[t]}

InstanceRow(s, v) == [status |-> s, cid |-> 0, version |-> v]

Init ==
    /\ rows = [t \in Tenants |-> <<>>]
    /\ tstatus = [t \in Tenants |-> "draft"]
    /\ docker = [n \in Names |-> Gone]
    /\ nextId = 1
    /\ volume = [t \in Tenants |-> FALSE]
    /\ releases = [t \in Tenants |-> {}]
    /\ link = [t \in Tenants |-> 0]
    /\ active = [t \in Tenants |-> NoJob]
    /\ last = [t \in Tenants |-> [job |-> NoJob, ok |-> FALSE]]
    /\ pc = [w \in Workers |-> "idle"]
    /\ on = [w \in Workers |-> NoTenant]
    /\ job = [w \in Workers |-> NoJob]
    /\ cur = [w \in Workers |-> 0]
    /\ new = [w \in Workers |-> 0]
    /\ ver = [w \in Workers |-> 0]
    /\ got = [w \in Workers |-> 0]
    /\ jobs = 0 /\ faults = 0 /\ exits = 0

-----------------------------------------------------------------------------
(* The queue.                                                              *)

(* A job is admitted: stop, start, restart and destroy need an instance.   *)
Enqueue(t, j) ==
    /\ jobs < MaxJobs /\ jobs' = jobs + 1
    /\ active[t] = NoJob
    /\ j.type # "deploy" => rows[t] # <<>>
    /\ active' = [active EXCEPT ![t] = j]
    /\ UNCHANGED <<rows, tstatus, last, hostVars, pc, localVars, faults, exits>>

(* A worker starts on a job of a tenant.                                   *)
Start(w, t, j) ==
    /\ pc[w] = "idle"
    /\ pc' = [pc EXCEPT ![w] = "read"]
    /\ on' = [on EXCEPT ![w] = t]
    /\ job' = [job EXCEPT ![w] = j]
    /\ UNCHANGED <<cur, new, ver, got>>

(* It claims the active job, for the first time or again.                  *)
Begin(w, t) ==
    /\ active[t] # NoJob
    /\ \A v \in Workers : on[v] # t
    /\ Start(w, t, active[t])
    /\ UNCHANGED <<tenantVars, hostVars, counters>>

Type(w) == job[w].type

Fault == faults < MaxFaults /\ faults' = faults + 1
NoFault == faults' = faults

Goto(w, from, to) == pc[w] = from /\ pc' = [pc EXCEPT ![w] = to]

(* The worker is done with the job, or gone: it forgets all it has read.   *)
Leave(w) ==
    /\ pc' = [pc EXCEPT ![w] = "idle"]
    /\ on' = [on EXCEPT ![w] = NoTenant]
    /\ job' = [job EXCEPT ![w] = NoJob]
    /\ cur' = [cur EXCEPT ![w] = 0]
    /\ new' = [new EXCEPT ![w] = 0]
    /\ ver' = [ver EXCEPT ![w] = 0]
    /\ got' = [got EXCEPT ![w] = 0]

Remember(w, ok) == last' = [last EXCEPT ![on[w]] = [job |-> job[w], ok |-> ok]]

(* MarkJobSucceeded, MarkJobFailed.                                        *)
Finish(w) ==
    /\ pc[w] \in {"done", "failed"}
    /\ active' = [active EXCEPT ![on[w]] = NoJob]
    /\ Remember(w, pc[w] = "done")
    /\ Leave(w)
    /\ UNCHANGED <<rows, tstatus, hostVars, counters>>

(* The worker dies, or cannot report: the job stays active.                *)
Crash(w) ==
    /\ Fault
    /\ pc[w] # "idle"
    /\ Leave(w)
    /\ UNCHANGED <<tenantVars, hostVars, jobs, exits>>

(* A statement, a file operation or a docker command returns an error the  *)
(* handler returns as well.  The failure of a deploy's container is in     *)
(* RejectNew.                                                              *)
Fail(w) ==
    /\ Fault
    /\ \/ /\ pc[w] \in {"read", "version", "render", "link", "insert", "publish", "status",
                        "act", "volume", "workspace", "record"}
          /\ pc' = [pc EXCEPT ![w] = "failed"]
       \/ /\ pc[w] \in {"volumes", "clear", "run"}
          /\ pc' = [pc EXCEPT ![w] = "reject"]
    /\ UNCHANGED <<tenantVars, hostVars, localVars, jobs, exits>>

-----------------------------------------------------------------------------
(* Changes of the tables and of Docker.                                    *)

SetStatus(t, i, s) == rows' = [rows EXCEPT ![t][i].status = s]

(* UpdateInstanceRunning.                                                  *)
SetRunning(t, i, cid) ==
    rows' = [rows EXCEPT ![t][i] = [@ EXCEPT !.status = "running", !.cid = cid]]

(* docker stop, start and rm -f of the containers under names S.           *)
SetUp(S, up) == docker' = [n \in Names |-> IF n \in S THEN [docker[n] EXCEPT !.up = up]
                                                      ELSE docker[n]]
Remove(S) == docker' = [n \in Names |-> IF n \in S THEN Gone ELSE docker[n]]

OnlyRows == UNCHANGED <<tstatus, active, last, hostVars, localVars, jobs, exits>>
OnlyDocker == UNCHANGED <<tenantVars, nextId, volume, releases, link, localVars, jobs, exits>>

-----------------------------------------------------------------------------
(* handleDeploy, for deploy and redeploy.                                  *)

(* GetCurrentTenantInstance; hasCurrent is whether the row it returns has  *)
(* a container id.  An error counts as no current instance.                *)
ReadCurrent(w) ==
    /\ Type(w) = "deploy"
    /\ Goto(w, "read", "version")
    /\ LET i == Latest(on[w]) IN
       \/ /\ NoFault
          /\ cur' = [cur EXCEPT ![w] = IF i # 0 /\ rows[on[w]][i].cid # 0 THEN i ELSE 0]
       \/ Fault /\ cur' = [cur EXCEPT ![w] = 0]
    /\ UNCHANGED <<tenantVars, hostVars, on, job, new, ver, got, jobs, exits>>

ReadVersion(w) ==
    /\ Goto(w, "version", "render")
    /\ \E v \in 1 .. Len(rows[on[w]]) + 1 :
          IsNextVersion(on[w], v) /\ ver' = [ver EXCEPT ![w] = v]
    /\ UNCHANGED <<tenantVars, hostVars, on, job, cur, new, got, counters>>

(* renderWorkspace: the files of the release, then the link is removed (an *)
(* error of that is ignored) and made, which fails if it is still there.   *)
RenderRelease(w) ==
    /\ Goto(w, "render", "unlink")
    /\ releases' = [releases EXCEPT ![on[w]] = @ \cup {ver[w]}]
    /\ UNCHANGED <<tenantVars, docker, nextId, volume, link, localVars, counters>>

RemoveLink(w) ==
    /\ Goto(w, "unlink", "link")
    /\ \/ NoFault /\ link' = [link EXCEPT ![on[w]] = 0]
       \/ Fault /\ UNCHANGED link
    /\ UNCHANGED <<tenantVars, docker, nextId, volume, releases, localVars, jobs, exits>>

Symlink(w) ==
    /\ Goto(w, "link", "insert")
    /\ link[on[w]] = 0
    /\ link' = [link EXCEPT ![on[w]] = ver[w]]
    /\ UNCHANGED <<tenantVars, docker, nextId, volume, releases, localVars, counters>>

SymlinkExists(w) ==
    /\ Goto(w, "link", "failed")
    /\ link[on[w]] # 0
    /\ UNCHANGED <<tenantVars, hostVars, localVars, counters>>

(* Mutant: the INSERT takes the next version, whatever was rendered.       *)
CreateInstanceNextVersion(w) ==
    /\ Goto(w, "insert", IF cur[w] # 0 THEN "stop_old" ELSE "volumes")
    /\ \E v \in 1 .. Len(rows[on[w]]) + 1 :
          /\ IsNextVersion(on[w], v)
          /\ rows' = [rows EXCEPT ![on[w]] = Append(@, InstanceRow("creating", v))]
    /\ new' = [new EXCEPT ![w] = Len(rows[on[w]]) + 1]
    /\ UNCHANGED <<tstatus, active, last, hostVars, on, job, cur, ver, got, counters>>

(* CreateTenantInstance.                                                   *)
CreateInstance(w) ==
    /\ Goto(w, "insert", IF cur[w] # 0 THEN "stop_old" ELSE "volumes")
    /\ rows' = [rows EXCEPT ![on[w]] = Append(@, InstanceRow("creating", ver[w]))]
    /\ new' = [new EXCEPT ![w] = Len(rows[on[w]]) + 1]
    /\ UNCHANGED <<tstatus, active, last, hostVars, on, job, cur, ver, got, counters>>

(* StopContainer of the current instance; its error is ignored.            *)
StopOld(w) ==
    /\ Goto(w, "stop_old", "volumes")
    /\ \/ NoFault /\ SetUp(Resolve(on[w], cur[w]), FALSE)
       \/ Fault /\ UNCHANGED docker
    /\ OnlyDocker

(* CreateAndStartContainer: EnsureVolume, RemoveContainer of the name,     *)
(* docker run.                                                             *)
EnsureVolume(w) ==
    /\ Goto(w, "volumes", "clear")
    /\ volume' = [volume EXCEPT ![on[w]] = TRUE]
    /\ UNCHANGED <<tenantVars, docker, nextId, releases, link, localVars, counters>>

ClearName(w) ==
    /\ Goto(w, "clear", "run")
    /\ Remove({ContainerName[on[w]]})
    /\ NoFault /\ OnlyDocker

(* docker run; a container that does not start is left behind.             *)
RunContainer(w) ==
    LET n == ContainerName[on[w]] IN
    /\ docker[n] = Gone
    /\ \E ok \in BOOLEAN :
          /\ IF ok THEN NoFault ELSE Fault
          /\ Goto(w, "run", IF ok THEN "healthy" ELSE "reject")
          /\ docker' = [docker EXCEPT ![n] = [id |-> nextId, up |-> ok]]
    /\ nextId' = nextId + 1
    /\ got' = [got EXCEPT ![w] = nextId]
    /\ UNCHANGED <<tenantVars, volume, releases, link, on, job, cur, new, ver, jobs, exits>>

(* docker run under a name that is taken again.                            *)
RunConflict(w) ==
    /\ docker[ContainerName[on[w]]] # Gone
    /\ Goto(w, "run", "reject")
    /\ UNCHANGED <<tenantVars, hostVars, localVars, counters>>

(* The new container did not come up: its row is marked, and with a        *)
(* current instance that container is started and its row marked, all of   *)
(* it whatever errors there are.                                           *)
RejectNew(w) ==
    /\ Goto(w, "reject", IF cur[w] # 0 THEN "revive" ELSE "failed")
    /\ \/ NoFault /\ SetStatus(on[w], new[w], "failed")
       \/ Fault /\ UNCHANGED rows
    /\ OnlyRows

StartOld(w) ==
    /\ Goto(w, "revive", "restore")
    /\ \/ NoFault /\ SetUp(Resolve(on[w], cur[w]), TRUE)
       \/ Fault /\ UNCHANGED docker
    /\ OnlyDocker

RestoreOld(w) ==
    /\ Goto(w, "restore", "failed")
    /\ \/ NoFault /\ SetStatus(on[w], cur[w], "running")
       \/ Fault /\ UNCHANGED rows
    /\ OnlyRows

(* The new container is healthy: the old one and its row are retired.      *)
RemoveOld(w) ==
    /\ Goto(w, "remove_old", "retire")
    /\ \/ NoFault /\ Remove(Resolve(on[w], cur[w]))
       \/ Fault /\ UNCHANGED docker
    /\ OnlyDocker

RetireOld(w) ==
    /\ Goto(w, "retire", "publish")
    /\ \/ NoFault /\ SetStatus(on[w], cur[w], "destroyed")
       \/ Fault /\ UNCHANGED rows
    /\ OnlyRows

PublishNew(w) ==
    /\ Goto(w, "publish", "status")
    /\ SetRunning(on[w], new[w], got[w])
    /\ NoFault /\ OnlyRows

-----------------------------------------------------------------------------
(* handleStop, handleStart, handleRestart and handleDestroy.               *)

ReadInstance(w) ==
    /\ Type(w) # "deploy"
    /\ Goto(w, "read", "act")
    /\ cur' = [cur EXCEPT ![w] = Latest(on[w])]
    /\ UNCHANGED <<tenantVars, hostVars, on, job, new, ver, got, counters>>

(* docker stop: a container that does not exist is as good as stopped.     *)
StopContainer(w) ==
    /\ Type(w) = "stop"
    /\ Goto(w, "act", "record")
    /\ SetUp(Resolve(on[w], cur[w]), FALSE)
    /\ NoFault /\ OnlyDocker

(* docker start or restart, which fails without a container.               *)
StartContainer(w) ==
    /\ Type(w) \in Starts
    /\ Goto(w, "act", IF Resolve(on[w], cur[w]) # {} THEN "healthy" ELSE "failed")
    /\ SetUp(Resolve(on[w], cur[w]), TRUE)
    /\ NoFault /\ OnlyDocker

(* docker rm -f.                                                           *)
RemoveContainer(w) ==
    /\ Type(w) = "destroy"
    /\ Goto(w, "act", "volume")
    /\ Remove(Resolve(on[w], cur[w]))
    /\ NoFault /\ OnlyDocker

RemoveVolume(w) ==
    /\ Goto(w, "volume", "workspace")
    /\ volume' = [volume EXCEPT ![on[w]] = @ /\ "volume" \notin job[w].wipe]
    /\ UNCHANGED <<tenantVars, docker, nextId, releases, link, localVars, counters>>

(* os.RemoveAll of workspace_path, which is the link.                      *)
RemoveWorkspace(w) ==
    /\ Goto(w, "workspace", "record")
    /\ link' = [link EXCEPT ![on[w]] = IF "workspace" \in job[w].wipe THEN 0 ELSE @]
    /\ UNCHANGED <<tenantVars, docker, nextId, volume, releases, localVars, counters>>

(* UpdateInstanceStatus and UpdateInstanceRunning.                         *)
RecordInstance(w) ==
    /\ Goto(w, "record", "status")
    /\ \/ Type(w) = "stop" /\ SetStatus(on[w], cur[w], "stopped")
       \/ Type(w) = "destroy" /\ SetStatus(on[w], cur[w], "destroyed")
       \/ Type(w) \in Starts /\ SetRunning(on[w], cur[w], got[w])
    /\ NoFault /\ OnlyRows

-----------------------------------------------------------------------------
(* WaitForHealthy, and the last statement of every handler.                *)

(* The container the health check inspects.                                *)
Inspected(w) ==
    IF Type(w) = "deploy" THEN {n \in Names : docker[n].id = got[w]}
                          ELSE Resolve(on[w], cur[w])

(* Mutant: a healthy container replaces the old one without retiring it.   *)
PublishAtOnce(w) == IF Type(w) # "deploy" THEN "record" ELSE "publish"

AfterHealthy(w) ==
    IF Type(w) # "deploy" THEN "record" ELSE IF cur[w] # 0 THEN "remove_old" ELSE "publish"

Healthy(w) ==
    /\ Goto(w, "healthy", AfterHealthy(w))
    /\ \E n \in Inspected(w) : docker[n].up /\ got' = [got EXCEPT ![w] = docker[n].id]
    /\ UNCHANGED <<tenantVars, hostVars, on, job, cur, new, ver, counters>>

(* The container exited or is gone, or does not become healthy in time.    *)
Unhealthy(w) ==
    /\ Goto(w, "healthy", IF Type(w) = "deploy" THEN "reject" ELSE "failed")
    /\ IF \E n \in Inspected(w) : docker[n].up THEN Fault ELSE NoFault
    /\ UNCHANGED <<tenantVars, hostVars, localVars, jobs, exits>>

(* Mutant: the status of a tenant without its instance.                    *)
TenantStatusOfInstance(type) ==
    CASE type = "stop" -> "stopped"
      [] type = "destroy" -> "destroyed"
      [] type \in Starts \cup {"deploy"} -> "running"

(* The tenant status each handler ends with.                               *)
TenantStatus(type) ==
    CASE type = "stop" -> "stopped"
      [] type = "destroy" -> "ready"
      [] type \in Starts \cup {"deploy"} -> "running"

UpdateTenantStatus(w) ==
    /\ Goto(w, "status", "done")
    /\ tstatus' = [tstatus EXCEPT ![on[w]] = TenantStatus(Type(w))]
    /\ UNCHANGED <<rows, active, last, hostVars, localVars, counters>>

(* A container exits without anybody's doing.                              *)
ContainerExits(n) ==
    /\ exits < MaxExits /\ exits' = exits + 1
    /\ docker[n].up
    /\ SetUp({n}, FALSE)
    /\ UNCHANGED <<tenantVars, nextId, volume, releases, link, pc, localVars, jobs, faults>>

-----------------------------------------------------------------------------
Deploy(w) ==
    \/ ReadCurrent(w) \/ ReadVersion(w)
    \/ RenderRelease(w) \/ RemoveLink(w) \/ Symlink(w) \/ SymlinkExists(w)
    \/ CreateInstance(w) \/ StopOld(w)
    \/ EnsureVolume(w) \/ ClearName(w) \/ RunContainer(w) \/ RunConflict(w)
    \/ RejectNew(w) \/ StartOld(w) \/ RestoreOld(w)
    \/ RemoveOld(w) \/ RetireOld(w) \/ PublishNew(w)

Operate(w) ==
    \/ ReadInstance(w)
    \/ StopContainer(w) \/ StartContainer(w)
    \/ RemoveContainer(w) \/ RemoveVolume(w) \/ RemoveWorkspace(w)
    \/ RecordInstance(w)

Work(w) == Deploy(w) \/ Operate(w) \/ Healthy(w) \/ Unhealthy(w) \/ UpdateTenantStatus(w)

(* The bound on jobs is reached and no worker is at work.                  *)
Rest ==
    /\ jobs = MaxJobs /\ \A w \in Workers : pc[w] = "idle"
    /\ UNCHANGED vars

Next ==
    \/ \E t \in Tenants, j \in JobSet : Enqueue(t, j)
    \/ \E w \in Workers, t \in Tenants : Begin(w, t)
    \/ \E w \in Workers : pc[w] # "idle" /\ (Work(w) \/ Finish(w) \/ Fail(w) \/ Crash(w))
    \/ \E n \in Names : ContainerExits(n)
    \/ Rest

Spec == Init /\ [][Next]_vars

-----------------------------------------------------------------------------
(* Properties.                                                             *)

Pcs == {"idle", "read", "version", "render", "unlink", "link", "insert", "stop_old", "volumes",
        "clear", "run", "reject", "revive", "restore", "healthy", "remove_old", "retire",
        "publish", "act", "volume", "workspace", "record", "status", "done", "failed"}

(* Every variable has its type; the statuses are the ones handlers write,  *)
(* of which tenants.status has only four.                                  *)
TypeOK ==
    /\ rows \in [Tenants -> Seq([status : {"creating", "failed", "running", "stopped", "destroyed"},
                                 cid : Nat, version : Nat \ {0}])]
    /\ tstatus \in [Tenants -> {"draft", "running", "stopped", "ready"}]
    /\ docker \in [Names -> [id : Nat, up : BOOLEAN]]
    /\ nextId \in Nat \ {0}
    /\ volume \in [Tenants -> BOOLEAN]
    /\ releases \in [Tenants -> SUBSET (Nat \ {0})]
    /\ link \in [Tenants -> Nat]
    /\ active \in [Tenants -> JobSet \cup {NoJob}]
    /\ last \in [Tenants -> [job : JobSet \cup {NoJob}, ok : BOOLEAN]]
    /\ pc \in [Workers -> Pcs]
    /\ on \in [Workers -> Tenants \cup {NoTenant}]
    /\ job \in [Workers -> JobSet \cup {NoJob}]
    /\ {cur, new, ver, got} \subseteq [Workers -> Nat]
    /\ jobs \in 0 .. MaxJobs /\ faults \in 0 .. MaxFaults /\ exits \in 0 .. MaxExits

Quiet(t) == active[t] = NoJob

CurrentRow(t) == rows[t][Len(rows[t])]

Container(t) == docker[ContainerName[t]]

(* What a job establishes.                                                 *)
Agree(t, did) ==
    /\ did.type \in Starts \cup {"deploy"} =>
          /\ CurrentRow(t).status = "running" /\ tstatus[t] = "running"
          /\ Container(t).id = CurrentRow(t).cid
          /\ Container(t).up \/ exits > 0
    /\ did.type = "deploy" =>
          volume[t] /\ link[t] = CurrentRow(t).version /\ link[t] \in releases[t]
    /\ did.type = "stop" =>
          CurrentRow(t).status = "stopped" /\ tstatus[t] = "stopped" /\ ~Container(t).up
    /\ did.type = "destroy" =>
          /\ CurrentRow(t).status = "destroyed" /\ tstatus[t] = "ready"
          /\ Container(t) = Gone
          /\ "volume" \in did.wipe => ~volume[t]
          /\ "workspace" \in did.wipe => link[t] = 0

(* After a job that succeeded tables, Docker and files agree: a deployed,  *)
(* started or restarted tenant has the container its current row names,    *)
(* running unless one has exited on its own, and a deployed one its volume *)
(* and its release; a stopped one has none running; a destroyed one has    *)
(* none, and no volume if that was to go.  Of a workspace that was to go   *)
(* only the link is removed: the releases of all rows, with their app.env, *)
(* are still there ("Delete workspace files", cli/root.go:728, is more     *)
(* than handleDestroy does).                                               *)
SuccessMeansAgreement ==
    \A t \in Tenants : Quiet(t) /\ last[t].ok =>
        Agree(t, last[t].job) /\ Versions(t) \subseteq releases[t]

(* No container is out of reach: whatever failed or died on the way, the   *)
(* current row of the tenant leads docker to the container it has.         *)
ContainerReachable ==
    \A t \in Tenants : Container(t) # Gone =>
        rows[t] # <<>> /\ ContainerName[t] \in Resolve(t, Latest(t))

(* Every row has a config_version, and so a release directory, of its own, *)
(* and versions grow with the rows.                                        *)
VersionsIncrease ==
    \A t \in Tenants : \A i, k \in DOMAIN rows[t] :
        i < k => rows[t][i].version < rows[t][k].version

(* The rows behind the current one that still say "running".               *)
LeftRunning(t) == {i \in 1 .. Len(rows[t]) - 1 : rows[t][i].status = "running"}

(* A deploy retires the row it replaces, but ignores the errors of doing   *)
(* so, takes an error for "no current instance", and sets the old row to   *)
(* running again when the new container fails.  What stays "running"       *)
(* behind the current row between jobs, and is counted as a container that *)
(* runs, is never more than that: each such row is due to a failure, a     *)
(* death or an exit of its own.                                            *)
LeftRunningIsDue ==
    \A t \in Tenants : Quiet(t) => Cardinality(LeftRunning(t)) <= faults + exits

(* A deployed tenant has a container of its own: it stays the one its row  *)
(* names until the tenant's next job.                                      *)
DedicatedContainer ==
    \A t \in Tenants : Quiet(t) /\ last[t].ok /\ last[t].job.type = "deploy" =>
        Container(t).id = CurrentRow(t).cid

(* A deploy that fails leaves the container it found running.              *)
RollbackRestoresContainer ==
    [][\A w \in Workers :
          pc[w] = "revive" /\ pc'[w] = "restore" => \E n \in Resolve(on[w], cur[w]) : docker'[n].up]_vars

=============================================================================
