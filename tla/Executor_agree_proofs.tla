----------------------- MODULE Executor_agree_proofs -----------------------
(***************************************************************************)
(* What a job that succeeded leaves behind, for any number of tenants      *)
(* whose containers have different names: AgreeInv says for every step of  *)
(* a handler what the steps before it have established, and is inductive.  *)
(***************************************************************************)
EXTENDS Executor_proofs, FiniteSetTheorems

OwnNames == \A t, u \in Tenants : ContainerName[t] = ContainerName[u] => t = u

(* Ids of containers are given out once; a row and a worker know only ids  *)
(* of containers under the name of their tenant.                           *)
Ids ==
    /\ \A n \in Names : /\ docker[n].id < nextId
                        /\ docker[n].id = 0 => docker[n] = Gone
    /\ \A m, n \in Names : docker[m].id = docker[n].id /\ docker[m].id # 0 => m = n
    /\ \A t \in Tenants : \A i \in 1 .. Len(rows[t]) :
          /\ rows[t][i].cid < nextId
          /\ \A n \in Names : rows[t][i].cid # 0 /\ docker[n].id = rows[t][i].cid => n = ContainerName[t]
    /\ \A w \in Workers :
          /\ got[w] < nextId
          /\ pc[w] = "idle" => got[w] = 0
          /\ \A n \in Names : got[w] # 0 /\ docker[n].id = got[w] => n = ContainerName[on[w]]

-----------------------------------------------------------------------------
(* What a worker knows.                                                    *)

Deploying == {"version", "render", "unlink", "link", "insert", "stop_old", "volumes", "clear", "run",
              "reject", "revive", "restore", "remove_old", "retire", "publish"}
Operating == {"act", "volume", "workspace", "record"}

(* Each handler has its own steps, and the row it read is still there.     *)
ReadRow(w) ==
    /\ pc[w] \in Deploying => Type(w) = "deploy"
    /\ pc[w] \in Operating => Type(w) # "deploy"
    /\ pc[w] \in {"volume", "workspace"} => Type(w) = "destroy"
    /\ pc[w] = "healthy" => Type(w) \in Starts \cup {"deploy"}
    /\ Type(w) = "deploy" /\ pc[w] \in Deploying \cup {"healthy"} =>
          /\ cur[w] <= Len(rows[on[w]])
          /\ cur[w] # 0 => rows[on[w]][cur[w]].cid # 0
    /\ pc[w] \in {"stop_old", "revive", "restore", "remove_old", "retire"} => cur[w] # 0
    /\ Type(w) # "deploy" /\ pc[w] \in Operating \cup {"healthy"} =>
          cur[w] # 0 /\ cur[w] = Len(rows[on[w]])

(* A deploy: the release, the row, the volume and the container.           *)
Rendered(w) ==
    /\ pc[w] \in {"unlink", "link", "insert"} => ver[w] \in releases[on[w]]
    /\ pc[w] = "insert" => link[on[w]] = ver[w]

Inserted(w) ==
    Type(w) = "deploy" /\ pc[w] \in {"stop_old", "volumes", "clear", "run", "reject", "revive", "restore",
                                     "healthy", "remove_old", "retire", "publish"} =>
        /\ new[w] # 0 /\ new[w] = Len(rows[on[w]]) /\ cur[w] < new[w]
        /\ CurrentRow(on[w]).cid = 0 /\ CurrentRow(on[w]).version = ver[w]
        /\ link[on[w]] = ver[w] /\ ver[w] \in releases[on[w]]

Launched(w) ==
    Type(w) = "deploy" =>
        /\ pc[w] \in {"clear", "run", "healthy", "remove_old", "retire", "publish"} => volume[on[w]]
        /\ pc[w] \in {"healthy", "remove_old", "retire", "publish"} =>
              /\ got[w] # 0 /\ Container(on[w]).id = got[w]
              /\ cur[w] # 0 => rows[on[w]][cur[w]].cid # got[w]
        /\ pc[w] \in {"remove_old", "retire", "publish"} => Container(on[w]).up \/ exits > 0

(* The other operations: what was done to the container and the files.     *)
Operated(w) ==
    /\ pc[w] = "record" /\ Type(w) \in Starts =>
          /\ got[w] # 0 /\ Container(on[w]).id = got[w]
          /\ Container(on[w]).up \/ exits > 0
    /\ pc[w] = "record" /\ Type(w) = "stop" => ~Container(on[w]).up
    /\ pc[w] \in {"volume", "workspace", "record"} /\ Type(w) = "destroy" => Container(on[w]) = Gone
    /\ pc[w] \in {"workspace", "record"} /\ Type(w) = "destroy" /\ "volume" \in job[w].wipe =>
          ~volume[on[w]]
    /\ pc[w] = "record" /\ Type(w) = "destroy" /\ "workspace" \in job[w].wipe => link[on[w]] = 0

(* Agree but for tenants.status, which is written last.                    *)
Settled(t, did) ==
    /\ did.type \in Starts \cup {"deploy"} =>
          /\ CurrentRow(t).status = "running"
          /\ Container(t).id = CurrentRow(t).cid
          /\ Container(t).up \/ exits > 0
    /\ did.type = "deploy" =>
          volume[t] /\ link[t] = CurrentRow(t).version /\ link[t] \in releases[t]
    /\ did.type = "stop" => CurrentRow(t).status = "stopped" /\ ~Container(t).up
    /\ did.type = "destroy" =>
          /\ CurrentRow(t).status = "destroyed"
          /\ Container(t) = Gone
          /\ "volume" \in did.wipe => ~volume[t]
          /\ "workspace" \in did.wipe => link[t] = 0

Progress(w) ==
    pc[w] # "idle" =>
        /\ ReadRow(w) /\ Rendered(w) /\ Inserted(w) /\ Launched(w) /\ Operated(w)
        /\ pc[w] = "status" => Settled(on[w], job[w])
        /\ pc[w] = "done" => Agree(on[w], job[w])

-----------------------------------------------------------------------------
(* What holds of a tenant, whoever works on it.                            *)

Reachable(t) ==
    Container(t) # Gone =>
        rows[t] # <<>> /\ CurrentRow(t).cid \in {0, Container(t).id}

Standing(t) ==
    /\ Reachable(t)
    /\ active[t] # NoJob /\ active[t].type # "deploy" => rows[t] # <<>>
    /\ Quiet(t) /\ last[t].ok => Agree(t, last[t].job)

AgreeInv ==
    /\ RowInv /\ Ids
    /\ \A w \in Workers : Progress(w)
    /\ \A t \in Tenants : Standing(t)

-----------------------------------------------------------------------------
(* Whom a step leaves alone.                                               *)

(* What the types of RowInv say of one worker and its tenant.              *)
LEMMA Types ==
    ASSUME RowInv, NEW w \in Workers, pc[w] # "idle"
    PROVE /\ on[w] \in Tenants /\ job[w] \in JobSet /\ job[w] = active[on[w]] /\ active[on[w]] # NoJob
          /\ Type(w) \in {"deploy", "stop", "start", "restart", "destroy"}
          /\ cur[w] \in Nat /\ new[w] \in Nat /\ ver[w] \in Nat /\ got[w] \in Nat /\ nextId \in Nat \ {0}
          /\ rows[on[w]] \in Seq(Rows) /\ Len(rows[on[w]]) \in Nat
          /\ ContainerName[on[w]] \in Names /\ Container(on[w]) \in Containers
BY JobTypes, ContainerNameAssumption DEF RowInv, TypeOK, Owned, Type, Rows, Statuses, Container, Containers

(* The rows, all of them.                                                  *)
LEMMA RowTypes ==
    ASSUME RowInv
    PROVE /\ rows \in [Tenants -> Seq(Rows)]
          /\ \A u \in Tenants : rows[u] \in Seq(Rows) /\ Len(rows[u]) \in Nat
                                /\ DOMAIN rows[u] = 1 .. Len(rows[u])
          /\ \A u \in Tenants : \A k \in 1 .. Len(rows[u]) : rows[u][k] \in Rows
<1>1. rows \in [Tenants -> Seq(Rows)]
  BY DEF RowInv, TypeOK, Rows, Statuses
<1>2. ASSUME NEW u \in Tenants PROVE rows[u] \in Seq(Rows)
  BY <1>1
<1> QED BY <1>1, <1>2

(* A row leads docker to the container of its own tenant or to none.       *)
LEMMA ResolveOwn ==
    ASSUME Ids, NEW t \in Tenants, NEW i \in 1 .. Len(rows[t]), NEW n \in Resolve(t, i)
    PROVE n \in Names /\ n = ContainerName[t] /\ docker[n].id # 0
BY DEF Ids, Resolve

(* What docker commands do to the containers under the names S.            *)
LEMMA SetUpEffect ==
    ASSUME docker \in [Names -> Containers], NEW S, NEW up \in BOOLEAN, SetUp(S, up)
    PROVE \A n \in Names : /\ docker'[n].id = docker[n].id
                           /\ n \in S => docker'[n].up = up
                           /\ n \notin S => docker'[n] = docker[n]
BY DEF SetUp, Containers

LEMMA RemoveEffect ==
    ASSUME NEW S, Remove(S)
    PROVE \A n \in Names : docker'[n] = IF n \in S THEN Gone ELSE docker[n]
BY DEF Remove

(* The row a handler takes its reference from.                             *)
LEMMA RowToActOn ==
    ASSUME RowInv, NEW w \in Workers, ReadRow(w), pc[w] \in {"stop_old", "revive", "remove_old", "act"}
    PROVE cur[w] \in 1 .. Len(rows[on[w]])
<1>1. cur[w] \in Nat /\ Len(rows[on[w]]) \in Nat
  BY Types
<1>2. CASE pc[w] = "act"
  BY <1>1, <1>2 DEF ReadRow, Operating
<1>3. CASE pc[w] \in {"stop_old", "revive", "remove_old"}
  <2>1. Type(w) = "deploy" /\ pc[w] \in Deploying
    BY <1>3 DEF ReadRow, Deploying
  <2> QED BY <1>1, <1>3, <2>1 DEF ReadRow
<1> QED BY <1>2, <1>3

(* A handler runs docker commands on the container of its tenant alone.    *)
LEMMA OtherContainers ==
    ASSUME RowInv, Ids, NEW w \in Workers, pc[w] # "idle", ReadRow(w), Work(w) \/ Fail(w),
           NEW n \in Names, n # ContainerName[on[w]]
    PROVE docker'[n] = docker[n]
<1>1. docker \in [Names -> Containers]
  BY DEF RowInv, TypeOK, Containers
<1>2. ASSUME StopOld(w) \/ StartOld(w) \/ RemoveOld(w) \/ StopContainer(w) \/ StartContainer(w)
             \/ RemoveContainer(w)
      PROVE n \notin Resolve(on[w], cur[w])
  <2>1. cur[w] \in 1 .. Len(rows[on[w]])
    BY <1>2, RowToActOn DEF StopOld, StartOld, RemoveOld, StopContainer, StartContainer, RemoveContainer, Goto
  <2>2. on[w] \in Tenants
    BY Types
  <2> QED BY <2>1, <2>2, ResolveOwn
<1>3. CASE StopOld(w) \/ StartOld(w) \/ StopContainer(w) \/ StartContainer(w)
  <2>1. docker' = docker \/ \E up \in BOOLEAN : SetUp(Resolve(on[w], cur[w]), up)
    BY <1>3 DEF StopOld, StartOld, StopContainer, StartContainer
  <2> QED BY <1>1, <1>2, <1>3, <2>1, SetUpEffect
<1>4. CASE RemoveOld(w) \/ RemoveContainer(w)
  <2>1. docker' = docker \/ Remove(Resolve(on[w], cur[w]))
    BY <1>4 DEF RemoveOld, RemoveContainer
  <2> QED BY <1>2, <1>4, <2>1, RemoveEffect
<1>5. CASE ClearName(w)
  BY <1>5, RemoveEffect DEF ClearName
<1>6. CASE RunContainer(w)
  BY <1>1, <1>6 DEF RunContainer
<1>7. CASE ReadCurrent(w) \/ ReadVersion(w) \/ RenderRelease(w) \/ RemoveLink(w) \/ Symlink(w)
           \/ SymlinkExists(w) \/ CreateInstance(w) \/ EnsureVolume(w) \/ RunConflict(w)
           \/ RejectNew(w) \/ RestoreOld(w) \/ RetireOld(w) \/ PublishNew(w)
  BY <1>7 DEF ReadCurrent, ReadVersion, RenderRelease, RemoveLink, Symlink, SymlinkExists,
     CreateInstance, EnsureVolume, RunConflict, RejectNew, RestoreOld, RetireOld, PublishNew, OnlyRows,
     hostVars
<1>8. CASE ReadInstance(w) \/ RemoveVolume(w) \/ RemoveWorkspace(w) \/ RecordInstance(w)
           \/ Healthy(w) \/ Unhealthy(w) \/ UpdateTenantStatus(w) \/ Fail(w)
  BY <1>8 DEF ReadInstance, RemoveVolume, RemoveWorkspace, RecordInstance, Healthy, Unhealthy,
     UpdateTenantStatus, Fail, OnlyRows, hostVars
<1> QED BY <1>3, <1>4, <1>5, <1>6, <1>7, <1>8 DEF Work, Deploy, Operate

(* It writes rows, files and the status of its tenant alone.               *)
LEMMA OtherTenants ==
    ASSUME RowInv, NEW w \in Workers, pc[w] # "idle", Work(w) \/ Fail(w),
           NEW u \in Tenants, u # on[w]
    PROVE /\ rows'[u] = rows[u] /\ tstatus'[u] = tstatus[u]
          /\ volume'[u] = volume[u] /\ releases'[u] = releases[u] /\ link'[u] = link[u]
<1>1. TypeOK /\ Owned /\ on[w] \in Tenants /\ rows \in [Tenants -> Seq(Rows)]
  BY Types, RowTypes DEF RowInv
<1>2. rows'[u] = rows[u]
  <2>1. ASSUME NEW i \in Nat, NEW s \in Statuses, SetStatus(on[w], i, s) PROVE rows'[u] = rows[u]
    BY <1>1, <2>1, SetStatusEffect
  <2>2. ASSUME NEW i \in Nat, NEW c \in Nat, SetRunning(on[w], i, c) PROVE rows'[u] = rows[u]
    BY <1>1, <2>2, SetRunningEffect
  <2>3. CASE CreateInstance(w)
    BY <2>3, Equipment, InsertedRow DEF RowInv
  <2> QED BY <1>1, <2>1, <2>2, <2>3, Equipment, RowSteps
<1>3. /\ tstatus \in [Tenants -> {"draft", "running", "stopped", "ready"}]
      /\ volume \in [Tenants -> BOOLEAN] /\ releases \in [Tenants -> SUBSET (Nat \ {0})]
      /\ link \in [Tenants -> Nat]
  BY <1>1 DEF TypeOK
<1>4. CASE RenderRelease(w) \/ RemoveLink(w) \/ Symlink(w) \/ EnsureVolume(w) \/ RemoveVolume(w)
           \/ RemoveWorkspace(w) \/ UpdateTenantStatus(w)
  BY <1>1, <1>2, <1>3, <1>4 DEF RenderRelease, RemoveLink, Symlink, EnsureVolume, RemoveVolume,
     RemoveWorkspace, UpdateTenantStatus, tenantVars, hostVars
<1>5. CASE ReadCurrent(w) \/ ReadVersion(w) \/ SymlinkExists(w) \/ CreateInstance(w) \/ StopOld(w)
           \/ ClearName(w) \/ RunContainer(w) \/ RunConflict(w) \/ RejectNew(w) \/ StartOld(w)
           \/ RestoreOld(w) \/ RemoveOld(w) \/ RetireOld(w) \/ PublishNew(w)
  BY <1>2, <1>5 DEF ReadCurrent, ReadVersion, SymlinkExists, CreateInstance, StopOld, ClearName,
     RunContainer, RunConflict, RejectNew, StartOld, RestoreOld, RemoveOld, RetireOld, PublishNew,
     OnlyRows, OnlyDocker, tenantVars, hostVars
<1>6. CASE ReadInstance(w) \/ StopContainer(w) \/ StartContainer(w) \/ RemoveContainer(w)
           \/ RecordInstance(w) \/ Healthy(w) \/ Unhealthy(w) \/ Fail(w)
  BY <1>2, <1>6 DEF ReadInstance, StopContainer, StartContainer, RemoveContainer, RecordInstance,
     Healthy, Unhealthy, Fail, OnlyRows, OnlyDocker, tenantVars, hostVars
<1> QED BY <1>4, <1>5, <1>6 DEF Work, Deploy, Operate

(* A tenant that is left alone stands as it stood ...                      *)
LEMMA StandingStays ==
    ASSUME NEW u \in Tenants, Standing(u),
           rows'[u] = rows[u], tstatus'[u] = tstatus[u], volume'[u] = volume[u],
           releases'[u] = releases[u], link'[u] = link[u], active'[u] = active[u], last'[u] = last[u],
           docker'[ContainerName[u]] = docker[ContainerName[u]], exits' = exits
    PROVE Standing(u)'
BY DEF Standing, Reachable, Quiet, Agree, Container, CurrentRow

(* ... and so does the work on it.                                         *)
LEMMA ProgressStays ==
    ASSUME NEW v \in Workers, Progress(v),
           pc'[v] = pc[v], on'[v] = on[v], job'[v] = job[v],
           cur'[v] = cur[v], new'[v] = new[v], ver'[v] = ver[v], got'[v] = got[v],
           rows'[on[v]] = rows[on[v]], tstatus'[on[v]] = tstatus[on[v]], volume'[on[v]] = volume[on[v]],
           releases'[on[v]] = releases[on[v]], link'[on[v]] = link[on[v]],
           docker'[ContainerName[on[v]]] = docker[ContainerName[on[v]]], exits' = exits
    PROVE Progress(v)'
<1>1. ReadRow(v) => ReadRow(v)'
  BY DEF ReadRow, Type
<1>2. Rendered(v) => Rendered(v)'
  BY DEF Rendered
<1>3. Inserted(v) => Inserted(v)'
  BY DEF Inserted, CurrentRow, Type
<1>4. Launched(v) => Launched(v)'
  BY DEF Launched, Container, Type
<1>5. Operated(v) => Operated(v)'
  BY DEF Operated, Container, Type
<1>6. Settled(on[v], job[v]) => Settled(on[v], job[v])'
  BY DEF Settled, CurrentRow, Container
<1>7. Agree(on[v], job[v]) => Agree(on[v], job[v])'
  BY DEF Agree, CurrentRow, Container
<1> QED BY <1>1, <1>2, <1>3, <1>4, <1>5, <1>6, <1>7 DEF Progress

-----------------------------------------------------------------------------
(* The steps of a handler.                                                 *)

(* Steps that only read.                                                   *)
LEMMA ReadingProgress ==
    ASSUME RowInv, NEW w \in Workers, pc[w] # "idle", Progress(w),
           \/ ReadCurrent(w) \/ ReadVersion(w) \/ SymlinkExists(w) \/ RunConflict(w)
           \/ ReadInstance(w) \/ Unhealthy(w) \/ Fail(w),
           Type(w) # "deploy" => rows[on[w]] # <<>>
    PROVE Progress(w)'
<1> USE Types DEF Deploying, Operating
<1>1. pc \in [Workers -> Pcs] /\ cur \in [Workers -> Nat] /\ ver \in [Workers -> Nat]
  BY DEF RowInv, TypeOK
<1>2. UNCHANGED <<rows, tstatus, docker, volume, releases, link, on, job, new, got>>
  BY DEF ReadCurrent, ReadVersion, SymlinkExists, RunConflict, ReadInstance, Unhealthy, Fail, tenantVars,
     hostVars, localVars
<1>3. CASE ReadCurrent(w)
  <2>1. pc'[w] = "version" /\ Type(w) = "deploy"
    BY <1>1, <1>3 DEF ReadCurrent, Goto
  <2>2. /\ cur'[w] \in {0, Len(rows[on[w]])}
        /\ cur'[w] # 0 => rows[on[w]][cur'[w]].cid # 0
    BY <1>1, <1>3 DEF ReadCurrent, Latest
  <2>3. cur'[w] <= Len(rows[on[w]])
    BY <2>2
  <2> QED BY <1>1, <1>2, <2>1, <2>2, <2>3 DEF Progress, Type, ReadRow, Rendered, Inserted, Launched, Operated
<1>4. CASE ReadVersion(w)
  BY <1>1, <1>2, <1>4 DEF ReadVersion, Goto, localVars, Progress, Type, ReadRow, Rendered, Inserted, Launched, Operated
<1>5. CASE SymlinkExists(w)
  BY <1>1, <1>2, <1>5 DEF SymlinkExists, Goto, localVars, Progress, Type, ReadRow, Rendered, Inserted, Launched, Operated
<1>6. CASE RunConflict(w)
  BY <1>1, <1>2, <1>6 DEF RunConflict, Goto, localVars, Progress, Type, ReadRow, Rendered, Inserted, Launched, Operated, CurrentRow
<1>7. CASE ReadInstance(w)
  <2>1. Len(rows[on[w]]) # 0
    BY <1>7 DEF ReadInstance
  <2> QED BY <1>1, <1>2, <1>7, <2>1 DEF ReadInstance, Latest, Goto, Progress, Type, ReadRow, Rendered, Inserted, Launched, Operated
<1>8. CASE Unhealthy(w)
  BY <1>1, <1>2, <1>8 DEF Unhealthy, Goto, localVars, Progress, Type, ReadRow, Rendered, Inserted, Launched, Operated, CurrentRow
<1>9. CASE Fail(w)
  <2>1. UNCHANGED <<cur, ver>>
    BY <1>9 DEF Fail, localVars
  <2>2. CASE pc'[w] = "failed" /\ pc[w] # "idle"
    BY <1>1, <1>2, <2>1, <2>2 DEF Progress, Type, ReadRow, Rendered, Inserted, Launched, Operated
  <2>3. CASE pc[w] \in {"volumes", "clear", "run"} /\ pc'[w] = "reject"
    BY <1>1, <1>2, <2>1, <2>3 DEF Progress, Type, ReadRow, Rendered, Inserted, Launched, Operated, CurrentRow
  <2> QED BY <1>1, <1>9, <2>2, <2>3 DEF Fail
<1> QED BY <1>3, <1>4, <1>5, <1>6, <1>7, <1>8, <1>9

(* Steps that change files, or the status of the tenant.                   *)
LEMMA FileProgress ==
    ASSUME RowInv, NEW w \in Workers, pc[w] # "idle", Progress(w),
           \/ RenderRelease(w) \/ RemoveLink(w) \/ Symlink(w) \/ EnsureVolume(w)
           \/ RemoveVolume(w) \/ RemoveWorkspace(w) \/ UpdateTenantStatus(w)
    PROVE Progress(w)'
<1> USE Types DEF Deploying, Operating
<1>1. /\ pc \in [Workers -> Pcs] /\ volume \in [Tenants -> BOOLEAN] /\ link \in [Tenants -> Nat]
      /\ releases \in [Tenants -> SUBSET (Nat \ {0})]
      /\ tstatus \in [Tenants -> {"draft", "running", "stopped", "ready"}]
  BY DEF RowInv, TypeOK
<1>2. UNCHANGED <<rows, docker, on, job, cur, new, ver, got, exits>>
  BY DEF RenderRelease, RemoveLink, Symlink, EnsureVolume, RemoveVolume, RemoveWorkspace,
     UpdateTenantStatus, tenantVars, hostVars, localVars, counters
<1>3. CASE RenderRelease(w)
  <2>1. pc'[w] = "unlink" /\ pc[w] = "render" /\ ver[w] \in releases'[on[w]]
    BY <1>1, <1>3 DEF RenderRelease, Goto
  <2> QED BY <1>1, <1>2, <2>1 DEF Progress, Type, ReadRow, Rendered, Inserted, Launched, Operated
<1>4. CASE RemoveLink(w)
  <2>1. pc'[w] = "link" /\ pc[w] = "unlink" /\ releases' = releases
    BY <1>1, <1>4 DEF RemoveLink, Goto
  <2> QED BY <1>1, <1>2, <2>1 DEF Progress, Type, ReadRow, Rendered, Inserted, Launched, Operated
<1>5. CASE Symlink(w)
  <2>1. pc'[w] = "insert" /\ pc[w] = "link" /\ releases' = releases /\ link'[on[w]] = ver[w]
    BY <1>1, <1>5 DEF Symlink, Goto
  <2> QED BY <1>1, <1>2, <2>1 DEF Progress, Type, ReadRow, Rendered, Inserted, Launched, Operated
<1>6. CASE EnsureVolume(w)
  <2>1. pc'[w] = "clear" /\ pc[w] = "volumes" /\ releases' = releases /\ link' = link /\ volume'[on[w]]
    BY <1>1, <1>6 DEF EnsureVolume, Goto
  <2> QED BY <1>1, <1>2, <2>1 DEF Progress, Type, ReadRow, Rendered, Inserted, Launched, Operated, CurrentRow
<1>7. CASE RemoveVolume(w)
  <2>1. pc'[w] = "workspace" /\ pc[w] = "volume" /\ ("volume" \in job[w].wipe => ~volume'[on[w]])
    BY <1>1, <1>7 DEF RemoveVolume, Goto
  <2> QED BY <1>1, <1>2, <2>1 DEF Progress, Type, ReadRow, Rendered, Inserted, Launched, Operated, Container, Starts
<1>8. CASE RemoveWorkspace(w)
  <2>1. /\ pc'[w] = "record" /\ pc[w] = "workspace" /\ volume' = volume
        /\ ("workspace" \in job[w].wipe => link'[on[w]] = 0)
    BY <1>1, <1>8 DEF RemoveWorkspace, Goto
  <2> QED BY <1>1, <1>2, <2>1 DEF Progress, Type, ReadRow, Rendered, Inserted, Launched, Operated, Container, Starts
<1>9. CASE UpdateTenantStatus(w)
  <2>1. /\ pc'[w] = "done" /\ pc[w] = "status" /\ UNCHANGED <<volume, link, releases>>
        /\ tstatus'[on[w]] = TenantStatus(Type(w))
    BY <1>1, <1>9 DEF UpdateTenantStatus, Goto, hostVars
  <2>2. Settled(on[w], job[w])
    BY <2>1 DEF Progress
  <2>3. Agree(on[w], job[w])'
    BY <1>2, <2>1, <2>2 DEF Settled, Agree, TenantStatus, Type, Starts, CurrentRow, Container
  <2> QED BY <1>2, <2>1, <2>3 DEF Progress, Type, ReadRow, Rendered, Inserted, Launched, Operated
<1> QED BY <1>3, <1>4, <1>5, <1>6, <1>7, <1>8, <1>9

(* Steps that write the rows of the tenant.                                *)
LEMMA RowProgress ==
    ASSUME RowInv, NEW w \in Workers, pc[w] # "idle", Progress(w), Reachable(on[w]),
           \/ CreateInstance(w) \/ RejectNew(w) \/ RestoreOld(w) \/ RetireOld(w) \/ PublishNew(w)
           \/ RecordInstance(w)
    PROVE Progress(w)' /\ Reachable(on[w])'
<1>0. /\ on[w] \in Tenants /\ cur[w] \in Nat /\ new[w] \in Nat /\ ver[w] \in Nat /\ got[w] \in Nat
      /\ rows[on[w]] \in Seq(Rows) /\ Len(rows[on[w]]) \in Nat
      /\ Type(w) \in {"deploy", "stop", "start", "restart", "destroy"}
  BY Types
<1> USE <1>0 DEF Deploying, Operating
<1>1. /\ pc \in [Workers -> Pcs] /\ new \in [Workers -> Nat] /\ rows \in [Tenants -> Seq(Rows)]
  BY RowTypes DEF RowInv, TypeOK
<1>2. UNCHANGED <<tstatus, docker, volume, releases, link, on, job, cur, ver, got, exits>>
  BY DEF CreateInstance, RejectNew, RestoreOld, RetireOld, PublishNew, RecordInstance, OnlyRows,
     hostVars, localVars, counters
<1>3. ASSUME NEW i \in Nat, NEW s \in Statuses, SetStatus(on[w], i, s)
      PROVE /\ Len(rows'[on[w]]) = Len(rows[on[w]])
            /\ \A k \in 1 .. Len(rows[on[w]]) :
                  /\ rows'[on[w]][k].version = rows[on[w]][k].version
                  /\ rows'[on[w]][k].cid = rows[on[w]][k].cid
                  /\ rows'[on[w]][k].status = IF k = i THEN s ELSE rows[on[w]][k].status
  <2>1. /\ Len(rows'[on[w]]) = Len(rows[on[w]])
    BY <1>1, <1>3, SetStatusEffect
  <2>2. ASSUME NEW k \in 1 .. Len(rows[on[w]])
        PROVE /\ rows'[on[w]][k].version = rows[on[w]][k].version
              /\ rows'[on[w]][k].cid = rows[on[w]][k].cid
              /\ rows'[on[w]][k].status = IF k = i THEN s ELSE rows[on[w]][k].status
    BY <1>1, <1>3, SetStatusEffect
  <2> QED BY <2>1, <2>2
<1>4. ASSUME NEW i \in Nat, NEW c \in Nat, SetRunning(on[w], i, c)
      PROVE /\ Len(rows'[on[w]]) = Len(rows[on[w]])
            /\ \A k \in 1 .. Len(rows[on[w]]) :
                  /\ rows'[on[w]][k].version = rows[on[w]][k].version
                  /\ rows'[on[w]][k].cid = IF k = i THEN c ELSE rows[on[w]][k].cid
                  /\ rows'[on[w]][k].status = IF k = i THEN "running" ELSE rows[on[w]][k].status
  BY <1>1, <1>4, SetRunningEffect
<1>5. ASSUME Len(rows'[on[w]]) = Len(rows[on[w]]),
             Len(rows[on[w]]) # 0 =>
                CurrentRow(on[w])'.cid \in {CurrentRow(on[w]).cid, Container(on[w]).id}
      PROVE Reachable(on[w])'
  <2>1. rows[on[w]] # <<>> => Len(rows[on[w]]) # 0 /\ rows'[on[w]] # <<>>
    BY <1>5
  <2>2. Container(on[w])' = Container(on[w])
    BY <1>2 DEF Container
  <2> QED BY <1>2, <1>5, <2>1, <2>2 DEF Reachable, Container, CurrentRow
<1>6. CASE CreateInstance(w)
  <2>1. /\ pc[w] = "insert" /\ pc'[w] = IF cur[w] # 0 THEN "stop_old" ELSE "volumes"
        /\ new'[w] = Len(rows[on[w]]) + 1
    BY <1>1, <1>6 DEF CreateInstance, Goto
  <2>2. /\ Len(rows'[on[w]]) = Len(rows[on[w]]) + 1
        /\ \A k \in 1 .. Len(rows[on[w]]) : rows'[on[w]][k] = rows[on[w]][k]
        /\ rows'[on[w]][Len(rows[on[w]]) + 1] = InstanceRow("creating", ver[w])
    BY <1>6, Equipment, InsertedRow DEF RowInv
  <2>3. CurrentRow(on[w])'.cid = 0 /\ CurrentRow(on[w])'.version = ver[w] /\ rows'[on[w]] # <<>>
    BY <1>2, <2>2 DEF CurrentRow, InstanceRow
  <2>4. Reachable(on[w])'
    BY <1>2, <2>3 DEF Reachable
  <2>5. /\ Type(w) = "deploy" /\ cur[w] <= Len(rows[on[w]])
        /\ cur[w] # 0 => rows[on[w]][cur[w]].cid # 0
        /\ link[on[w]] = ver[w] /\ ver[w] \in releases[on[w]]
    BY <2>1 DEF Progress, ReadRow, Rendered
  <2>6. /\ cur[w] # 0 => rows'[on[w]][cur[w]].cid # 0
        /\ cur[w] <= Len(rows'[on[w]]) /\ cur[w] < new'[w] /\ new'[w] = Len(rows'[on[w]]) /\ new'[w] # 0
        /\ pc'[w] = "stop_old" => cur[w] # 0
    <3>1. cur[w] # 0 => rows'[on[w]][cur[w]].cid # 0
      BY <2>2, <2>5
    <3>2. Len(rows'[on[w]]) = Len(rows[on[w]]) + 1
      BY <2>2
    <3>3. cur[w] <= Len(rows'[on[w]]) /\ cur[w] < new'[w] /\ new'[w] = Len(rows'[on[w]]) /\ new'[w] # 0
      BY <2>1, <2>5, <3>2
    <3>4. pc'[w] = "stop_old" => cur[w] # 0
      BY <2>1
    <3> QED BY <3>1, <3>3, <3>4
  <2>7. pc'[w] \in {"stop_old", "volumes"} /\ Type(w)' = "deploy"
    BY <1>2, <2>1, <2>5 DEF Type
  <2>8. ReadRow(w)'
    BY <1>2, <2>6, <2>7 DEF ReadRow, Type
  <2>9. Inserted(w)'
    BY <1>2, <2>3, <2>5, <2>6, <2>7 DEF Inserted, Type
  <2> QED BY <1>2, <2>4, <2>7, <2>8, <2>9 DEF Progress, Rendered, Launched, Operated
<1>7. CASE RejectNew(w)
  <2>1. pc[w] = "reject" /\ pc'[w] = (IF cur[w] # 0 THEN "revive" ELSE "failed") /\ new' = new
    BY <1>1, <1>7 DEF RejectNew, Goto, OnlyRows, localVars
  <2>2. /\ Len(rows'[on[w]]) = Len(rows[on[w]])
        /\ \A k \in 1 .. Len(rows[on[w]]) :
              rows'[on[w]][k].version = rows[on[w]][k].version /\ rows'[on[w]][k].cid = rows[on[w]][k].cid
    BY <1>3, <1>7 DEF RejectNew, Statuses
  <2>3. Reachable(on[w])'
    BY SMTT(40), <1>2, <1>5, <2>2 DEF CurrentRow
  <2>4. CurrentRow(on[w])'.cid = 0 /\ CurrentRow(on[w])'.version = ver[w]
    <3>1. Len(rows[on[w]]) # 0 /\ CurrentRow(on[w]).cid = 0 /\ CurrentRow(on[w]).version = ver[w]
      BY <2>1 DEF Progress, ReadRow, Inserted
    <3> QED BY <1>2, <2>2, <3>1 DEF CurrentRow
  <2> QED BY <1>2, <2>1, <2>2, <2>3, <2>4 DEF Progress, Type, ReadRow, Rendered, Inserted, Launched, Operated
<1>8. CASE RestoreOld(w)
  <2>1. pc[w] = "restore" /\ pc'[w] = "failed" /\ new' = new
    BY <1>1, <1>8 DEF RestoreOld, Goto, OnlyRows, localVars
  <2>2. /\ Len(rows'[on[w]]) = Len(rows[on[w]])
        /\ \A k \in 1 .. Len(rows[on[w]]) : rows'[on[w]][k].cid = rows[on[w]][k].cid
    BY <1>3, <1>8 DEF RestoreOld, Statuses
  <2>3. Reachable(on[w])'
    BY <1>2, <1>5, <2>2 DEF CurrentRow
  <2> QED BY <1>2, <2>1, <2>3 DEF Progress, Type, ReadRow, Rendered, Inserted, Launched, Operated
<1>9. CASE RetireOld(w)
  <2>1. pc[w] = "retire" /\ pc'[w] = "publish" /\ new' = new
    BY <1>1, <1>9 DEF RetireOld, Goto, OnlyRows, localVars
  <2>2. /\ Len(rows'[on[w]]) = Len(rows[on[w]])
        /\ \A k \in 1 .. Len(rows[on[w]]) :
              rows'[on[w]][k].version = rows[on[w]][k].version /\ rows'[on[w]][k].cid = rows[on[w]][k].cid
    BY <1>3, <1>9 DEF RetireOld, Statuses
  <2>3. Reachable(on[w])'
    BY SMTT(40), <1>2, <1>5, <2>2 DEF CurrentRow
  <2>4. CurrentRow(on[w])'.cid = 0 /\ CurrentRow(on[w])'.version = ver[w]
    BY <1>2, <2>1, <2>2 DEF Progress, Inserted, CurrentRow, ReadRow
  <2> QED BY <1>2, <2>1, <2>2, <2>3, <2>4 DEF Progress, Type, ReadRow, Rendered, Inserted, Launched, Operated, Container
<1>10. CASE PublishNew(w)
  <2>1. pc[w] = "publish" /\ pc'[w] = "status" /\ new' = new
    BY <1>1, <1>10 DEF PublishNew, Goto, OnlyRows, localVars
  <2>2. SetRunning(on[w], new[w], got[w])
    BY <1>10 DEF PublishNew
  <2>3. /\ Type(w) = "deploy" /\ new[w] = Len(rows[on[w]]) /\ new[w] # 0 /\ got[w] = Container(on[w]).id
        /\ CurrentRow(on[w]).version = ver[w]
    BY <2>1 DEF Progress, ReadRow, Inserted, Launched
  <2>4. /\ Len(rows'[on[w]]) = Len(rows[on[w]])
        /\ rows'[on[w]][new[w]].version = rows[on[w]][new[w]].version
        /\ rows'[on[w]][new[w]].cid = got[w] /\ rows'[on[w]][new[w]].status = "running"
    BY <1>4, <2>2, <2>3
  <2>5. CurrentRow(on[w])'.cid = got[w] /\ CurrentRow(on[w])'.version = ver[w] /\ CurrentRow(on[w])'.status = "running"
    BY <1>2, <2>3, <2>4 DEF CurrentRow
  <2>6. Reachable(on[w])'
    BY <1>2, <1>5, <2>3, <2>4, <2>5 DEF CurrentRow
  <2>7. Settled(on[w], job[w])'
    BY <1>2, <2>1, <2>3, <2>5 DEF Settled, Progress, Inserted, Launched, Type, Container
  <2> QED BY <1>2, <2>1, <2>3, <2>6, <2>7 DEF Progress, Type, ReadRow, Rendered, Inserted, Launched, Operated
<1>11. CASE RecordInstance(w)
  <2>1. /\ pc[w] = "record" /\ pc'[w] = "status" /\ new' = new
        /\ Type(w) \in Starts \cup {"stop", "destroy"}
    BY <1>1, <1>11 DEF RecordInstance, Goto, OnlyRows, localVars
  <2>2. cur[w] = Len(rows[on[w]]) /\ cur[w] # 0
    BY <2>1 DEF Progress, ReadRow, Starts
  <2>3. /\ Len(rows'[on[w]]) = Len(rows[on[w]])
        /\ Type(w) \in Starts => rows'[on[w]][cur[w]].cid = got[w] /\ rows'[on[w]][cur[w]].status = "running"
        /\ Type(w) \notin Starts => rows'[on[w]][cur[w]].cid = rows[on[w]][cur[w]].cid
        /\ Type(w) = "stop" => rows'[on[w]][cur[w]].status = "stopped"
        /\ Type(w) = "destroy" => rows'[on[w]][cur[w]].status = "destroyed"
    <3>1. CASE Type(w) \in Starts
      BY <1>4, <1>11, <2>2, <3>1 DEF RecordInstance, Starts
    <3>2. CASE Type(w) = "stop"
      BY <1>3, <1>11, <2>2, <3>2 DEF RecordInstance, Starts, Statuses
    <3>3. CASE Type(w) = "destroy"
      BY <1>3, <1>11, <2>2, <3>3 DEF RecordInstance, Starts, Statuses
    <3> QED BY <2>1, <3>1, <3>2, <3>3
  <2>4. Type(w) \in Starts => got[w] = Container(on[w]).id
    BY <2>1 DEF Progress, Operated
  <2>5. CurrentRow(on[w])' = rows'[on[w]][cur[w]] /\ CurrentRow(on[w]) = rows[on[w]][cur[w]]
    BY <1>2, <2>2, <2>3 DEF CurrentRow
  <2>6. Reachable(on[w])'
    BY <1>5, <2>3, <2>4, <2>5
  <2>7. Settled(on[w], job[w])'
    BY <1>2, <2>1, <2>3, <2>4, <2>5 DEF Settled, Progress, Operated, Type, Container, Starts
  <2> QED BY <1>2, <2>1, <2>6, <2>7 DEF Progress, Type, ReadRow, Rendered, Inserted, Launched, Operated, Starts
<1> QED BY <1>6, <1>7, <1>8, <1>9, <1>10, <1>11

(* The reference of the current row leads to the container there is.       *)
LEMMA CurrentRowLeads ==
    ASSUME RowInv, Ids, NEW t \in Tenants, Reachable(t), Container(t) # Gone
    PROVE rows[t] # <<>> /\ ContainerName[t] \in Resolve(t, Len(rows[t]))
<1>1. ContainerName[t] \in Names
  BY ContainerNameAssumption
<1>2. docker[ContainerName[t]].id # 0
  BY <1>1 DEF Ids, Container
<1>3. rows[t] # <<>> /\ rows[t][Len(rows[t])].cid \in {0, docker[ContainerName[t]].id}
  BY DEF Reachable, CurrentRow, Container
<1> QED BY <1>1, <1>2, <1>3 DEF Resolve

(* To start and to stop containers changes no ids and makes none appear.   *)
LEMMA SetUpReaches ==
    ASSUME RowInv, Ids, NEW t \in Tenants, Reachable(t), NEW i, NEW up \in BOOLEAN,
           SetUp(Resolve(t, i), up), rows' = rows
    PROVE Reachable(t)'
<1>1. docker \in [Names -> Containers] /\ ContainerName[t] \in Names
  BY ContainerNameAssumption DEF RowInv, TypeOK, Containers
<1>2. Container(t)'.id = Container(t).id /\ (Container(t) = Gone => Container(t)' = Gone)
  <2>1. /\ docker'[ContainerName[t]].id = docker[ContainerName[t]].id
        /\ ContainerName[t] \notin Resolve(t, i) => docker'[ContainerName[t]] = docker[ContainerName[t]]
    BY <1>1, SetUpEffect
  <2>2. docker[ContainerName[t]] = Gone => ContainerName[t] \notin Resolve(t, i)
    BY DEF Resolve, Gone
  <2> QED BY <2>1, <2>2 DEF Container
<1> QED BY <1>2 DEF Reachable, CurrentRow

(* Steps of a deploy in Docker.                                            *)
LEMMA DeployDockerProgress ==
    ASSUME RowInv, Ids, NEW w \in Workers, pc[w] # "idle", Progress(w), Reachable(on[w]),
           StopOld(w) \/ ClearName(w) \/ RunContainer(w) \/ StartOld(w) \/ RemoveOld(w)
    PROVE Progress(w)' /\ Reachable(on[w])'
<1>0. /\ on[w] \in Tenants /\ cur[w] \in Nat /\ new[w] \in Nat /\ ver[w] \in Nat /\ got[w] \in Nat
      /\ rows[on[w]] \in Seq(Rows) /\ Len(rows[on[w]]) \in Nat /\ ContainerName[on[w]] \in Names
      /\ pc \in [Workers -> Pcs] /\ got \in [Workers -> Nat] /\ docker \in [Names -> Containers]
      /\ nextId \in Nat \ {0}
  BY Types DEF RowInv, TypeOK, Containers
<1> USE <1>0 DEF Deploying, Operating
<1>1. UNCHANGED <<rows, tstatus, volume, releases, link, on, job, cur, new, ver, exits>>
  BY DEF StopOld, ClearName, RunContainer, StartOld, RemoveOld, OnlyDocker, tenantVars, localVars
<1>2. Type(w) = "deploy" /\ Type(w)' = "deploy"
  <2>1. pc[w] \in {"stop_old", "clear", "run", "revive", "remove_old"}
    BY DEF StopOld, ClearName, RunContainer, StartOld, RemoveOld, Goto
  <2> QED BY <1>1, <2>1 DEF Progress, ReadRow, Type
<1>3. CASE StopOld(w)
  <2>1. pc[w] = "stop_old" /\ pc'[w] = "volumes"
    BY <1>3 DEF StopOld, Goto
  <2>2. SetUp(Resolve(on[w], cur[w]), FALSE) \/ docker' = docker
    BY <1>3 DEF StopOld
  <2>3. Reachable(on[w])'
    BY <1>1, <2>2, SetUpReaches DEF Reachable, Container, CurrentRow
  <2> QED BY <1>1, <1>2, <2>1, <2>3 DEF Progress, ReadRow, Rendered, Inserted, Launched, Operated, CurrentRow
<1>4. CASE ClearName(w)
  <2>1. pc[w] = "clear" /\ pc'[w] = "run"
    BY <1>4 DEF ClearName, Goto
  <2>2. Container(on[w])' = Gone
    BY <1>1, <1>4, RemoveEffect DEF ClearName, Container
  <2>3. Reachable(on[w])'
    BY <1>1, <2>2 DEF Reachable
  <2> QED BY <1>1, <1>2, <2>1, <2>3 DEF Progress, ReadRow, Rendered, Inserted, Launched, Operated, CurrentRow
<1>5. CASE RunContainer(w)
  <2>1. pc[w] = "run" /\ pc'[w] \in {"healthy", "reject"} /\ got'[w] = nextId
    BY <1>5 DEF RunContainer, Goto
  <2>2. Container(on[w])'.id = nextId
    BY <1>1, <1>5 DEF RunContainer, Container
  <2>3. /\ new[w] # 0 /\ new[w] = Len(rows[on[w]]) /\ CurrentRow(on[w]).cid = 0
        /\ cur[w] # 0 => cur[w] \in 1 .. Len(rows[on[w]])
    BY <1>2, <2>1 DEF Progress, ReadRow, Inserted
  <2>4. Reachable(on[w])'
    <3>1. rows[on[w]] # <<>>
      BY <2>3
    <3> QED BY <1>1, <2>3, <3>1 DEF Reachable, CurrentRow
  <2>5. cur[w] # 0 => rows[on[w]][cur[w]].cid # nextId
    <3>1. \A k \in 1 .. Len(rows[on[w]]) : rows[on[w]][k].cid < nextId
      BY DEF Ids
    <3>2. \A k \in 1 .. Len(rows[on[w]]) : rows[on[w]][k].cid \in Nat
      BY RowTypes DEF Rows
    <3> QED BY <2>3, <3>1, <3>2
  <2>6. Launched(w)'
    BY <1>1, <1>2, <2>1, <2>2, <2>5 DEF Progress, Launched
  <2> QED BY <1>1, <1>2, <2>1, <2>4, <2>6 DEF Progress, ReadRow, Rendered, Inserted, Operated, CurrentRow
<1>6. CASE StartOld(w)
  <2>1. pc[w] = "revive" /\ pc'[w] = "restore"
    BY <1>6 DEF StartOld, Goto
  <2>2. SetUp(Resolve(on[w], cur[w]), TRUE) \/ docker' = docker
    BY <1>6 DEF StartOld
  <2>3. Reachable(on[w])'
    BY <1>1, <2>2, SetUpReaches DEF Reachable, Container, CurrentRow
  <2> QED BY <1>1, <1>2, <2>1, <2>3 DEF Progress, ReadRow, Rendered, Inserted, Launched, Operated, CurrentRow
<1>7. CASE RemoveOld(w)
  <2>1. pc[w] = "remove_old" /\ pc'[w] = "retire" /\ got' = got
    BY <1>7 DEF RemoveOld, Goto, OnlyDocker, localVars
  <2>2. Container(on[w]).id = got[w] /\ rows[on[w]][cur[w]].cid \notin {0, got[w]}
    BY <1>2, <2>1 DEF Progress, ReadRow, Launched
  <2>3. ContainerName[on[w]] \notin Resolve(on[w], cur[w])
    BY <2>2 DEF Resolve, Container
  <2>4. Container(on[w])' = Container(on[w])
    <3>1. docker' = docker \/ Remove(Resolve(on[w], cur[w]))
      BY <1>7 DEF RemoveOld
    <3> QED BY <1>1, <2>3, <3>1, RemoveEffect DEF Container
  <2>5. Reachable(on[w])'
    BY <1>1, <2>4 DEF Reachable, CurrentRow
  <2> QED BY <1>1, <1>2, <2>1, <2>4, <2>5 DEF Progress, ReadRow, Rendered, Inserted, Launched, Operated, CurrentRow
<1> QED BY <1>3, <1>4, <1>5, <1>6, <1>7

(* Steps of the other operations in Docker.                                *)
LEMMA OperateDockerProgress ==
    ASSUME RowInv, Ids, NEW w \in Workers, pc[w] # "idle", Progress(w), Reachable(on[w]),
           StopContainer(w) \/ StartContainer(w) \/ RemoveContainer(w)
    PROVE Progress(w)' /\ Reachable(on[w])'
<1>0. /\ on[w] \in Tenants /\ rows[on[w]] \in Seq(Rows) /\ ContainerName[on[w]] \in Names
      /\ pc \in [Workers -> Pcs] /\ docker \in [Names -> Containers]
  BY Types DEF RowInv, TypeOK, Containers
<1> USE <1>0 DEF Deploying, Operating
<1>1. UNCHANGED <<rows, tstatus, volume, releases, link, on, job, cur, new, ver, got, exits>>
  BY DEF StopContainer, StartContainer, RemoveContainer, OnlyDocker, tenantVars, localVars
<1>2. pc[w] = "act" /\ Type(w) # "deploy" /\ Type(w)' = Type(w)
  BY <1>1 DEF StopContainer, StartContainer, RemoveContainer, Goto, Type, Starts
<1>3. cur[w] # 0 /\ cur[w] = Len(rows[on[w]])
  BY <1>2 DEF Progress, ReadRow
<1>4. Container(on[w]) # Gone => ContainerName[on[w]] \in Resolve(on[w], cur[w])
  BY <1>3, CurrentRowLeads
<1>5. CASE StopContainer(w)
  <2>1. pc'[w] = "record" /\ Type(w) = "stop" /\ SetUp(Resolve(on[w], cur[w]), FALSE)
    BY <1>5 DEF StopContainer, Goto
  <2>2. Reachable(on[w])'
    BY <1>1, <2>1, SetUpReaches
  <2>3. ~Container(on[w])'.up
    <3>1. \A n \in Names : /\ n \in Resolve(on[w], cur[w]) => docker'[n].up = FALSE
                           /\ n \notin Resolve(on[w], cur[w]) => docker'[n] = docker[n]
      BY ZenonT(60), <2>1, SetUpEffect
    <3> QED BY <1>1, <1>4, <3>1 DEF Container, Gone
  <2> QED BY <1>1, <1>2, <1>3, <2>1, <2>2, <2>3 DEF Progress, ReadRow, Rendered, Inserted, Launched, Operated, Starts
<1>6. CASE StartContainer(w)
  <2>1. pc'[w] \in {"healthy", "failed"} /\ Type(w) \in Starts /\ SetUp(Resolve(on[w], cur[w]), TRUE)
    BY <1>6 DEF StartContainer, Goto
  <2>2. Reachable(on[w])'
    BY <1>1, <2>1, SetUpReaches
  <2> QED BY <1>1, <1>2, <1>3, <2>1, <2>2 DEF Progress, ReadRow, Rendered, Inserted, Launched, Operated, Starts
<1>7. CASE RemoveContainer(w)
  <2>1. pc'[w] = "volume" /\ Type(w) = "destroy" /\ Remove(Resolve(on[w], cur[w]))
    BY <1>7 DEF RemoveContainer, Goto
  <2>2. Container(on[w])' = Gone
    BY <1>1, <1>4, <2>1, RemoveEffect DEF Container
  <2>3. Reachable(on[w])'
    BY <1>1, <2>2 DEF Reachable
  <2> QED BY <1>1, <1>2, <1>3, <2>1, <2>2, <2>3 DEF Progress, ReadRow, Rendered, Inserted, Launched, Operated, Starts
<1> QED BY <1>5, <1>6, <1>7

(* The health check inspects the container of the tenant, and it is up.    *)
LEMMA HealthyProgress ==
    ASSUME RowInv, Ids, NEW w \in Workers, pc[w] # "idle", Progress(w), Healthy(w)
    PROVE Progress(w)'
<1>0. /\ on[w] \in Tenants /\ rows[on[w]] \in Seq(Rows) /\ Len(rows[on[w]]) \in Nat
      /\ ContainerName[on[w]] \in Names /\ cur[w] \in Nat
      /\ pc \in [Workers -> Pcs] /\ got \in [Workers -> Nat] /\ docker \in [Names -> Containers]
  BY Types DEF RowInv, TypeOK, Containers
<1> USE <1>0 DEF Deploying, Operating
<1>1. UNCHANGED <<rows, tstatus, docker, volume, releases, link, on, job, cur, new, ver, exits>>
  BY DEF Healthy, tenantVars, hostVars, counters
<1>2. pc[w] = "healthy" /\ pc'[w] = AfterHealthy(w) /\ Type(w)' = Type(w) /\ Type(w) \in Starts \cup {"deploy"}
  BY <1>1 DEF Healthy, Goto, Type, Progress, ReadRow
<1>3. PICK n \in Inspected(w) : docker[n].up /\ got' = [got EXCEPT ![w] = docker[n].id]
  BY DEF Healthy
<1>4. CASE Type(w) = "deploy"
  <2>1. got[w] # 0 /\ n \in Names /\ docker[n].id = got[w]
    BY <1>2, <1>3, <1>4 DEF Progress, Launched, Inspected
  <2>2. n = ContainerName[on[w]]
    BY <2>1 DEF Ids
  <2>3. got'[w] = got[w] /\ Container(on[w]).up
    BY <1>3, <2>1, <2>2 DEF Container
  <2>4. pc'[w] = IF cur[w] # 0 THEN "remove_old" ELSE "publish"
    BY <1>2, <1>4 DEF AfterHealthy
  <2> QED BY <1>1, <1>2, <1>4, <2>3, <2>4 DEF Progress, ReadRow, Rendered, Inserted, Launched, Operated, Container, CurrentRow
<1>5. CASE Type(w) \in Starts
  <2>1. Type(w) # "deploy" /\ Type(w) \notin {"stop", "destroy"}
    BY <1>5 DEF Starts
  <2>2. cur[w] # 0 /\ cur[w] = Len(rows[on[w]])
    BY <1>2, <2>1 DEF Progress, ReadRow
  <2>3. cur[w] \in 1 .. Len(rows[on[w]]) /\ n \in Resolve(on[w], cur[w])
    BY <1>3, <2>1, <2>2 DEF Inspected
  <2>4. n = ContainerName[on[w]] /\ docker[n].id # 0
    BY <2>3, ResolveOwn
  <2>5. got'[w] # 0 /\ got'[w] = Container(on[w]).id /\ Container(on[w]).up
    BY <1>3, <2>4 DEF Container
  <2>6. pc'[w] = "record"
    BY <1>2, <2>1 DEF AfterHealthy
  <2> QED BY <1>1, <1>2, <1>5, <2>1, <2>2, <2>5, <2>6 DEF Progress, ReadRow, Rendered, Inserted, Launched, Operated, Container
<1> QED BY <1>2, <1>4, <1>5

-----------------------------------------------------------------------------
(* Ids.                                                                    *)

(* Containers go or keep their id; a row gets none, keeps its own or gets  *)
(* the one its worker knows; a worker keeps its own, drops it or reads     *)
(* that of its tenant's container.                                         *)
ContainersStay ==
    \A n \in Names : \/ docker'[n] = Gone \/ docker'[n] = docker[n]
                     \/ docker'[n].id = docker[n].id /\ docker[n].id # 0

CidsStay ==
    \A t \in Tenants : \A i \in 1 .. Len(rows'[t]) :
        \/ rows'[t][i].cid = 0
        \/ i \in 1 .. Len(rows[t]) /\ rows'[t][i].cid = rows[t][i].cid
        \/ \E v \in Workers : on[v] = t /\ rows'[t][i].cid = got[v]

KnownStay ==
    \A v \in Workers :
        \/ got'[v] = 0
        \/ got'[v] = got[v] /\ on'[v] = on[v] /\ pc'[v] # "idle"
        \/ /\ on'[v] = on[v] /\ pc'[v] # "idle" /\ ContainerName[on[v]] \in Names
           /\ got'[v] = docker[ContainerName[on[v]]].id

LEMMA IdsStay ==
    ASSUME RowInv, Ids, nextId' = nextId, ContainersStay, CidsStay, KnownStay
    PROVE Ids'
<1>1. nextId \in Nat \ {0}
  BY DEF RowInv, TypeOK
<1>2. ASSUME NEW n \in Names
      PROVE /\ docker'[n].id = 0 \/ docker'[n].id = docker[n].id
            /\ docker'[n].id = 0 => docker'[n] = Gone
            /\ docker[n].id < nextId
  BY DEF ContainersStay, Ids, Gone
<1>3. ASSUME NEW n \in Names PROVE docker'[n].id < nextId'
  BY <1>1, <1>2
<1>4. ASSUME NEW m \in Names, NEW n \in Names, docker'[m].id = docker'[n].id, docker'[m].id # 0
      PROVE m = n
  BY <1>2, <1>4 DEF Ids
<1>5. ASSUME NEW t \in Tenants, NEW i \in 1 .. Len(rows'[t])
      PROVE /\ rows'[t][i].cid < nextId'
            /\ \A n \in Names : rows'[t][i].cid # 0 /\ docker'[n].id = rows'[t][i].cid => n = ContainerName[t]
  <2>1. CASE rows'[t][i].cid = 0
    BY <1>1, <2>1
  <2>2. CASE rows'[t][i].cid # 0
    <3>1. PICK c : c = rows'[t][i].cid
      OBVIOUS
    <3>2. \/ \E k \in 1 .. Len(rows[t]) : c = rows[t][k].cid
          \/ \E v \in Workers : on[v] = t /\ c = got[v]
      BY <2>2, <3>1 DEF CidsStay
    <3>3. c < nextId /\ \A n \in Names : docker[n].id = c => n = ContainerName[t]
      BY <2>2, <3>1, <3>2 DEF Ids
    <3> QED BY <1>2, <2>2, <3>1, <3>3
  <2> QED BY <2>1, <2>2
<1>6. ASSUME NEW v \in Workers
      PROVE /\ got'[v] < nextId' /\ (pc'[v] = "idle" => got'[v] = 0)
            /\ \A n \in Names : got'[v] # 0 /\ docker'[n].id = got'[v] => n = ContainerName[on'[v]]
  <2>1. CASE got'[v] = 0
    BY <1>1, <2>1
  <2>2. CASE got'[v] = got[v] /\ on'[v] = on[v] /\ pc'[v] # "idle"
    BY <1>2, <2>2 DEF Ids
  <2>3. CASE /\ on'[v] = on[v] /\ pc'[v] # "idle" /\ ContainerName[on[v]] \in Names
             /\ got'[v] = docker[ContainerName[on[v]]].id
    BY <1>2, <2>3 DEF Ids
  <2> QED BY <2>1, <2>2, <2>3 DEF KnownStay
<1> QED BY <1>2, <1>3, <1>4, <1>5, <1>6 DEF Ids

(* A new container gets an id that no container, row or worker has.        *)
LEMMA IdsGrow ==
    ASSUME RowInv, Ids, NEW w \in Workers, pc[w] # "idle", RunContainer(w)
    PROVE Ids'
<1>1. /\ nextId \in Nat \ {0} /\ rows \in [Tenants -> Seq(Rows)] /\ got \in [Workers -> Nat]
      /\ docker \in [Names -> Containers] /\ ContainerName[on[w]] \in Names
      /\ pc \in [Workers -> Pcs]
  BY Types, RowTypes DEF RowInv, TypeOK, Containers
<1>2. nextId' = nextId + 1 /\ rows' = rows /\ on' = on /\ got' = [got EXCEPT ![w] = nextId]
  BY DEF RunContainer, tenantVars
<1>3. PICK ok \in BOOLEAN :
         docker' = [docker EXCEPT ![ContainerName[on[w]]] = [id |-> nextId, up |-> ok]]
  BY DEF RunContainer
<1>4. \A n \in Names : IF n = ContainerName[on[w]] THEN docker'[n].id = nextId ELSE docker'[n] = docker[n]
  BY <1>1, <1>3
<1>5. \A n \in Names : docker[n].id < nextId /\ docker[n].id \in Nat
  BY <1>1 DEF Ids, Containers
<1>6. \A v \in Workers : pc'[v] = "idle" => v # w /\ pc[v] = "idle"
  BY <1>1 DEF RunContainer, Goto
<1>7. ASSUME NEW n \in Names
      PROVE docker'[n].id < nextId' /\ (docker'[n].id = 0 => docker'[n] = Gone)
  BY <1>1, <1>2, <1>4, <1>5 DEF Ids
<1>8. ASSUME NEW m \in Names, NEW n \in Names, docker'[m].id = docker'[n].id, docker'[m].id # 0
      PROVE m = n
  BY <1>1, <1>4, <1>5, <1>8 DEF Ids
<1>9. ASSUME NEW t \in Tenants, NEW i \in 1 .. Len(rows'[t])
      PROVE /\ rows'[t][i].cid < nextId'
            /\ \A n \in Names : rows'[t][i].cid # 0 /\ docker'[n].id = rows'[t][i].cid => n = ContainerName[t]
  <2>1. rows[t][i].cid \in Nat /\ rows[t][i].cid < nextId
    BY <1>2, RowTypes DEF Ids, Rows
  <2>2. \A n \in Names : rows[t][i].cid # 0 /\ docker[n].id = rows[t][i].cid => n = ContainerName[t]
    BY <1>2 DEF Ids
  <2> QED BY <1>1, <1>2, <1>4, <2>1, <2>2
<1>10. ASSUME NEW v \in Workers
       PROVE /\ got'[v] < nextId' /\ (pc'[v] = "idle" => got'[v] = 0)
             /\ \A n \in Names : got'[v] # 0 /\ docker'[n].id = got'[v] => n = ContainerName[on'[v]]
  <2>1. CASE v = w
    BY <1>1, <1>2, <1>4, <1>5, <1>6, <2>1
  <2>2. CASE v # w
    <3>1. got'[v] = got[v] /\ got[v] < nextId /\ got[v] \in Nat
      BY <1>1, <1>2, <2>2 DEF Ids
    <3> QED BY <1>1, <1>2, <1>4, <1>6, <2>2, <3>1 DEF Ids
  <2> QED BY <2>1, <2>2
<1> QED BY <1>7, <1>8, <1>9, <1>10 DEF Ids

LEMMA WorkKeepsContainers ==
    ASSUME RowInv, Ids, NEW w \in Workers, pc[w] # "idle", Work(w) \/ Fail(w), ~RunContainer(w)
    PROVE nextId' = nextId /\ ContainersStay
<1>1. docker \in [Names -> Containers]
  BY DEF RowInv, TypeOK, Containers
<1>2. CASE StopOld(w) \/ StartOld(w) \/ StopContainer(w) \/ StartContainer(w)
  <2>1. nextId' = nextId /\ (docker' = docker \/ \E up \in BOOLEAN : SetUp(Resolve(on[w], cur[w]), up))
    BY <1>2 DEF StopOld, StopContainer, StartOld, StartContainer, OnlyDocker
  <2>2. \A n \in Resolve(on[w], cur[w]) : docker[n].id # 0
    BY DEF Resolve
  <2> QED BY <1>1, <2>1, <2>2, SetUpEffect DEF ContainersStay
<1>3. CASE ClearName(w) \/ RemoveOld(w) \/ RemoveContainer(w)
  <2>1. nextId' = nextId /\ (docker' = docker \/ \E S : Remove(S))
    BY <1>3 DEF ClearName, RemoveOld, RemoveContainer, OnlyDocker
  <2> QED BY <2>1, RemoveEffect DEF ContainersStay
<1>4. CASE ReadCurrent(w) \/ ReadVersion(w) \/ RenderRelease(w) \/ RemoveLink(w) \/ Symlink(w)
           \/ SymlinkExists(w) \/ CreateInstance(w) \/ EnsureVolume(w) \/ RunConflict(w)
           \/ RejectNew(w) \/ RestoreOld(w) \/ RetireOld(w) \/ PublishNew(w)
  BY <1>4 DEF ReadCurrent, ReadVersion, RenderRelease, RemoveLink, Symlink, SymlinkExists,
     CreateInstance, EnsureVolume, RunConflict, RejectNew, RestoreOld, RetireOld, PublishNew, OnlyRows,
     hostVars, ContainersStay
<1>5. CASE ReadInstance(w) \/ RemoveVolume(w) \/ RemoveWorkspace(w) \/ RecordInstance(w)
           \/ Healthy(w) \/ Unhealthy(w) \/ UpdateTenantStatus(w) \/ Fail(w)
  BY <1>5 DEF ReadInstance, RemoveVolume, RemoveWorkspace, RecordInstance, Healthy, Unhealthy,
     UpdateTenantStatus, Fail, OnlyRows, hostVars, ContainersStay
<1> QED BY <1>2, <1>3, <1>4, <1>5 DEF Work, Deploy, Operate

LEMMA WorkKeepsCids ==
    ASSUME RowInv, NEW w \in Workers, pc[w] # "idle", Work(w) \/ Fail(w)
    PROVE CidsStay
<1>1. /\ on[w] \in Tenants /\ rows \in [Tenants -> Seq(Rows)] /\ cur[w] \in Nat /\ new[w] \in Nat
      /\ got[w] \in Nat /\ TypeOK /\ Owned
  BY Types, RowTypes DEF RowInv
<1>2. ASSUME NEW i \in Nat, NEW s \in Statuses, SetStatus(on[w], i, s) PROVE CidsStay
  <2>1. Len(rows'[on[w]]) = Len(rows[on[w]])
    BY <1>1, <1>2, SetStatusEffect
  <2>2. \A u \in Tenants : u # on[w] => rows'[u] = rows[u]
    BY <1>1, <1>2, SetStatusEffect
  <2>3. \A k \in 1 .. Len(rows[on[w]]) : rows'[on[w]][k].cid = rows[on[w]][k].cid
    BY <1>1, <1>2, SetStatusEffect
  <2> QED BY <2>1, <2>2, <2>3 DEF CidsStay
<1>3. ASSUME NEW i \in Nat, SetRunning(on[w], i, got[w]) PROVE CidsStay
  <2>1. Len(rows'[on[w]]) = Len(rows[on[w]])
    BY <1>1, <1>3, SetRunningEffect
  <2>2. \A u \in Tenants : u # on[w] => rows'[u] = rows[u]
    BY <1>1, <1>3, SetRunningEffect
  <2>3. \A k \in 1 .. Len(rows[on[w]]) : rows'[on[w]][k].cid \in {got[w], rows[on[w]][k].cid}
    BY <1>1, <1>3, SetRunningEffect
  <2> QED BY <2>1, <2>2, <2>3 DEF CidsStay
<1>4. CASE CreateInstance(w)
  <2>1. /\ \A u \in Tenants : u # on[w] => rows'[u] = rows[u]
        /\ Len(rows'[on[w]]) = Len(rows[on[w]]) + 1
        /\ \A k \in 1 .. Len(rows[on[w]]) : rows'[on[w]][k] = rows[on[w]][k]
        /\ rows'[on[w]][Len(rows[on[w]]) + 1].cid = 0
    <3>1. InstanceRow("creating", ver[w]).cid = 0
      BY DEF InstanceRow
    <3>2. rows'[on[w]][Len(rows[on[w]]) + 1] = InstanceRow("creating", ver[w])
      BY <1>4, Equipment, InsertedRow DEF RowInv
    <3>3. \A u \in Tenants : u # on[w] => rows'[u] = rows[u]
      BY <1>4, Equipment, InsertedRow DEF RowInv
    <3>4. Len(rows'[on[w]]) = Len(rows[on[w]]) + 1
      BY <1>4, Equipment, InsertedRow DEF RowInv
    <3>5. \A k \in 1 .. Len(rows[on[w]]) : rows'[on[w]][k] = rows[on[w]][k]
      BY <1>4, Equipment, InsertedRow DEF RowInv
    <3> QED BY <3>1, <3>2, <3>3, <3>4, <3>5
  <2>2. Len(rows[on[w]]) \in Nat
    BY Types
  <2>3. ASSUME NEW k \in 1 .. Len(rows'[on[w]])
        PROVE k \in 1 .. Len(rows[on[w]]) \/ k = Len(rows[on[w]]) + 1
    BY <2>1, <2>2
  <2> QED BY <2>1, <2>3 DEF CidsStay
<1>5. CASE rows' = rows
  BY <1>5 DEF CidsStay
<1>6. CASE RejectNew(w) \/ RestoreOld(w) \/ RetireOld(w)
  <2>1. \/ rows' = rows \/ SetStatus(on[w], new[w], "failed")
        \/ SetStatus(on[w], cur[w], "running") \/ SetStatus(on[w], cur[w], "destroyed")
    BY <1>6 DEF RejectNew, RestoreOld, RetireOld
  <2> QED BY <1>1, <1>2, <1>5, <2>1 DEF Statuses
<1>7. CASE PublishNew(w) \/ RecordInstance(w)
  <2>1. \/ SetStatus(on[w], cur[w], "stopped") \/ SetStatus(on[w], cur[w], "destroyed")
        \/ SetRunning(on[w], cur[w], got[w]) \/ SetRunning(on[w], new[w], got[w])
    BY <1>7 DEF PublishNew, RecordInstance
  <2> QED BY <1>1, <1>2, <1>3, <2>1 DEF Statuses
<1>8. CASE ReadCurrent(w) \/ ReadVersion(w) \/ RenderRelease(w) \/ RemoveLink(w) \/ Symlink(w)
           \/ SymlinkExists(w) \/ StopOld(w) \/ EnsureVolume(w) \/ ClearName(w) \/ RunContainer(w)
           \/ RunConflict(w) \/ StartOld(w) \/ RemoveOld(w)
  BY <1>5, <1>8 DEF ReadCurrent, ReadVersion, RenderRelease, RemoveLink, Symlink, SymlinkExists, StopOld,
     EnsureVolume, ClearName, RunContainer, RunConflict, StartOld, RemoveOld, OnlyDocker, tenantVars
<1>9. CASE ReadInstance(w) \/ StopContainer(w) \/ StartContainer(w) \/ RemoveContainer(w)
           \/ RemoveVolume(w) \/ RemoveWorkspace(w) \/ Healthy(w) \/ Unhealthy(w)
           \/ UpdateTenantStatus(w) \/ Fail(w)
  BY <1>5, <1>9 DEF ReadInstance, StopContainer, StartContainer, RemoveContainer, RemoveVolume, RemoveWorkspace,
     Healthy, Unhealthy, UpdateTenantStatus, Fail, OnlyDocker, tenantVars
<1> QED BY <1>4, <1>6, <1>7, <1>8, <1>9 DEF Work, Deploy, Operate

LEMMA WorkKeepsKnown ==
    ASSUME RowInv, Ids, NEW w \in Workers, pc[w] # "idle", Progress(w), Work(w) \/ Fail(w), ~RunContainer(w)
    PROVE KnownStay
<1>1. TypeOK /\ pc \in [Workers -> Pcs] /\ got \in [Workers -> Nat] /\ ContainerName[on[w]] \in Names
  BY Types DEF RowInv, TypeOK
<1>2. on' = on /\ \E x \in Pcs \ {"idle"} : pc' = [pc EXCEPT ![w] = x]
  BY <1>1, WorkFrame
<1>3. pc'[w] # "idle" /\ \A v \in Workers : v # w => pc'[v] = pc[v]
  BY <1>1, <1>2
<1>4. ASSUME NEW v \in Workers, v # w
      PROVE got'[v] = 0 \/ (got'[v] = got[v] /\ on'[v] = on[v] /\ pc'[v] # "idle")
  <2>1. got'[v] = got[v]
    BY <1>1, <1>4, OtherLocals
  <2> QED BY <1>2, <1>3, <1>4, <2>1 DEF Ids
<1>5. got'[w] = got[w] \/ got'[w] = docker[ContainerName[on[w]]].id
  <2>1. CASE Healthy(w)
    <3>1. PICK n \in Inspected(w) : got' = [got EXCEPT ![w] = docker[n].id]
      BY <2>1 DEF Healthy
    <3>2. pc[w] = "healthy"
      BY <2>1 DEF Healthy, Goto
    <3>3. CASE Type(w) = "deploy"
      BY <1>1, <3>1, <3>3 DEF Inspected
    <3>4. CASE Type(w) # "deploy"
      <4>1. cur[w] \in 1 .. Len(rows[on[w]]) /\ on[w] \in Tenants
        BY Types, <3>2, <3>4 DEF Progress, ReadRow
      <4>2. n = ContainerName[on[w]]
        BY <3>1, <3>4, <4>1, ResolveOwn DEF Inspected
      <4> QED BY <1>1, <3>1, <4>2
    <3> QED BY <3>3, <3>4
  <2>2. CASE Deploy(w)
    BY <2>2 DEF Deploy, ReadCurrent, ReadVersion, RenderRelease, RemoveLink, Symlink, SymlinkExists,
       CreateInstance, StopOld, EnsureVolume, ClearName, RunConflict, RejectNew, StartOld,
       RestoreOld, RemoveOld, RetireOld, PublishNew, OnlyRows, OnlyDocker, localVars
  <2>3. CASE Operate(w) \/ Unhealthy(w) \/ UpdateTenantStatus(w) \/ Fail(w)
    BY <2>3 DEF Operate, ReadInstance, StopContainer, StartContainer, RemoveContainer, RemoveVolume,
       RemoveWorkspace, RecordInstance, Unhealthy, UpdateTenantStatus, Fail, OnlyRows, OnlyDocker, localVars
  <2> QED BY <2>1, <2>2, <2>3 DEF Work
<1> QED BY <1>1, <1>2, <1>3, <1>4, <1>5 DEF KnownStay

LEMMA WorkKeepsIds ==
    ASSUME RowInv, Ids, NEW w \in Workers, pc[w] # "idle", Progress(w), Work(w) \/ Fail(w)
    PROVE Ids'
BY IdsGrow, IdsStay, WorkKeepsContainers, WorkKeepsCids, WorkKeepsKnown

-----------------------------------------------------------------------------
(* The invariant.                                                          *)

(* What a step of a handler does for its own worker and tenant.            *)
LEMMA WorkOnOwnTenant ==
    ASSUME RowInv, Ids, NEW w \in Workers, pc[w] # "idle", Progress(w), Standing(on[w]), Work(w) \/ Fail(w)
    PROVE Progress(w)' /\ Reachable(on[w])'
<1>1. Reachable(on[w]) /\ (Type(w) # "deploy" => rows[on[w]] # <<>>)
  BY Types DEF Standing, Type
<1>2. CASE \/ ReadCurrent(w) \/ ReadVersion(w) \/ SymlinkExists(w) \/ RunConflict(w)
           \/ ReadInstance(w) \/ Unhealthy(w) \/ Fail(w)
  <2>1. UNCHANGED <<on, rows, docker>>
    BY <1>2 DEF ReadCurrent, ReadVersion, SymlinkExists, RunConflict, ReadInstance, Unhealthy, Fail,
       tenantVars, hostVars, localVars
  <2> QED BY <1>1, <1>2, <2>1, ReadingProgress DEF Reachable, Container, CurrentRow
<1>3. CASE \/ RenderRelease(w) \/ RemoveLink(w) \/ Symlink(w) \/ EnsureVolume(w)
           \/ RemoveVolume(w) \/ RemoveWorkspace(w) \/ UpdateTenantStatus(w) \/ Healthy(w)
  <2>1. UNCHANGED <<on, rows, docker>>
    BY <1>3 DEF RenderRelease, RemoveLink, Symlink, EnsureVolume, RemoveVolume, RemoveWorkspace,
       UpdateTenantStatus, Healthy, tenantVars, hostVars, localVars
  <2> QED BY <1>1, <1>3, <2>1, FileProgress, HealthyProgress DEF Reachable, Container, CurrentRow
<1>4. CASE \/ CreateInstance(w) \/ RejectNew(w) \/ RestoreOld(w) \/ RetireOld(w) \/ PublishNew(w)
           \/ RecordInstance(w)
  BY <1>1, <1>4, RowProgress
<1>5. CASE \/ StopOld(w) \/ ClearName(w) \/ RunContainer(w) \/ StartOld(w) \/ RemoveOld(w)
           \/ StopContainer(w) \/ StartContainer(w) \/ RemoveContainer(w)
  BY <1>1, <1>5, DeployDockerProgress, OperateDockerProgress
<1> QED BY <1>2, <1>3, <1>4, <1>5 DEF Work, Deploy, Operate

(* Rows are never deleted.                                                 *)
LEMMA RowsRemain ==
    ASSUME RowInv, NEW w \in Workers, pc[w] # "idle", Work(w) \/ Fail(w), rows[on[w]] # <<>>
    PROVE rows'[on[w]] # <<>>
<1>1. /\ on[w] \in Tenants /\ rows \in [Tenants -> Seq(Rows)] /\ Len(rows[on[w]]) \in Nat
      /\ Len(rows[on[w]]) # 0 /\ TypeOK /\ Owned
  BY Types, RowTypes DEF RowInv
<1>2. ASSUME NEW i \in Nat, NEW s \in Statuses, SetStatus(on[w], i, s) PROVE Len(rows'[on[w]]) # 0
  BY <1>1, <1>2, SetStatusEffect
<1>3. ASSUME NEW i \in Nat, NEW c \in Nat, SetRunning(on[w], i, c) PROVE Len(rows'[on[w]]) # 0
  BY <1>1, <1>3, SetRunningEffect
<1>4. CASE CreateInstance(w)
  <2>1. Len(rows'[on[w]]) = Len(rows[on[w]]) + 1
    BY <1>4, Equipment, InsertedRow DEF RowInv
  <2>2. Len(rows'[on[w]]) # 0
    BY <1>1, <2>1
  <2> QED BY <2>2
<1> QED BY <1>1, <1>2, <1>3, <1>4, Equipment, RowSteps

(* A step of a handler.                                                    *)
LEMMA WorkKeepsAgreeInv ==
    ASSUME OwnNames, AgreeInv, NEW w \in Workers, pc[w] # "idle", Work(w) \/ Fail(w)
    PROVE AgreeInv'
<1>1. RowInv /\ Ids /\ Progress(w) /\ on[w] \in Tenants /\ Standing(on[w]) /\ TypeOK
  BY Types DEF AgreeInv, RowInv
<1>2. /\ UNCHANGED <<on, job, active, last>> /\ exits' = exits
      /\ \E x \in Pcs \ {"idle"} : pc' = [pc EXCEPT ![w] = x]
  BY <1>1, WorkFrame, CountersTyped
<1>3. RowInv' /\ Ids'
  BY <1>1, WorkKeepsRowInv, WorkKeepsIds
<1>4. Progress(w)' /\ Reachable(on[w])'
  BY <1>1, WorkOnOwnTenant
<1>5. ASSUME NEW u \in Tenants, u # on[w]
      PROVE /\ rows'[u] = rows[u] /\ tstatus'[u] = tstatus[u]
            /\ volume'[u] = volume[u] /\ releases'[u] = releases[u] /\ link'[u] = link[u]
            /\ docker'[ContainerName[u]] = docker[ContainerName[u]]
  <2>1. ContainerName[u] \in Names /\ ContainerName[u] # ContainerName[on[w]]
    BY <1>1, <1>5, ContainerNameAssumption DEF OwnNames
  <2>2. ReadRow(w)
    BY <1>1 DEF Progress
  <2>3. docker'[ContainerName[u]] = docker[ContainerName[u]]
    BY <1>1, <2>1, <2>2, OtherContainers
  <2> QED BY <1>1, <1>5, <2>3, OtherTenants
<1>6. ASSUME NEW v \in Workers PROVE Progress(v)'
  <2>1. CASE v = w
    BY <1>4, <2>1
  <2>2. CASE v # w /\ pc[v] = "idle"
    BY <1>1, <1>2, <2>2 DEF Progress, TypeOK
  <2>3. CASE v # w /\ pc[v] # "idle"
    <3>1. on[v] \in Tenants /\ on[v] # on[w]
      BY <1>1, <2>3, NoTenantAssumption, Types DEF RowInv, Owned
    <3>2. cur'[v] = cur[v] /\ new'[v] = new[v] /\ ver'[v] = ver[v] /\ got'[v] = got[v]
      BY <1>1, <2>3, OtherLocals
    <3>3. pc'[v] = pc[v] /\ Progress(v)
      BY <1>1, <1>2, <2>3 DEF AgreeInv, TypeOK
    <3> QED BY <1>2, <1>5, <3>1, <3>2, <3>3, ProgressStays
  <2> QED BY <2>1, <2>2, <2>3
<1>7. ASSUME NEW u \in Tenants PROVE Standing(u)'
  <2>1. CASE u = on[w]
    <3>1. active'[u] # NoJob /\ Reachable(u)'
      BY <1>1, <1>2, <1>4, <2>1, Types
    <3>2. active'[u].type # "deploy" => rows'[u] # <<>>
      BY <1>1, <1>2, <2>1, <3>1, RowsRemain DEF Standing
    <3> QED BY <3>1, <3>2 DEF Standing, Quiet
  <2>2. CASE u # on[w]
    BY <1>2, <1>5, <2>2, StandingStays DEF AgreeInv
  <2> QED BY <2>1, <2>2
<1> QED BY <1>3, <1>6, <1>7 DEF AgreeInv

(* A job that is done, successfully or not, or left by a dying worker.     *)
LEMMA LeaveKeepsAgreeInv ==
    ASSUME AgreeInv, NEW w \in Workers, pc[w] # "idle", Finish(w) \/ Crash(w)
    PROVE AgreeInv'
<1>1. RowInv /\ Ids /\ Progress(w) /\ on[w] \in Tenants /\ Standing(on[w]) /\ TypeOK
  BY Types DEF AgreeInv, RowInv
<1>2. UNCHANGED <<rows, tstatus, docker, nextId, volume, releases, link, exits>> /\ Leave(w)
  BY DEF Finish, Crash, tenantVars, hostVars, counters
<1>3. /\ pc'[w] = "idle" /\ got'[w] = 0
      /\ \A v \in Workers : v # w =>
            /\ pc'[v] = pc[v] /\ on'[v] = on[v] /\ job'[v] = job[v]
            /\ cur'[v] = cur[v] /\ new'[v] = new[v] /\ ver'[v] = ver[v] /\ got'[v] = got[v]
  BY <1>1, <1>2 DEF Leave, TypeOK
<1>4. RowInv'
  BY <1>1, LeaveKeepsRowInv
<1>5. Ids'
  <2>1. ContainersStay /\ CidsStay
    BY <1>2 DEF ContainersStay, CidsStay
  <2>2. KnownStay
    BY <1>1, <1>3 DEF KnownStay, Ids
  <2> QED BY <1>1, <1>2, <2>1, <2>2, IdsStay
<1>6. ASSUME NEW v \in Workers PROVE Progress(v)'
  <2>1. CASE v = w
    BY <1>3, <2>1 DEF Progress
  <2>2. CASE v # w
    BY <1>2, <1>3, <2>2, ProgressStays DEF AgreeInv
  <2> QED BY <2>1, <2>2
<1>7. ASSUME NEW u \in Tenants PROVE Standing(u)'
  <2>1. CASE active'[u] = active[u] /\ last'[u] = last[u]
    BY <1>2, <2>1, StandingStays DEF AgreeInv
  <2>2. CASE u = on[w] /\ Finish(w)
    <3>1. active'[u] = NoJob /\ last'[u] = [job |-> job[w], ok |-> (pc[w] = "done")]
      BY <1>1, <2>2 DEF Finish, Remember, TypeOK
    <3>2. pc[w] = "done" => Agree(u, job[w])
      BY <1>1, <2>2 DEF Progress
    <3>3. last'[u].job = job[w] /\ last'[u].ok = (pc[w] = "done")
      BY <3>1
    <3>5. Agree(u, job[w]) => Agree(u, last[u].job)'
      BY <1>2, <3>3 DEF Agree, Container, CurrentRow
    <3>4. Reachable(u)'
      BY <1>1, <1>2, <2>2 DEF Standing, Reachable, Container, CurrentRow
    <3> QED BY <3>1, <3>2, <3>3, <3>4, <3>5 DEF Standing
  <2>3. CASE Crash(w)
    BY <2>1, <2>3 DEF Crash, tenantVars
  <2>4. CASE u # on[w] /\ Finish(w)
    BY <1>1, <2>1, <2>4 DEF Finish, Remember, TypeOK
  <2> QED BY <2>2, <2>3, <2>4
<1> QED BY <1>4, <1>5, <1>6, <1>7 DEF AgreeInv

(* A container that exits was up, and from then on one may be down.        *)
LEMMA ExitKeepsAgreeInv ==
    ASSUME AgreeInv, NEW m \in Names, ContainerExits(m)
    PROVE AgreeInv'
<1>1. RowInv /\ Ids /\ TypeOK /\ docker \in [Names -> Containers] /\ exits \in Nat
  BY Bounds DEF AgreeInv, RowInv, TypeOK, Containers
<1>2. /\ UNCHANGED <<rows, tstatus, active, last, nextId, volume, releases, link, pc, on, job, cur, new,
                     ver, got>>
      /\ exits' > 0
  BY <1>1 DEF ContainerExits, tenantVars, localVars
<1>3. \A n \in Names : /\ docker'[n].id = docker[n].id
                       /\ docker'[n].up => docker[n].up
                       /\ docker[n] = Gone => docker'[n] = Gone
                       /\ docker'[n] = docker[n] \/ docker[n].id # 0
  <2>1. docker[m].up /\ SetUp({m}, FALSE)
    BY DEF ContainerExits
  <2>2. docker[m].id # 0
    BY <1>1, <2>1 DEF Ids, Gone
  <2>3. \A n \in Names : /\ docker'[n].id = docker[n].id
                         /\ n = m => docker'[n].up = FALSE
                         /\ n # m => docker'[n] = docker[n]
    <3>1. \A n \in Names : /\ docker'[n].id = docker[n].id
                           /\ n \in {m} => docker'[n].up = FALSE
                           /\ n \notin {m} => docker'[n] = docker[n]
      BY <1>1, <2>1, SetUpEffect
    <3> QED BY <3>1
  <2> QED BY <2>2, <2>3 DEF Gone
<1>4. RowInv'
  BY <1>1, QueueKeepsRowInv
<1>5. Ids'
  <2>1. ContainersStay
    BY <1>3 DEF ContainersStay
  <2>2. CidsStay
    BY <1>2 DEF CidsStay
  <2>3. KnownStay
    BY <1>1, <1>2 DEF KnownStay, Ids
  <2> QED BY <1>1, <1>2, <2>1, <2>2, <2>3, IdsStay
<1>6. ASSUME NEW u \in Tenants
      PROVE /\ Container(u)'.id = Container(u).id
            /\ Container(u)'.up => Container(u).up
            /\ Container(u) = Gone => Container(u)' = Gone
  BY <1>3, ContainerNameAssumption DEF Container
<1>7. ASSUME NEW v \in Workers PROVE Progress(v)'
  <2>1. Progress(v)
    BY DEF AgreeInv
  <2>2. CASE pc[v] = "idle"
    BY <1>2, <2>2 DEF Progress
  <2>3. CASE pc[v] # "idle"
    <3>1. on[v] \in Tenants
      BY <1>1, <2>3, Types
    <3>2. ReadRow(v)' /\ Rendered(v)' /\ Inserted(v)'
      BY <1>2, <2>1, <2>3 DEF Progress, ReadRow, Rendered, Inserted, Type, CurrentRow
    <3>3. Launched(v)'
      BY <1>2, <1>6, <2>1, <2>3, <3>1 DEF Progress, Launched, Type
    <3>4. Operated(v)'
      BY <1>2, <1>6, <2>1, <2>3, <3>1 DEF Progress, Operated, Type
    <3>5. pc[v] = "status" => Settled(on[v], job[v])'
      BY <1>2, <1>6, <2>1, <2>3, <3>1 DEF Progress, Settled, CurrentRow
    <3>6. pc[v] = "done" => Agree(on[v], job[v])'
      BY <1>2, <1>6, <2>1, <2>3, <3>1 DEF Progress, Agree, CurrentRow
    <3> QED BY <1>2, <3>2, <3>3, <3>4, <3>5, <3>6 DEF Progress
  <2> QED BY <2>2, <2>3
<1>8. ASSUME NEW u \in Tenants PROVE Standing(u)'
  <2>1. Standing(u)
    BY DEF AgreeInv
  <2>2. Reachable(u)'
    BY <1>2, <1>6, <2>1 DEF Standing, Reachable, CurrentRow
  <2>3. Agree(u, last[u].job) => Agree(u, last[u].job)'
    BY <1>2, <1>6 DEF Agree, CurrentRow
  <2> QED BY <1>2, <2>1, <2>2, <2>3 DEF Standing, Quiet
<1> QED BY <1>4, <1>5, <1>7, <1>8 DEF AgreeInv

(* A job is admitted, or begun.                                            *)
LEMMA QueueKeepsAgreeInv ==
    ASSUME AgreeInv,
           \/ \E t \in Tenants, j \in JobSet : Enqueue(t, j)
           \/ \E w \in Workers, t \in Tenants : Begin(w, t)
    PROVE AgreeInv'
<1>1. RowInv /\ Ids /\ TypeOK /\ RowInv'
  BY QueueKeepsRowInv DEF AgreeInv, RowInv
<1>2. UNCHANGED <<rows, tstatus, last, docker, nextId, volume, releases, link, cur, new, ver, got, exits>>
  BY DEF Enqueue, Begin, Start, tenantVars, hostVars, localVars, counters
<1>3. ContainersStay /\ CidsStay
  BY <1>2 DEF ContainersStay, CidsStay
<1>4. ASSUME NEW t \in Tenants, NEW j \in JobSet, Enqueue(t, j) PROVE AgreeInv'
  <2>1. UNCHANGED <<pc, on, job>> /\ active' = [active EXCEPT ![t] = j] /\ (j.type # "deploy" => rows[t] # <<>>)
    BY <1>4 DEF Enqueue, localVars
  <2>2. Ids'
    <3>1. KnownStay
      BY <1>1, <1>2, <2>1 DEF KnownStay, Ids
    <3> QED BY <1>1, <1>2, <1>3, <3>1, IdsStay
  <2>3. ASSUME NEW v \in Workers PROVE Progress(v)'
    BY <1>2, <2>1, ProgressStays DEF AgreeInv
  <2>4. ASSUME NEW u \in Tenants PROVE Standing(u)'
    <3>1. CASE u # t
      <4>1. active'[u] = active[u]
        BY <1>1, <2>1, <3>1 DEF TypeOK
      <4> QED BY <1>2, <4>1, StandingStays DEF AgreeInv
    <3>2. CASE u = t
      <4>1. active'[u] = j /\ j # NoJob
        BY <1>1, <2>1, <3>2, JobTypes DEF TypeOK
      <4>2. Reachable(u)'
        BY <1>2 DEF AgreeInv, Standing, Reachable, Container, CurrentRow
      <4> QED BY <1>2, <2>1, <3>2, <4>1, <4>2 DEF Standing, Quiet
    <3> QED BY <3>1, <3>2
  <2> QED BY <1>1, <2>2, <2>3, <2>4 DEF AgreeInv
<1>5. ASSUME NEW w \in Workers, NEW t \in Tenants, Begin(w, t) PROVE AgreeInv'
  <2>1. /\ active' = active /\ pc[w] = "idle" /\ pc'[w] = "read"
        /\ \A v \in Workers : v # w => pc'[v] = pc[v] /\ on'[v] = on[v] /\ job'[v] = job[v]
    BY <1>1, <1>5 DEF Begin, Start, tenantVars, TypeOK
  <2>2. Ids'
    <3>1. KnownStay
      BY <1>1, <1>2, <2>1 DEF KnownStay, Ids
    <3> QED BY <1>1, <1>2, <1>3, <3>1, IdsStay
  <2>3. ASSUME NEW v \in Workers PROVE Progress(v)'
    <3>1. CASE v = w
      BY <2>1, <3>1 DEF Progress, ReadRow, Rendered, Inserted, Launched, Operated, Deploying, Operating
    <3>2. CASE v # w
      BY <1>2, <2>1, <3>2, ProgressStays DEF AgreeInv
    <3> QED BY <3>1, <3>2
  <2>4. ASSUME NEW u \in Tenants PROVE Standing(u)'
    BY <1>2, <2>1, StandingStays DEF AgreeInv
  <2> QED BY <1>1, <2>2, <2>3, <2>4 DEF AgreeInv
<1> QED BY <1>4, <1>5

(* AgreeInv is an inductive invariant.                                     *)
THEOREM AgreeInvariant == ASSUME OwnNames PROVE Spec => []AgreeInv
<1>1. Init => AgreeInv
  <2> SUFFICES ASSUME Init PROVE AgreeInv
    OBVIOUS
  <2>1. RowInv
    BY InitRowInv
  <2>2. /\ nextId = 1 /\ \A n \in Names : docker[n] = Gone
        /\ \A t \in Tenants : rows[t] = <<>> /\ active[t] = NoJob /\ ~last[t].ok
        /\ \A w \in Workers : pc[w] = "idle" /\ got[w] = 0
    BY DEF Init
  <2>3. Ids
    BY <2>2 DEF Ids, Gone
  <2>4. \A w \in Workers : Progress(w)
    BY <2>2 DEF Progress
  <2>5. \A t \in Tenants : Standing(t)
    BY <2>2, ContainerNameAssumption DEF Standing, Reachable, Container
  <2> QED BY <2>1, <2>3, <2>4, <2>5 DEF AgreeInv
<1>2. AgreeInv /\ [Next]_vars => AgreeInv'
  <2> SUFFICES ASSUME AgreeInv, [Next]_vars PROVE AgreeInv'
    OBVIOUS
  <2>1. CASE UNCHANGED vars
    <3>1. RowInv'
      BY <2>1, RowInvStutters DEF AgreeInv
    <3>2. UNCHANGED <<rows, tstatus, active, last, docker, nextId, volume, releases, link, pc, on, job,
                      cur, new, ver, got, exits>>
      BY <2>1 DEF vars, tenantVars, hostVars, localVars, counters
    <3>3. Ids'
      BY <3>2 DEF AgreeInv, Ids
    <3>4. \A v \in Workers : Progress(v)'
      BY <3>2, ProgressStays DEF AgreeInv
    <3>5. \A u \in Tenants : Standing(u)'
      BY <3>2, StandingStays DEF AgreeInv
    <3> QED BY <3>1, <3>3, <3>4, <3>5 DEF AgreeInv
  <2> QED BY <2>1, WorkKeepsAgreeInv, LeaveKeepsAgreeInv, ExitKeepsAgreeInv, QueueKeepsAgreeInv DEF Next, Rest
<1> QED BY <1>1, <1>2, PTL DEF Spec

-----------------------------------------------------------------------------
(* Rows that are left running.                                             *)

(* A running row has a container id; a deploy that has not inserted its    *)
(* row has the latest one in hand or none; and the name is free when       *)
(* docker run is called.                                                   *)
InHand ==
    /\ \A t \in Tenants : \A i \in 1 .. Len(rows[t]) : rows[t][i].status = "running" => rows[t][i].cid # 0
    /\ \A w \in Workers : pc[w] \in {"version", "render", "unlink", "link", "insert"} =>
          cur[w] \in {0, Len(rows[on[w]])}
    /\ \A w \in Workers : pc[w] = "run" => Container(on[w]) = Gone

(* The deploy of a worker is on the way to retire the row it has in hand,  *)
(* or to set it to running again, or it has none in hand.                  *)
Replacing(w) ==
    /\ Type(w) = "deploy"
    /\ \/ pc[w] \in {"stop_old", "volumes", "clear", "run", "remove_old", "retire"}
       \/ pc[w] = "healthy" /\ Container(on[w]).up

Reviving(w) ==
    /\ Type(w) = "deploy"
    /\ \/ pc[w] \in {"reject", "revive", "restore"}
       \/ pc[w] = "healthy" /\ ~Container(on[w]).up

Missing(w) == pc[w] \in {"version", "render", "unlink", "link", "insert"} /\ cur[w] = 0

(* The rows a worker leaves running if nothing goes wrong from here on.    *)
Due(w) ==
    {i \in 1 .. Len(rows[on[w]]) :
        \/ i \in LeftRunning(on[w]) /\ ~(Replacing(w) /\ cur[w] = i)
        \/ Reviving(w) /\ cur[w] = i
        \/ Missing(w) /\ i = Len(rows[on[w]]) /\ rows[on[w]][i].status = "running"}

(* Nobody is on a tenant, or one worker, and what is due of it was paid.   *)
Paid ==
    /\ \A t \in Tenants : (\A w \in Workers : on[w] # t) => Cardinality(LeftRunning(t)) <= faults + exits
    /\ \A w \in Workers : pc[w] # "idle" => Cardinality(Due(w)) <= faults + exits

(* What a step of a handler leaves to another worker.                      *)
LEMMA OtherWorkers ==
    ASSUME OwnNames, AgreeInv, NEW w \in Workers, pc[w] # "idle", Work(w) \/ Fail(w),
           NEW v \in Workers, v # w
    PROVE /\ pc'[v] = pc[v] /\ on'[v] = on[v] /\ job'[v] = job[v] /\ cur'[v] = cur[v]
          /\ pc[v] # "idle" => /\ rows'[on[v]] = rows[on[v]]
                               /\ docker'[ContainerName[on[v]]] = docker[ContainerName[on[v]]]
<1>1. RowInv /\ Ids /\ TypeOK /\ Owned /\ on[w] \in Tenants /\ ReadRow(w)
  BY Types DEF AgreeInv, RowInv, Progress
<1>2. UNCHANGED <<on, job>> /\ \E x \in Pcs \ {"idle"} : pc' = [pc EXCEPT ![w] = x]
  BY <1>1, WorkFrame
<1>3. pc'[v] = pc[v] /\ cur'[v] = cur[v]
  BY <1>1, <1>2, OtherLocals DEF TypeOK
<1>4. CASE pc[v] # "idle"
  <2>1. on[v] \in Tenants /\ on[v] # on[w]
    BY <1>1, <1>4, NoTenantAssumption, Types DEF Owned
  <2>2. ContainerName[on[v]] \in Names /\ ContainerName[on[v]] # ContainerName[on[w]]
    BY <1>1, <2>1, ContainerNameAssumption DEF OwnNames
  <2> QED BY <1>1, <1>2, <1>3, <2>1, <2>2, OtherTenants, OtherContainers
<1> QED BY <1>2, <1>3, <1>4

(* The rows of the tenant a handler is at work on, in four kinds of steps. *)
LEMMA RowChanges ==
    ASSUME AgreeInv, NEW w \in Workers, pc[w] # "idle", Work(w) \/ Fail(w)
    PROVE \/ rows' = rows
          \/ CreateInstance(w)
          \/ RejectNew(w) /\ SetStatus(on[w], new[w], "failed")
          \/ RestoreOld(w) /\ SetStatus(on[w], cur[w], "running")
          \/ RetireOld(w) /\ SetStatus(on[w], cur[w], "destroyed")
          \/ PublishNew(w) /\ SetRunning(on[w], new[w], got[w])
          \/ RecordInstance(w) /\ Type(w) = "stop" /\ SetStatus(on[w], cur[w], "stopped")
          \/ RecordInstance(w) /\ Type(w) = "destroy" /\ SetStatus(on[w], cur[w], "destroyed")
          \/ RecordInstance(w) /\ Type(w) \in Starts /\ SetRunning(on[w], cur[w], got[w])
<1>1. CASE ReadCurrent(w) \/ ReadVersion(w) \/ RenderRelease(w) \/ RemoveLink(w) \/ Symlink(w)
           \/ SymlinkExists(w) \/ StopOld(w) \/ EnsureVolume(w) \/ ClearName(w) \/ RunContainer(w)
           \/ RunConflict(w) \/ StartOld(w) \/ RemoveOld(w)
  BY <1>1 DEF ReadCurrent, ReadVersion, RenderRelease, RemoveLink, Symlink, SymlinkExists, StopOld,
     EnsureVolume, ClearName, RunContainer, RunConflict, StartOld, RemoveOld, OnlyDocker, tenantVars
<1>2. CASE ReadInstance(w) \/ StopContainer(w) \/ StartContainer(w) \/ RemoveContainer(w)
           \/ RemoveVolume(w) \/ RemoveWorkspace(w) \/ Healthy(w) \/ Unhealthy(w)
           \/ UpdateTenantStatus(w) \/ Fail(w)
  BY <1>2 DEF ReadInstance, StopContainer, StartContainer, RemoveContainer, RemoveVolume, RemoveWorkspace,
     Healthy, Unhealthy, UpdateTenantStatus, Fail, OnlyDocker, tenantVars
<1>3. CASE RejectNew(w) \/ RestoreOld(w) \/ RetireOld(w) \/ PublishNew(w)
  BY <1>3 DEF RejectNew, RestoreOld, RetireOld, PublishNew
<1>4. CASE RecordInstance(w)
  BY <1>4 DEF RecordInstance
<1> QED BY <1>1, <1>2, <1>3, <1>4 DEF Work, Deploy, Operate

(* Whoever sets a row to running gives it a container id, or it has one.   *)
LEMMA RunningHasCid ==
    ASSUME AgreeInv, InHand, NEW w \in Workers, pc[w] # "idle", Work(w) \/ Fail(w),
           NEW i \in 1 .. Len(rows'[on[w]]), rows'[on[w]][i].status = "running"
    PROVE rows'[on[w]][i].cid # 0
<1>1. /\ RowInv /\ Progress(w) /\ on[w] \in Tenants /\ rows \in [Tenants -> Seq(Rows)]
      /\ cur[w] \in Nat /\ new[w] \in Nat /\ got[w] \in Nat /\ TypeOK /\ Equipped(w)
      /\ Len(rows[on[w]]) \in Nat
  BY Types, RowTypes, Equipment DEF AgreeInv, RowInv
<1>2. \A k \in 1 .. Len(rows[on[w]]) : rows[on[w]][k].status = "running" => rows[on[w]][k].cid # 0
  BY <1>1 DEF InHand
<1>3. CASE CreateInstance(w)
  <2>1. i # Len(rows[on[w]]) + 1
    <3>1. rows'[on[w]][Len(rows[on[w]]) + 1] = InstanceRow("creating", ver[w])
      BY <1>1, <1>3, InsertedRow
    <3> QED BY <3>1 DEF InstanceRow
  <2>2. Len(rows'[on[w]]) = Len(rows[on[w]]) + 1
    BY <1>1, <1>3, InsertedRow
  <2>3. i \in 1 .. Len(rows[on[w]])
    BY <1>1, <2>1, <2>2
  <2>4. rows'[on[w]][i] = rows[on[w]][i]
    BY <1>1, <1>3, <2>3, InsertedRow
  <2> QED BY <1>2, <2>3, <2>4
<1>4. ASSUME NEW k \in Nat, NEW s \in Statuses \ {"running"}, SetStatus(on[w], k, s)
      PROVE rows'[on[w]][i].cid # 0
  <2>1. /\ Len(rows'[on[w]]) = Len(rows[on[w]])
        /\ \A j \in 1 .. Len(rows[on[w]]) :
              /\ rows'[on[w]][j].cid = rows[on[w]][j].cid
              /\ rows'[on[w]][j].status = "running" => rows[on[w]][j].status = "running"
    <3>1. s \in Statuses /\ s # "running" /\ rows \in [Tenants -> Seq(Rows)] /\ on[w] \in Tenants
      BY <1>1
    <3> QED BY <1>4, <3>1, SetStatusEffect
  <2> QED BY <1>2, <2>1
<1>5. CASE RestoreOld(w) /\ SetStatus(on[w], cur[w], "running")
  <2>1. rows[on[w]][cur[w]].cid # 0
    BY <1>1, <1>5 DEF RestoreOld, Goto, Progress, ReadRow, Deploying
  <2>2. /\ i \in 1 .. Len(rows[on[w]]) /\ rows'[on[w]][i].cid = rows[on[w]][i].cid
        /\ i # cur[w] => rows[on[w]][i].status = "running"
    BY <1>1, <1>5, SetStatusEffect DEF Statuses
  <2> QED BY <1>2, <2>1, <2>2
<1>6. ASSUME NEW k \in Nat, got[w] # 0, SetRunning(on[w], k, got[w]) PROVE rows'[on[w]][i].cid # 0
  <2>1. /\ Len(rows'[on[w]]) = Len(rows[on[w]])
        /\ \A j \in 1 .. Len(rows[on[w]]) :
              /\ rows'[on[w]][j].cid = IF j = k THEN got[w] ELSE rows[on[w]][j].cid
              /\ rows'[on[w]][j].status = IF j = k THEN "running" ELSE rows[on[w]][j].status
    BY <1>1, <1>6, SetRunningEffect
  <2> QED BY <1>2, <1>6, <2>1
<1>7. CASE PublishNew(w) /\ SetRunning(on[w], new[w], got[w])
  <2>1. got[w] # 0
    BY <1>1, <1>7 DEF PublishNew, Goto, Progress, ReadRow, Launched, Deploying
  <2> QED BY <1>1, <1>6, <1>7, <2>1
<1>8. CASE RecordInstance(w) /\ Type(w) \in Starts /\ SetRunning(on[w], cur[w], got[w])
  <2>1. got[w] # 0
    BY <1>1, <1>8 DEF RecordInstance, Goto, Progress, Operated
  <2> QED BY <1>1, <1>6, <1>8, <2>1
<1> QED BY <1>1, <1>2, <1>3, <1>4, <1>5, <1>7, <1>8, RowChanges DEF Statuses

(* The steps from the query of the current row to the INSERT are taken one *)
(* after the other, and before docker run its name is cleared.             *)
LEMMA HandMoves ==
    ASSUME AgreeInv, InHand, NEW w \in Workers, pc[w] # "idle", Work(w) \/ Fail(w)
    PROVE /\ pc'[w] \in {"version", "render", "unlink", "link", "insert"} =>
                /\ cur'[w] \in {0, Len(rows[on[w]])} /\ rows' = rows
          /\ pc'[w] = "run" => docker'[ContainerName[on[w]]] = Gone
<1>1. pc \in [Workers -> Pcs] /\ cur \in [Workers -> Nat] /\ ContainerName[on[w]] \in Names
  BY Types DEF AgreeInv, RowInv, TypeOK
<1>2. CASE ReadCurrent(w)
  BY <1>1, <1>2 DEF ReadCurrent, Goto, Latest, tenantVars
<1>3. CASE ReadVersion(w) \/ RenderRelease(w) \/ RemoveLink(w) \/ Symlink(w) \/ SymlinkExists(w)
  BY <1>1, <1>3 DEF ReadVersion, RenderRelease, RemoveLink, Symlink, SymlinkExists, Goto, InHand, tenantVars,
     localVars
<1>4. CASE CreateInstance(w) \/ StopOld(w) \/ EnsureVolume(w) \/ RunContainer(w) \/ RunConflict(w)
           \/ RejectNew(w) \/ StartOld(w) \/ RestoreOld(w) \/ RemoveOld(w) \/ RetireOld(w) \/ PublishNew(w)
  BY <1>1, <1>4 DEF CreateInstance, StopOld, EnsureVolume, RunContainer, RunConflict, RejectNew, StartOld,
     RestoreOld, RemoveOld, RetireOld, PublishNew, Goto
<1>5. CASE ClearName(w)
  BY <1>1, <1>5, RemoveEffect DEF ClearName, Goto
<1>6. CASE ReadInstance(w) \/ StopContainer(w) \/ StartContainer(w) \/ RemoveContainer(w)
           \/ RemoveVolume(w) \/ RemoveWorkspace(w) \/ RecordInstance(w)
  BY <1>1, <1>6 DEF ReadInstance, StopContainer, StartContainer, RemoveContainer, RemoveVolume, RemoveWorkspace,
     RecordInstance, Goto
<1>7. CASE Healthy(w) \/ Unhealthy(w) \/ UpdateTenantStatus(w) \/ Fail(w)
  BY <1>1, <1>7 DEF Healthy, AfterHealthy, Unhealthy, UpdateTenantStatus, Fail, Goto
<1> QED BY <1>2, <1>3, <1>4, <1>5, <1>6, <1>7 DEF Work, Deploy, Operate

LEMMA WorkKeepsInHand ==
    ASSUME OwnNames, AgreeInv, InHand, NEW w \in Workers, pc[w] # "idle", Work(w) \/ Fail(w)
    PROVE InHand'
<1>1. RowInv /\ TypeOK /\ on[w] \in Tenants /\ on' = on
  BY Types, WorkFrame DEF AgreeInv, RowInv
<1>2. ASSUME NEW t \in Tenants, NEW i \in 1 .. Len(rows'[t]), rows'[t][i].status = "running"
      PROVE rows'[t][i].cid # 0
  <2>1. CASE t = on[w]
    BY <1>2, <2>1, RunningHasCid
  <2>2. CASE t # on[w]
    <3>1. rows'[t] = rows[t]
      BY <1>1, <2>2, OtherTenants
    <3> QED BY <1>2, <3>1 DEF InHand
  <2> QED BY <2>1, <2>2
<1>3. ASSUME NEW v \in Workers
      PROVE /\ pc'[v] \in {"version", "render", "unlink", "link", "insert"} =>
                  cur'[v] \in {0, Len(rows'[on'[v]])}
            /\ pc'[v] = "run" => docker'[ContainerName[on'[v]]] = Gone
  <2>1. CASE v = w
    BY <1>1, <2>1, HandMoves
  <2>2. CASE v # w
    BY <2>2, OtherWorkers DEF InHand, Container
  <2> QED BY <2>1, <2>2
<1> QED BY <1>2, <1>3 DEF InHand, Container

-----------------------------------------------------------------------------
(* Who pays for a row that is left running.                                *)

(* What a step may add to what is due, and what it costs.                  *)
Adds(w, S) ==
    /\ Due(w)' \subseteq Due(w) \cup S
    /\ faults' = faults \/ faults' = faults + 1
    /\ S # {} => faults' = faults + 1

(* A row is retired, or set to running again, when that was due.           *)
LEMMA DueKept ==
    ASSUME NEW w \in Workers, on'[w] = on[w], cur'[w] = cur[w], cur[w] \in Nat,
           Len(rows'[on[w]]) = Len(rows[on[w]]), Len(rows[on[w]]) \in Nat,
           \A k \in 1 .. Len(rows[on[w]]) - 1 : rows'[on[w]][k].status = "running" =>
               rows[on[w]][k].status = "running" \/ (k = cur[w] /\ Reviving(w)),
           Replacing(w) => Replacing(w)' \/ cur[w] = 0 \/ rows'[on[w]][cur[w]].status # "running",
           Reviving(w)' => Reviving(w) \/ cur[w] = 0,
           Missing(w)' => Missing(w) /\ rows' = rows
    PROVE Due(w)' \subseteq Due(w)
BY DEF Due, LeftRunning

(* A failure in the middle of a deploy costs its own fault.                *)
LEMMA DueOfFailure ==
    ASSUME NEW w \in Workers, rows' = rows, on'[w] = on[w], cur'[w] = cur[w], Missing(w)' => Missing(w)
    PROVE Due(w)' \subseteq Due(w) \cup {cur[w]}
BY DEF Due, LeftRunning

(* Steps that leave the rows alone.                                        *)
LEMMA AddsWithoutRows ==
    ASSUME AgreeInv, InHand, NEW w \in Workers, pc[w] # "idle", Work(w) \/ Fail(w),
           ~CreateInstance(w), ~RejectNew(w), ~RestoreOld(w), ~RetireOld(w), ~PublishNew(w), ~RecordInstance(w)
    PROVE \E S \in {{}, {cur[w]}, {Len(rows[on[w]])}} : Adds(w, S)
<1>1. /\ pc \in [Workers -> Pcs] /\ cur \in [Workers -> Nat] /\ faults \in Nat /\ Len(rows[on[w]]) \in Nat
      /\ rows' = rows /\ on' = on /\ job' = job /\ RowInv /\ Ids /\ Progress(w)
      /\ on[w] \in Tenants /\ ContainerName[on[w]] \in Names
  <2>1. RowInv /\ Ids /\ Progress(w) /\ TypeOK
    BY DEF AgreeInv, RowInv
  <2>2. on' = on /\ job' = job
    BY <2>1, WorkFrame
  <2>3. rows' = rows
    BY RowChanges
  <2>4. Len(rows[on[w]]) \in Nat /\ on[w] \in Tenants /\ ContainerName[on[w]] \in Names
    BY <2>1, Types
  <2>5. pc \in [Workers -> Pcs] /\ cur \in [Workers -> Nat] /\ faults \in Nat
    BY <2>1, Bounds DEF TypeOK
  <2> QED BY <2>1, <2>2, <2>3, <2>4, <2>5
<1>2. /\ cur'[w] = cur[w] \/ ReadCurrent(w) \/ ReadInstance(w)
      /\ Type(w)' = Type(w)
  <2>1. CASE \/ ReadVersion(w) \/ RenderRelease(w) \/ RemoveLink(w) \/ Symlink(w) \/ SymlinkExists(w)
             \/ StopOld(w) \/ EnsureVolume(w) \/ ClearName(w) \/ RunContainer(w) \/ RunConflict(w)
             \/ StartOld(w) \/ RemoveOld(w)
    BY <2>1 DEF ReadVersion, RenderRelease, RemoveLink, Symlink, SymlinkExists, StopOld, EnsureVolume,
       ClearName, RunContainer, RunConflict, StartOld, RemoveOld, OnlyDocker, localVars, Type
  <2>2. CASE \/ StopContainer(w) \/ StartContainer(w) \/ RemoveContainer(w) \/ RemoveVolume(w)
             \/ RemoveWorkspace(w) \/ Healthy(w) \/ Unhealthy(w) \/ UpdateTenantStatus(w) \/ Fail(w)
    BY <2>2 DEF StopContainer, StartContainer, RemoveContainer, RemoveVolume, RemoveWorkspace,
       Healthy, Unhealthy, UpdateTenantStatus, Fail, OnlyDocker, localVars, Type
  <2>3. CASE ReadCurrent(w) \/ ReadInstance(w)
    BY <1>1, <2>3 DEF Type
  <2> QED BY <2>1, <2>2, <2>3 DEF Work, Deploy, Operate
<1>3. ASSUME faults' = faults, cur'[w] = cur[w],
             Replacing(w) => Replacing(w)' \/ cur[w] = 0,
             Reviving(w)' => Reviving(w) \/ cur[w] = 0,
             Missing(w)' => Missing(w)
      PROVE Adds(w, {})
  BY <1>1, <1>3, DueKept DEF Adds
<1>4. ASSUME faults' = faults + 1, cur'[w] = cur[w], Missing(w)' => Missing(w)
      PROVE Adds(w, {cur[w]})
  BY <1>1, <1>4, DueOfFailure DEF Adds
<1>5. CASE ReadCurrent(w)
  <2>1. pc[w] = "read" /\ pc'[w] = "version"
    BY <1>1, <1>5 DEF ReadCurrent, Goto
  <2>2. ~Replacing(w) /\ ~Reviving(w) /\ ~Replacing(w)' /\ ~Reviving(w)'
    BY <2>1 DEF Replacing, Reviving
  <2>3. CASE NoFault
    <3>1. cur'[w] = 0 => Len(rows[on[w]]) = 0 \/ rows[on[w]][Len(rows[on[w]])].cid = 0
      BY <1>1, <1>5, <2>3 DEF ReadCurrent, NoFault, Fault, Latest
    <3>2. Missing(w)' => ~(Len(rows[on[w]]) \in 1 .. Len(rows[on[w]])
                           /\ rows[on[w]][Len(rows[on[w]])].status = "running")
      BY <1>1, <3>1 DEF Missing, InHand
    <3>3. Due(w)' \subseteq Due(w)
      BY <1>1, <2>2, <3>2 DEF Due, LeftRunning
    <3> QED BY <2>3, <3>3 DEF Adds, NoFault
  <2>4. CASE Fault
    <3>1. Due(w)' \subseteq Due(w) \cup {Len(rows[on[w]])}
      BY <1>1, <2>2 DEF Due, LeftRunning
    <3> QED BY <2>4, <3>1 DEF Adds, Fault
  <2> QED BY <1>5, <2>3, <2>4 DEF ReadCurrent
<1>6. CASE ReadInstance(w)
  <2>1. Type(w) # "deploy" /\ pc'[w] = "act" /\ faults' = faults
    BY <1>1, <1>6 DEF ReadInstance, Goto, counters
  <2>2. ~Replacing(w) /\ ~Reviving(w) /\ ~Replacing(w)' /\ ~Reviving(w)' /\ ~Missing(w)'
    BY <1>2, <2>1 DEF Replacing, Reviving, Missing
  <2>3. Due(w)' \subseteq Due(w)
    BY <1>1, <2>2 DEF Due, LeftRunning
  <2> QED BY <2>1, <2>3 DEF Adds
<1>7. CASE ReadVersion(w) \/ RenderRelease(w) \/ RemoveLink(w) \/ Symlink(w) \/ SymlinkExists(w)
  <2>1. /\ pc[w] \in {"version", "render", "unlink", "link"}
        /\ pc'[w] \in {"render", "unlink", "link", "insert", "failed"}
        /\ cur'[w] = cur[w] /\ faults' \in {faults, faults + 1}
    BY <1>1, <1>7 DEF ReadVersion, RenderRelease, RemoveLink, Symlink, SymlinkExists, Goto, localVars, counters,
       Fault, NoFault
  <2>2. ~Replacing(w) /\ ~Reviving(w) /\ ~Replacing(w)' /\ ~Reviving(w)' /\ (Missing(w)' => Missing(w))
    BY <2>1 DEF Replacing, Reviving, Missing
  <2> QED BY <1>3, <1>4, <2>1, <2>2
<1>8. CASE StopOld(w) \/ EnsureVolume(w) \/ ClearName(w) \/ RemoveOld(w)
  <2>1. /\ pc[w] \in {"stop_old", "volumes", "clear", "remove_old"}
        /\ pc'[w] \in {"volumes", "clear", "run", "retire"}
        /\ cur'[w] = cur[w] /\ faults' \in {faults, faults + 1}
    BY <1>1, <1>8 DEF StopOld, EnsureVolume, ClearName, RemoveOld, Goto, localVars, counters, OnlyDocker, Fault, NoFault
  <2>2. Type(w) = "deploy"
    BY <1>1, <2>1 DEF Progress, ReadRow, Deploying
  <2>3. Replacing(w)' /\ ~Reviving(w)' /\ ~Missing(w)'
    BY <1>2, <2>1, <2>2 DEF Replacing, Reviving, Missing
  <2> QED BY <1>3, <1>4, <2>1, <2>3
<1>9. CASE StartOld(w)
  <2>1. /\ pc[w] = "revive" /\ pc'[w] = "restore"
        /\ cur'[w] = cur[w] /\ faults' \in {faults, faults + 1}
    BY <1>1, <1>9 DEF StartOld, Goto, localVars, OnlyDocker, Fault, NoFault
  <2>2. Type(w) = "deploy"
    BY <1>1, <2>1 DEF Progress, ReadRow, Deploying
  <2>3. Reviving(w) /\ ~Replacing(w) /\ ~Missing(w)'
    BY <2>1, <2>2 DEF Replacing, Reviving, Missing
  <2> QED BY <1>3, <1>4, <2>1, <2>3
<1>10. CASE RunContainer(w)
  <2>1. /\ pc[w] = "run" /\ cur'[w] = cur[w] /\ docker \in [Names -> Containers]
    BY <1>1, <1>10 DEF RunContainer, Goto, RowInv, TypeOK, Containers
  <2>2. Type(w) = "deploy"
    BY <1>1, <2>1 DEF Progress, ReadRow, Deploying
  <2>3. PICK ok \in BOOLEAN :
           /\ IF ok THEN NoFault ELSE Fault
           /\ pc'[w] = IF ok THEN "healthy" ELSE "reject"
           /\ docker' = [docker EXCEPT ![ContainerName[on[w]]] = [id |-> nextId, up |-> ok]]
    BY <1>1, <1>10 DEF RunContainer, Goto
  <2>4. ~Missing(w)'
    BY <2>3 DEF Missing
  <2>5. CASE ok
    <3>1. Replacing(w)' /\ ~Reviving(w)'
      BY <1>1, <1>2, <2>1, <2>2, <2>3, <2>5 DEF Replacing, Reviving, Container
    <3> QED BY <1>3, <2>1, <2>3, <2>4, <2>5, <3>1 DEF NoFault
  <2>6. CASE ~ok
    BY <1>4, <2>1, <2>3, <2>4, <2>6 DEF Fault
  <2> QED BY <2>5, <2>6
<1>11. CASE RunConflict(w)
  BY <1>11 DEF RunConflict, Goto, InHand, Container
<1>12. CASE Healthy(w)
  <2>1. /\ pc[w] = "healthy" /\ pc'[w] = AfterHealthy(w) /\ cur'[w] = cur[w] /\ faults' = faults
    BY <1>1, <1>12 DEF Healthy, Goto, counters
  <2>2. ~Reviving(w)' /\ ~Missing(w)'
    BY <2>1 DEF Reviving, Missing, AfterHealthy
  <2>3. Replacing(w) => Replacing(w)' \/ cur[w] = 0
    BY <1>2, <2>1 DEF Replacing, AfterHealthy
  <2> QED BY <1>3, <2>1, <2>2, <2>3
<1>13. CASE Unhealthy(w)
  <2>1. /\ pc[w] = "healthy" /\ cur'[w] = cur[w] /\ pc'[w] = IF Type(w) = "deploy" THEN "reject" ELSE "failed"
    BY <1>1, <1>13 DEF Unhealthy, Goto, localVars
  <2>2. ~Missing(w)'
    BY <2>1 DEF Missing
  <2>3. CASE Fault
    BY <1>4, <2>1, <2>2, <2>3 DEF Fault
  <2>4. CASE ~(\E n \in Inspected(w) : docker[n].up) /\ NoFault
    <3>1. Type(w) = "deploy" => ~Container(on[w]).up
      BY <1>1, <2>1, <2>4 DEF Inspected, Progress, Launched, Container
    <3>2. ~Replacing(w) /\ (Reviving(w)' => Reviving(w))
      BY <1>2, <2>1, <3>1 DEF Replacing, Reviving
    <3> QED BY <1>3, <2>1, <2>2, <2>4, <3>2 DEF NoFault
  <2> QED BY <1>13, <2>3, <2>4 DEF Unhealthy
<1>14. CASE StopContainer(w) \/ StartContainer(w) \/ RemoveContainer(w) \/ RemoveVolume(w) \/ RemoveWorkspace(w)
  <2>1. /\ pc[w] \in {"act", "volume", "workspace"} /\ faults' = faults
        /\ cur'[w] = cur[w]
        /\ pc'[w] \in {"record", "healthy", "failed", "volume", "workspace"}
    BY <1>1, <1>14 DEF StopContainer, StartContainer, RemoveContainer, RemoveVolume, RemoveWorkspace, Goto,
       OnlyDocker, localVars, counters, NoFault
  <2>2. Type(w) # "deploy"
    BY <1>1, <2>1 DEF Progress, ReadRow, Operating
  <2>3. ~Replacing(w) /\ ~Reviving(w)' /\ ~Missing(w)'
    BY <1>2, <2>1, <2>2 DEF Replacing, Reviving, Missing
  <2> QED BY <1>3, <2>1, <2>3
<1>15. CASE UpdateTenantStatus(w)
  <2>1. pc[w] = "status" /\ pc'[w] = "done" /\ cur'[w] = cur[w] /\ faults' = faults
    BY <1>1, <1>15 DEF UpdateTenantStatus, Goto, localVars, counters
  <2> QED BY <1>3, <2>1 DEF Replacing, Reviving, Missing
<1>16. CASE Fail(w)
  <2>1. pc'[w] \in {"failed", "reject"} /\ cur'[w] = cur[w] /\ faults' = faults + 1
    BY <1>1, <1>16 DEF Fail, Fault, localVars
  <2> QED BY <1>4, <2>1 DEF Missing
<1> QED BY <1>5, <1>6, <1>7, <1>8, <1>9, <1>10, <1>11, <1>12, <1>13, <1>14, <1>15, <1>16
    DEF Work, Deploy, Operate

(* Steps that write a row.                                                 *)
LEMMA AddsWithRows ==
    ASSUME AgreeInv, InHand, NEW w \in Workers, pc[w] # "idle",
           CreateInstance(w) \/ RejectNew(w) \/ RestoreOld(w) \/ RetireOld(w) \/ PublishNew(w) \/ RecordInstance(w)
    PROVE \E S \in {{}, {cur[w]}, {Len(rows[on[w]])}} : Adds(w, S)
<1>1. /\ pc \in [Workers -> Pcs] /\ cur[w] \in Nat /\ new[w] \in Nat /\ got[w] \in Nat /\ Len(rows[on[w]]) \in Nat
      /\ rows \in [Tenants -> Seq(Rows)] /\ on[w] \in Tenants /\ RowInv /\ TypeOK /\ Progress(w) /\ Equipped(w)
  BY Types, RowTypes, Equipment DEF AgreeInv, RowInv, TypeOK
<1>2. on'[w] = on[w] /\ Type(w)' = Type(w) /\ cur'[w] = cur[w]
  BY DEF CreateInstance, RejectNew, RestoreOld, RetireOld, PublishNew, RecordInstance, OnlyRows, localVars, Type
<1>3. CASE CreateInstance(w)
  <2>1. /\ pc[w] = "insert" /\ pc'[w] = (IF cur[w] # 0 THEN "stop_old" ELSE "volumes") /\ faults' = faults
        /\ cur[w] \in {0, Len(rows[on[w]])} /\ Type(w) = "deploy"
    BY <1>1, <1>3 DEF CreateInstance, Goto, counters, InHand, Progress, ReadRow, Deploying
  <2>2. Replacing(w)' /\ ~Reviving(w)' /\ ~Missing(w)' /\ ~Replacing(w) /\ (Missing(w) <=> cur[w] = 0)
    BY <1>2, <2>1 DEF Replacing, Reviving, Missing
  <2>3. /\ Len(rows'[on[w]]) = Len(rows[on[w]]) + 1
        /\ \A k \in 1 .. Len(rows[on[w]]) : rows'[on[w]][k] = rows[on[w]][k]
    BY <1>1, <1>3, InsertedRow
  <2>4. Due(w)' \subseteq Due(w)
    BY <1>1, <1>2, <2>1, <2>2, <2>3 DEF Due, LeftRunning
  <2> QED BY <2>1, <2>4 DEF Adds
<1>4. CASE RejectNew(w)
  <2>1. /\ pc[w] = "reject" /\ pc'[w] = (IF cur[w] # 0 THEN "revive" ELSE "failed")
        /\ Type(w) = "deploy" /\ new[w] = Len(rows[on[w]])
    BY <1>1, <1>4 DEF RejectNew, Goto, Progress, ReadRow, Deploying, Inserted
  <2>2. Reviving(w) /\ ~Replacing(w) /\ ~Missing(w)'
    BY <2>1 DEF Replacing, Reviving, Missing
  <2>3. CASE NoFault /\ SetStatus(on[w], new[w], "failed")
    <3>1. /\ Len(rows'[on[w]]) = Len(rows[on[w]])
          /\ \A k \in 1 .. Len(rows[on[w]]) - 1 : rows'[on[w]][k].status = rows[on[w]][k].status
      <4>1. /\ Len(rows'[on[w]]) = Len(rows[on[w]])
            /\ \A k \in 1 .. Len(rows[on[w]]) : k # new[w] => rows'[on[w]][k].status = rows[on[w]][k].status
        BY <1>1, <2>3, SetStatusEffect DEF Statuses
      <4> QED BY <1>1, <2>1, <4>1
    <3>2. Due(w)' \subseteq Due(w)
      BY <1>1, <1>2, <2>2, <3>1, DueKept
    <3> QED BY <2>3, <3>2 DEF Adds, NoFault
  <2>4. CASE Fault /\ UNCHANGED rows
    BY <1>2, <2>2, <2>4, DueOfFailure DEF Adds, Fault
  <2> QED BY <1>4, <2>3, <2>4 DEF RejectNew
<1>5. CASE RestoreOld(w)
  <2>1. pc[w] = "restore" /\ pc'[w] = "failed" /\ Type(w) = "deploy"
    BY <1>1, <1>5 DEF RestoreOld, Goto, Progress, ReadRow, Deploying
  <2>2. Reviving(w) /\ ~Replacing(w) /\ ~Missing(w)'
    BY <2>1 DEF Replacing, Reviving, Missing
  <2>3. CASE NoFault /\ SetStatus(on[w], cur[w], "running")
    <3>1. /\ Len(rows'[on[w]]) = Len(rows[on[w]])
          /\ \A k \in 1 .. Len(rows[on[w]]) : k # cur[w] => rows'[on[w]][k].status = rows[on[w]][k].status
      BY <1>1, <2>3, SetStatusEffect DEF Statuses
    <3>2. \A k \in 1 .. Len(rows[on[w]]) - 1 : rows'[on[w]][k].status = "running" =>
              rows[on[w]][k].status = "running" \/ (k = cur[w] /\ Reviving(w))
      BY <1>1, <2>2, <3>1
    <3>3. Due(w)' \subseteq Due(w)
      BY <1>1, <1>2, <2>2, <3>1, <3>2, DueKept
    <3> QED BY <2>3, <3>3 DEF Adds, NoFault
  <2>4. CASE Fault /\ UNCHANGED rows
    BY <1>2, <2>2, <2>4, DueOfFailure DEF Adds, Fault
  <2> QED BY <1>5, <2>3, <2>4 DEF RestoreOld
<1>6. CASE RetireOld(w)
  <2>1. /\ pc[w] = "retire" /\ pc'[w] = "publish" /\ Type(w) = "deploy"
        /\ cur[w] <= Len(rows[on[w]]) /\ cur[w] # 0
    BY <1>1, <1>6 DEF RetireOld, Goto, Progress, ReadRow, Deploying
  <2>2. ~Reviving(w)' /\ ~Missing(w)'
    BY <2>1 DEF Reviving, Missing
  <2>3. CASE NoFault /\ SetStatus(on[w], cur[w], "destroyed")
    <3>1. /\ Len(rows'[on[w]]) = Len(rows[on[w]])
          /\ \A k \in 1 .. Len(rows[on[w]]) :
                rows'[on[w]][k].status = IF k = cur[w] THEN "destroyed" ELSE rows[on[w]][k].status
      <4>1. "destroyed" \in Statuses /\ cur[w] \in Nat /\ on[w] \in Tenants /\ rows \in [Tenants -> Seq(Rows)]
        BY <1>1 DEF Statuses
      <4> QED BY <2>3, <4>1, SetStatusEffect, SMTT(40)
    <3>2. /\ rows'[on[w]][cur[w]].status # "running" /\ cur[w] \in Nat /\ Len(rows[on[w]]) \in Nat
          /\ \A k \in 1 .. Len(rows[on[w]]) - 1 :
                rows'[on[w]][k].status = "running" => rows[on[w]][k].status = "running"
      <4>1. cur[w] \in Nat /\ Len(rows[on[w]]) \in Nat /\ cur[w] \in 1 .. Len(rows[on[w]])
        BY <1>1, <2>1
      <4>2. \A k \in 1 .. Len(rows[on[w]]) - 1 : k \in 1 .. Len(rows[on[w]])
        BY <4>1
      <4> QED BY <3>1, <4>1, <4>2
    <3>3. Due(w)' \subseteq Due(w)
      <4>1. Len(rows'[on[w]]) = Len(rows[on[w]])
        BY <3>1
      <4> QED BY <1>2, <2>2, <3>2, <4>1, DueKept
    <3> QED BY <2>3, <3>3 DEF Adds, NoFault
  <2>4. CASE Fault /\ UNCHANGED rows
    BY <1>2, <2>2, <2>4, DueOfFailure DEF Adds, Fault
  <2> QED BY <1>6, <2>3, <2>4 DEF RetireOld
<1>7. CASE PublishNew(w) \/ RecordInstance(w)
  <2>1. pc[w] \in {"publish", "record"} /\ pc'[w] = "status" /\ faults' = faults
    BY <1>1, <1>7 DEF PublishNew, RecordInstance, Goto, NoFault
  <2>2. ~Replacing(w) /\ ~Reviving(w)' /\ ~Missing(w)'
    BY <2>1 DEF Replacing, Reviving, Missing
  <2>3. PublishNew(w) => new[w] = Len(rows[on[w]])
    BY <1>1 DEF PublishNew, Goto, Progress, ReadRow, Deploying, Inserted
  <2>4. RecordInstance(w) => cur[w] = Len(rows[on[w]])
    BY <1>1 DEF RecordInstance, Goto, Progress, ReadRow, Operating
  <2>5. /\ Len(rows'[on[w]]) = Len(rows[on[w]])
        /\ \A k \in 1 .. Len(rows[on[w]]) - 1 : rows'[on[w]][k].status = rows[on[w]][k].status
    <3>1. ASSUME NEW i \in Nat, i = Len(rows[on[w]]), NEW s \in Statuses, SetStatus(on[w], i, s)
          PROVE /\ Len(rows'[on[w]]) = Len(rows[on[w]])
                /\ \A k \in 1 .. Len(rows[on[w]]) - 1 : rows'[on[w]][k].status = rows[on[w]][k].status
      <4>1. /\ Len(rows'[on[w]]) = Len(rows[on[w]])
            /\ \A k \in 1 .. Len(rows[on[w]]) : k # i => rows'[on[w]][k].status = rows[on[w]][k].status
        BY <1>1, <3>1, SetStatusEffect
      <4> QED BY <1>1, <3>1, <4>1
    <3>2. ASSUME NEW i \in Nat, i = Len(rows[on[w]]), SetRunning(on[w], i, got[w])
          PROVE /\ Len(rows'[on[w]]) = Len(rows[on[w]])
                /\ \A k \in 1 .. Len(rows[on[w]]) - 1 : rows'[on[w]][k].status = rows[on[w]][k].status
      <4>1. /\ Len(rows'[on[w]]) = Len(rows[on[w]])
            /\ \A k \in 1 .. Len(rows[on[w]]) : k # i => rows'[on[w]][k].status = rows[on[w]][k].status
        BY <1>1, <3>2, SetRunningEffect
      <4> QED BY <1>1, <3>2, <4>1
    <3>3. CASE PublishNew(w)
      BY <1>1, <2>3, <3>2, <3>3 DEF PublishNew
    <3>4. CASE RecordInstance(w)
      <4>1. \/ SetStatus(on[w], cur[w], "stopped") \/ SetStatus(on[w], cur[w], "destroyed")
            \/ SetRunning(on[w], cur[w], got[w])
        BY <3>4 DEF RecordInstance
      <4> QED BY <1>1, <2>4, <3>1, <3>2, <3>4, <4>1 DEF Statuses
    <3> QED BY <1>7, <3>3, <3>4
  <2>6. Due(w)' \subseteq Due(w)
    BY <1>1, <1>2, <2>2, <2>5, DueKept
  <2> QED BY <2>1, <2>6 DEF Adds
<1> QED BY <1>3, <1>4, <1>5, <1>6, <1>7

(* Any step of a handler.                                                  *)
LEMMA WorkAdds ==
    ASSUME AgreeInv, InHand, NEW w \in Workers, pc[w] # "idle", Work(w) \/ Fail(w)
    PROVE \E S \in {{}, {cur[w]}, {Len(rows[on[w]])}} : Adds(w, S)
BY AddsWithoutRows, AddsWithRows

(* Rows are finite in number, and so is what is due of them.               *)
LEMMA DueIsFinite ==
    ASSUME RowInv
    PROVE /\ \A t \in Tenants : IsFiniteSet(LeftRunning(t))
          /\ \A w \in Workers : pc[w] # "idle" => IsFiniteSet(Due(w))
<1>1. \A t \in Tenants : IsFiniteSet(1 .. Len(rows[t]))
  BY RowTypes, FS_Interval
<1>2. \A t \in Tenants : LeftRunning(t) \subseteq 1 .. Len(rows[t])
  BY RowTypes DEF LeftRunning
<1>3. \A w \in Workers : pc[w] # "idle" => on[w] \in Tenants
  BY Types
<1>4. \A w \in Workers : Due(w) \subseteq 1 .. Len(rows[on[w]])
  BY DEF Due
<1> QED BY <1>1, <1>2, <1>3, <1>4, FS_Subset

LEMMA OneMore ==
    ASSUME NEW S, IsFiniteSet(S), NEW x, NEW T, T \subseteq S \cup {x}
    PROVE Cardinality(T) \in Nat /\ Cardinality(S) \in Nat /\ Cardinality(T) <= Cardinality(S) + 1
<1>1. /\ IsFiniteSet(S \cup {x}) /\ Cardinality(S) \in Nat
      /\ Cardinality(S \cup {x}) \in {Cardinality(S), Cardinality(S) + 1}
  BY FS_AddElement, FS_CardinalityType
<1>2. IsFiniteSet(T) /\ Cardinality(T) <= Cardinality(S \cup {x})
  BY <1>1, FS_Subset
<1>3. Cardinality(T) \in Nat
  BY <1>2, FS_CardinalityType
<1> QED BY <1>1, <1>2, <1>3

LEMMA NoMore ==
    ASSUME NEW S, IsFiniteSet(S), NEW T, T \subseteq S
    PROVE Cardinality(T) \in Nat /\ Cardinality(S) \in Nat /\ Cardinality(T) <= Cardinality(S)
BY FS_Subset, FS_CardinalityType

(* A worker nothing happens to.                                            *)
LEMMA DueStays ==
    ASSUME NEW v \in Workers, pc'[v] = pc[v], on'[v] = on[v], job'[v] = job[v], cur'[v] = cur[v],
           rows'[on[v]] = rows[on[v]],
           docker'[ContainerName[on[v]]] = docker[ContainerName[on[v]]]
    PROVE Due(v)' = Due(v)
BY DEF Due, LeftRunning, Replacing, Reviving, Missing, Type, Container

LEMMA Budget ==
    ASSUME RowInv
    PROVE faults \in Nat /\ exits \in Nat
BY Bounds DEF RowInv, TypeOK

LEMMA WorkKeepsPaid ==
    ASSUME OwnNames, AgreeInv, InHand, Paid, NEW w \in Workers, pc[w] # "idle", Work(w) \/ Fail(w)
    PROVE Paid'
<1>1. /\ RowInv /\ TypeOK /\ on' = on /\ exits' = exits /\ faults \in Nat /\ exits \in Nat
      /\ \E x \in Pcs \ {"idle"} : pc' = [pc EXCEPT ![w] = x]
  BY WorkFrame, CountersTyped, Budget DEF AgreeInv, RowInv
<1>2. PICK S \in {{}, {cur[w]}, {Len(rows[on[w]])}} : Adds(w, S)
  BY WorkAdds
<1>3. faults' \in Nat /\ faults <= faults'
  BY <1>1, <1>2 DEF Adds
<1>4. ASSUME NEW t \in Tenants, \A v \in Workers : on'[v] # t
      PROVE Cardinality(LeftRunning(t))' <= faults' + exits'
  <2>1. \A v \in Workers : on[v] # t
    BY <1>1, <1>4
  <2>2. rows'[t] = rows[t]
    BY <1>1, <2>1, OtherTenants
  <2>3. LeftRunning(t)' = LeftRunning(t)
    BY <2>2 DEF LeftRunning
  <2>4. Cardinality(LeftRunning(t)) \in Nat
    BY <1>1, DueIsFinite, FS_CardinalityType
  <2> QED BY <1>1, <1>3, <2>1, <2>3, <2>4 DEF Paid
<1>5. ASSUME NEW v \in Workers, pc'[v] # "idle" PROVE Cardinality(Due(v))' <= faults' + exits'
  <2>1. CASE v = w
    <3>1. IsFiniteSet(Due(w)) /\ Cardinality(Due(w)) <= faults + exits
      BY <1>1, DueIsFinite DEF Paid
    <3>2. CASE S = {}
      <4>1. Due(w)' \subseteq Due(w)
        BY <1>2, <3>2 DEF Adds
      <4> QED BY <1>1, <1>3, <2>1, <3>1, <4>1, NoMore
    <3>3. CASE S # {}
      <4>1. PICK x : Due(w)' \subseteq Due(w) \cup {x}
        BY <1>2, <3>3 DEF Adds
      <4>2. faults' = faults + 1
        BY <1>2, <3>3 DEF Adds
      <4>3. Cardinality(Due(w)') \in Nat /\ Cardinality(Due(w)') <= Cardinality(Due(w)) + 1
            /\ Cardinality(Due(w)) \in Nat
        BY <3>1, <4>1, OneMore
      <4> QED BY <1>1, <2>1, <3>1, <4>2, <4>3
    <3> QED BY <3>2, <3>3
  <2>2. CASE v # w
    <3>1. pc[v] # "idle"
      BY <1>1, <1>5, <2>2 DEF TypeOK
    <3>2. Due(v)' = Due(v)
      BY <2>2, <3>1, OtherWorkers, DueStays
    <3>3. Cardinality(Due(v)) \in Nat
      BY <1>1, <3>1, DueIsFinite, FS_CardinalityType
    <3> QED BY <1>1, <1>3, <3>1, <3>2, <3>3 DEF Paid
  <2> QED BY <2>1, <2>2
<1> QED BY <1>4, <1>5 DEF Paid

(* A worker that dies leaves one row at most that it was to attend to.     *)
LEMMA LeaveKeepsPaid ==
    ASSUME AgreeInv, InHand, Paid, NEW w \in Workers, pc[w] # "idle", Finish(w) \/ Crash(w)
    PROVE InHand' /\ Paid'
<1>1. RowInv /\ TypeOK /\ on[w] \in Tenants /\ faults \in Nat /\ exits \in Nat
  BY Types, Budget DEF AgreeInv, RowInv
<1>2. UNCHANGED <<rows, docker, exits>> /\ Leave(w)
  BY DEF Finish, Crash, tenantVars, hostVars, counters
<1>3. /\ pc'[w] = "idle" /\ on'[w] = NoTenant
      /\ \A v \in Workers : v # w => pc'[v] = pc[v] /\ on'[v] = on[v] /\ job'[v] = job[v] /\ cur'[v] = cur[v]
  BY <1>1, <1>2 DEF Leave, TypeOK
<1>4. InHand'
  BY <1>2, <1>3 DEF InHand, Container
<1>5. faults' \in Nat /\ faults <= faults'
  BY <1>1 DEF Finish, Crash, Fault, counters
<1>6. ASSUME NEW v \in Workers, pc'[v] # "idle" PROVE Cardinality(Due(v))' <= faults' + exits'
  <2>1. v # w /\ pc[v] # "idle"
    BY <1>3, <1>6
  <2>2. Due(v)' = Due(v)
    BY <1>2, <1>3, <2>1, DueStays
  <2>3. Cardinality(Due(v)) \in Nat
    BY <1>1, <2>1, DueIsFinite, FS_CardinalityType
  <2> QED BY <1>1, <1>2, <1>5, <2>1, <2>2, <2>3 DEF Paid
<1>7. ASSUME NEW t \in Tenants, \A v \in Workers : on'[v] # t
      PROVE Cardinality(LeftRunning(t))' <= faults' + exits'
  <2>1. LeftRunning(t)' = LeftRunning(t)
    BY <1>2 DEF LeftRunning
  <2>2. CASE t # on[w]
    <3>1. \A v \in Workers : on[v] # t
      BY <1>3, <1>7, <2>2
    <3>2. Cardinality(LeftRunning(t)) \in Nat
      BY <1>1, DueIsFinite, FS_CardinalityType
    <3> QED BY <1>1, <1>2, <1>5, <2>1, <3>1, <3>2 DEF Paid
  <2>3. CASE t = on[w]
    <3>1. IsFiniteSet(Due(w)) /\ Cardinality(Due(w)) <= faults + exits /\ Len(rows[t]) \in Nat
      BY <1>1, DueIsFinite, Types DEF Paid
    <3>2. CASE Finish(w)
      <4>1. ~Replacing(w)
        BY <3>2 DEF Finish, Replacing
      <4>2. LeftRunning(t) \subseteq Due(w)
        BY <2>3, <3>1, <4>1 DEF Due, LeftRunning
      <4> QED BY <1>1, <1>2, <1>5, <2>1, <3>1, <4>2, NoMore
    <3>3. CASE Crash(w)
      <4>1. LeftRunning(t) \subseteq Due(w) \cup {cur[w]}
        BY <2>3, <3>1 DEF Due, LeftRunning
      <4>2. faults' = faults + 1
        BY <3>3 DEF Crash, Fault
      <4>3. Cardinality(LeftRunning(t)) \in Nat /\ Cardinality(LeftRunning(t)) <= Cardinality(Due(w)) + 1
            /\ Cardinality(Due(w)) \in Nat
        BY <3>1, <4>1, OneMore
      <4> QED BY <1>1, <1>2, <2>1, <3>1, <4>2, <4>3
    <3> QED BY <3>2, <3>3
  <2> QED BY <2>2, <2>3
<1> QED BY <1>4, <1>6, <1>7 DEF Paid

(* A container that exits may be the one a deploy waits for.               *)
LEMMA ExitKeepsPaid ==
    ASSUME AgreeInv, InHand, Paid, NEW m \in Names, ContainerExits(m)
    PROVE InHand' /\ Paid'
<1>1. /\ RowInv /\ TypeOK /\ faults \in Nat /\ exits \in Nat /\ docker \in [Names -> Containers]
  BY Budget DEF AgreeInv, RowInv, TypeOK, Containers
<1>2. /\ UNCHANGED <<rows, pc, on, job, cur, faults>> /\ exits' = exits + 1
      /\ \A n \in Names : docker[n] = Gone => docker'[n] = Gone
  <2>1. docker[m].up /\ SetUp({m}, FALSE)
    BY DEF ContainerExits
  <2>2. \A n \in Names : n # m => docker'[n] = docker[n]
    <3>1. \A n \in Names : n \notin {m} => docker'[n] = docker[n]
      BY <1>1, <2>1, SetUpEffect
    <3> QED BY <3>1
  <2> QED BY <2>1, <2>2 DEF ContainerExits, tenantVars, localVars, Gone
<1>3. \A v \in Workers : pc[v] # "idle" => on[v] \in Tenants /\ ContainerName[on[v]] \in Names
  BY <1>1, Types
<1>4. InHand'
  BY <1>2, <1>3 DEF InHand, Container
<1>5. ASSUME NEW t \in Tenants, \A v \in Workers : on'[v] # t
      PROVE Cardinality(LeftRunning(t))' <= faults' + exits'
  <2>1. LeftRunning(t)' = LeftRunning(t)
    BY <1>2 DEF LeftRunning
  <2>2. Cardinality(LeftRunning(t)) \in Nat
    BY <1>1, DueIsFinite, FS_CardinalityType
  <2> QED BY <1>1, <1>2, <1>5, <2>1, <2>2 DEF Paid
<1>6. ASSUME NEW v \in Workers, pc'[v] # "idle" PROVE Cardinality(Due(v))' <= faults' + exits'
  <2>1. IsFiniteSet(Due(v)) /\ Cardinality(Due(v)) <= faults + exits
    BY <1>1, <1>2, <1>6, DueIsFinite DEF Paid
  <2>2. Due(v)' \subseteq Due(v) \cup {cur[v]}
    BY <1>2 DEF Due, LeftRunning, Replacing, Reviving, Missing, Type
  <2>3. Cardinality(Due(v)') \in Nat /\ Cardinality(Due(v)') <= Cardinality(Due(v)) + 1
        /\ Cardinality(Due(v)) \in Nat
    BY <2>1, <2>2, OneMore
  <2> QED BY <1>1, <1>2, <2>1, <2>3
<1> QED BY <1>4, <1>5, <1>6 DEF Paid

LEMMA QueueKeepsPaid ==
    ASSUME AgreeInv, InHand, Paid,
           \/ \E t \in Tenants, j \in JobSet : Enqueue(t, j)
           \/ \E w \in Workers, t \in Tenants : Begin(w, t)
    PROVE InHand' /\ Paid'
<1>1. /\ RowInv /\ TypeOK /\ UNCHANGED <<rows, docker, cur, faults, exits>>
  BY DEF AgreeInv, RowInv, Enqueue, Begin, Start, tenantVars, hostVars, localVars, counters
<1>2. \A t \in Tenants : LeftRunning(t)' = LeftRunning(t)
  BY <1>1 DEF LeftRunning
<1>3. CASE \E t \in Tenants, j \in JobSet : Enqueue(t, j)
  <2>1. UNCHANGED <<pc, on, job>>
    BY <1>3 DEF Enqueue, localVars
  <2>2. \A v \in Workers : Due(v)' = Due(v)
    BY <1>1, <2>1, DueStays
  <2>3. InHand'
    BY <1>1, <2>1 DEF InHand, Container
  <2> QED BY <1>1, <1>2, <2>1, <2>2, <2>3 DEF Paid
<1>4. ASSUME NEW w \in Workers, NEW t \in Tenants, Begin(w, t) PROVE InHand' /\ Paid'
  <2>1. /\ pc[w] = "idle" /\ pc'[w] = "read" /\ on'[w] = t /\ \A v \in Workers : on[v] # t
        /\ \A v \in Workers : v # w => pc'[v] = pc[v] /\ on'[v] = on[v] /\ job'[v] = job[v]
    BY <1>1, <1>4 DEF Begin, Start, TypeOK
  <2>2. InHand'
    BY <1>1, <2>1 DEF InHand, Container
  <2>3. ASSUME NEW v \in Workers, pc'[v] # "idle" PROVE Cardinality(Due(v))' <= faults' + exits'
    <3>1. CASE v = w
      <4>1. ~Replacing(w)' /\ ~Reviving(w)' /\ ~Missing(w)'
        BY <2>1 DEF Replacing, Reviving, Missing
      <4>2. Due(w)' \subseteq LeftRunning(t)
        BY <1>1, <2>1, <4>1 DEF Due, LeftRunning
      <4>3. IsFiniteSet(LeftRunning(t)) /\ Cardinality(LeftRunning(t)) <= faults + exits
        BY <1>1, <2>1, DueIsFinite DEF Paid
      <4> QED BY <1>1, <3>1, <4>2, <4>3, NoMore, Budget
    <3>2. CASE v # w
      <4>1. Due(v)' = Due(v) /\ pc[v] # "idle"
        BY <1>1, <2>1, <2>3, <3>2, DueStays
      <4> QED BY <1>1, <4>1 DEF Paid
    <3> QED BY <3>1, <3>2
  <2>4. ASSUME NEW u \in Tenants, \A v \in Workers : on'[v] # u
        PROVE Cardinality(LeftRunning(u))' <= faults' + exits'
    <3>1. on[w] # u
      BY <1>1, <2>1, NoTenantAssumption DEF RowInv, Owned
    <3>2. \A v \in Workers : on[v] # u
      BY <2>1, <2>4, <3>1
    <3> QED BY <1>1, <1>2, <3>2 DEF Paid
  <2> QED BY <2>2, <2>3, <2>4 DEF Paid
<1> QED BY <1>3, <1>4

(* What is due was paid.                                                   *)
THEOREM PaidInvariant == ASSUME OwnNames PROVE Spec => [](AgreeInv /\ InHand /\ Paid)
<1>1. Init => InHand /\ Paid
  <2> SUFFICES ASSUME Init PROVE InHand /\ Paid
    OBVIOUS
  <2>1. /\ faults = 0 /\ exits = 0 /\ \A t \in Tenants : rows[t] = <<>> /\ Len(rows[t]) = 0
        /\ \A w \in Workers : pc[w] = "idle"
    BY DEF Init
  <2>2. \A t \in Tenants : LeftRunning(t) = {}
    BY <2>1 DEF LeftRunning
  <2>3. InHand
    BY <2>1 DEF InHand
  <2>4. \A t \in Tenants : Cardinality(LeftRunning(t)) = 0
    BY <2>2, FS_EmptySet
  <2>5. Paid
    BY <2>1, <2>4 DEF Paid
  <2> QED BY <2>3, <2>5
<1>2. ASSUME OwnNames, AgreeInv, InHand, Paid, [Next]_vars PROVE InHand' /\ Paid'
  <2>1. CASE UNCHANGED vars
    <3>1. UNCHANGED <<rows, docker, pc, on, job, cur, faults, exits>>
      BY <2>1 DEF vars, tenantVars, hostVars, localVars, counters
    <3>2. \A v \in Workers : Due(v)' = Due(v)
      BY <3>1, DueStays
    <3>3. \A t \in Tenants : LeftRunning(t)' = LeftRunning(t)
      BY <3>1 DEF LeftRunning
    <3>4. InHand'
      BY <1>2, <3>1 DEF InHand, Container
    <3>5. Paid'
      BY <1>2, <3>1, <3>2, <3>3 DEF Paid
    <3> QED BY <3>4, <3>5
  <2>2. CASE \E w \in Workers : pc[w] # "idle" /\ (Work(w) \/ Fail(w))
    BY <1>2, <2>2, WorkKeepsInHand, WorkKeepsPaid
  <2> QED BY <1>2, <2>1, <2>2, LeaveKeepsPaid, ExitKeepsPaid, QueueKeepsPaid DEF Next, Rest
<1> QED BY <1>1, <1>2, AgreeInvariant, PTL DEF Spec

(* Between jobs, every row that is still "running" behind the current one  *)
(* is due to a failure, a death or an exit of its own.                     *)
THEOREM LeftRunningStaysDue == ASSUME OwnNames PROVE Spec => []LeftRunningIsDue
<1>1. AgreeInv /\ Paid => LeftRunningIsDue
  <2> SUFFICES ASSUME AgreeInv, Paid, NEW t \in Tenants, Quiet(t)
               PROVE Cardinality(LeftRunning(t)) <= faults + exits
    BY DEF LeftRunningIsDue
  <2>1. \A w \in Workers : on[w] # t
    BY NoTenantAssumption, Types DEF AgreeInv, RowInv, Owned, Quiet
  <2> QED BY <2>1 DEF Paid
<1> QED BY <1>1, PaidInvariant, PTL

-----------------------------------------------------------------------------
(* Releases.                                                               *)

(* No row is without the release it was created from: the row comes after  *)
(* the release, and no job takes one away.                                 *)
Filed == \A t \in Tenants : Versions(t) \subseteq releases[t]

LEMMA WorkKeepsFiled ==
    ASSUME AgreeInv, Filed, NEW w \in Workers, pc[w] # "idle", Work(w) \/ Fail(w)
    PROVE Filed'
<1>1. /\ TypeOK /\ Equipped(w) /\ Progress(w) /\ on[w] \in Tenants /\ releases \in [Tenants -> SUBSET (Nat \ {0})]
      /\ \A t \in Tenants : DOMAIN rows[t] = 1 .. Len(rows[t]) /\ Len(rows[t]) \in Nat
      /\ on' = on
  BY Types, RowTypes, Equipment, WorkFrame DEF AgreeInv, RowInv, TypeOK
<1>2. \A t \in Tenants : releases[t] \subseteq releases'[t]
  BY <1>1, FileSteps
<1>3. CASE rows' = rows
  BY <1>2, <1>3 DEF Filed, Versions
<1>4. CASE CreateInstance(w)
  <2>1. ver[w] \in releases[on[w]]
    BY <1>1, <1>4 DEF CreateInstance, Goto, Progress, Rendered
  <2>2. /\ rows' \in [Tenants -> Seq(Rows)]
        /\ \A u \in Tenants : u # on[w] => rows'[u] = rows[u]
        /\ Len(rows'[on[w]]) = Len(rows[on[w]]) + 1
        /\ \A k \in 1 .. Len(rows[on[w]]) : rows'[on[w]][k] = rows[on[w]][k]
        /\ rows'[on[w]][Len(rows[on[w]]) + 1].version = ver[w]
    <3>1. InstanceRow("creating", ver[w]).version = ver[w]
      BY DEF InstanceRow
    <3> QED BY <1>1, <1>4, <3>1, InsertedRow
  <2>3. DOMAIN rows'[on[w]] = 1 .. Len(rows[on[w]]) + 1
    BY <1>1, <2>2
  <2>4. Versions(on[w])' \subseteq Versions(on[w]) \cup {ver[w]}
    BY <1>1, <2>2, <2>3 DEF Versions
  <2>5. \A u \in Tenants : u # on[w] => Versions(u)' = Versions(u)
    BY <2>2 DEF Versions
  <2> QED BY <1>1, <1>2, <2>1, <2>4, <2>5 DEF Filed
<1>5. CASE /\ rows' \in [Tenants -> Seq(Rows)]
           /\ \A u \in Tenants : u # on[w] => rows'[u] = rows[u]
           /\ Len(rows'[on[w]]) = Len(rows[on[w]])
           /\ \A k \in 1 .. Len(rows[on[w]]) : rows'[on[w]][k].version = rows[on[w]][k].version
  <2>1. DOMAIN rows'[on[w]] = 1 .. Len(rows[on[w]])
    BY <1>1, <1>5
  <2>2. Versions(on[w])' \subseteq Versions(on[w])
    BY <1>1, <1>5, <2>1 DEF Versions
  <2>3. \A u \in Tenants : u # on[w] => Versions(u)' = Versions(u)
    BY <1>5 DEF Versions
  <2> QED BY <1>1, <1>2, <2>2, <2>3 DEF Filed
<1> QED BY <1>1, <1>3, <1>4, <1>5, RowEffect

(* The release of every row of a tenant stays, whatever a destroy was to   *)
(* wipe: handleDestroy removes the link alone.                             *)
THEOREM ReleasesAreFiled == ASSUME OwnNames PROVE Spec => [](AgreeInv /\ Filed)
<1>1. Init => Filed
  BY DEF Init, Filed, Versions
<1>2. ASSUME AgreeInv, Filed, [Next]_vars PROVE Filed'
  <2>1. CASE rows' = rows /\ releases' = releases
    BY <1>2, <2>1 DEF Filed, Versions
  <2>2. CASE \E w \in Workers : pc[w] # "idle" /\ (Work(w) \/ Fail(w))
    BY <1>2, <2>2, WorkKeepsFiled
  <2> QED BY <1>2, <2>1, <2>2 DEF Next, Enqueue, Begin, Finish, Crash, ContainerExits, Rest, vars, tenantVars,
       hostVars
<1> QED BY <1>1, <1>2, AgreeInvariant, PTL DEF Spec

(* After a job that succeeded tables, Docker and files agree, whatever     *)
(* failed or died before, as long as no other tenant has the container's   *)
(* name; and every row still has its release.                              *)
THEOREM SuccessIsAgreement == ASSUME OwnNames PROVE Spec => []SuccessMeansAgreement
<1>1. AgreeInv /\ Filed => SuccessMeansAgreement
  BY DEF AgreeInv, Standing, Filed, SuccessMeansAgreement
<1> QED BY <1>1, ReleasesAreFiled, PTL

(* The current row of a tenant leads to the container there is.            *)
THEOREM ContainersStayReachable == ASSUME OwnNames PROVE Spec => []ContainerReachable
<1>1. AgreeInv => ContainerReachable
  <2> SUFFICES ASSUME AgreeInv, NEW t \in Tenants, Container(t) # Gone
               PROVE rows[t] # <<>> /\ ContainerName[t] \in Resolve(t, Latest(t))
    BY DEF ContainerReachable
  <2> QED BY CurrentRowLeads DEF AgreeInv, Standing, Latest
<1> QED BY <1>1, AgreeInvariant, PTL

=============================================================================
