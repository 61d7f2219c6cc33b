------------------------------ MODULE KeyPool ------------------------------
(***************************************************************************)
(* The shared pool of LLM API keys: the tables llm_providers, llm_api_keys *)
(* and tenant_llm_key_allocations, the API handlers that change them       *)
(* (internal/api/server.go) and what a deploy reads from them              *)
(* (internal/jobs/executor.go).                                            *)
(*                                                                         *)
(* No handler opens a transaction: every SQL statement is a step, and a    *)
(* request whose client goes away stops between two of them.               *)
(***************************************************************************)
EXTENDS Integers, FiniteSets

CONSTANTS
    Tenants,
    Names, NoName,  \* names of providers
    Handlers,       \* requests the API can serve at the same time
    MaxProviders,   \* bound: rows of llm_providers ever inserted
    MaxKeys,        \* bound: rows of llm_api_keys ever inserted
    MaxRequests,    \* bound: allocations, revocations and deploys ever begun
    MaxConcurrent,  \* bound: the same, once requests overlap or are cut off
    MaxFaults       \* bound: requests that are cut off, statements that fail

ASSUME NamesAssumption == NoName \notin Names
ASSUME ActorsAssumption == IsFiniteSet(Tenants) /\ IsFiniteSet(Handlers)
ASSUME BoundsAssumption == 
    {MaxProviders, MaxKeys, MaxRequests, MaxConcurrent, MaxFaults} \subseteq Nat

(* Ids in the order of created_at; 0 names no row.                         *)
Providers == 1 .. MaxProviders
Keys == 1 .. MaxKeys
NoKey == [prov |-> 0, name |-> NoName, active |-> FALSE, count |-> 0]
NoEnv == [key |-> 0, name |-> NoName]
At(pc, t, k, p, n) == [pc |-> pc, tenant |-> t, key |-> k, prov |-> p, name |-> n]
Idle == At("idle", NoName, 0, 0, NoName)

VARIABLES
    prov,      \* llm_providers: the name of a provider, NoName if there is no row
    keys,      \* llm_api_keys: provider_id, provider_name, status, allocated_count
    alloc,     \* tenant_llm_key_allocations: api_key_id by tenant and provider
    nextProv, nextKey,
    h,         \* a handler's next statement and its local variables
    d,         \* the same for the deploy of a tenant
    env,       \* the key, and its name, in the environment of the last deploy
    serial,    \* history: so far one request at a time, and none cut off
    requests, faults

tables == <<prov, keys, alloc, nextProv, nextKey>>
counters == <<requests, faults>>
vars == <<tables, h, d, env, counters, serial>>

-----------------------------------------------------------------------------
KeyExists(k) == keys[k].prov # 0

(* Rows of ListActiveLLMAPIKeysByProvider, and the first of them by        *)
(* allocated_count and created_at.                                         *)
ActiveKeys(n) == {k \in Keys : KeyExists(k) /\ keys[k].name = n /\ keys[k].active}
LeastAllocated(n) ==
    {k \in ActiveKeys(n) : \A i \in ActiveKeys(n) :
        keys[k].count < keys[i].count \/ (keys[k].count = keys[i].count /\ k <= i)}

(* Keys of the allocations of a tenant.                                    *)
Allocated(t) == {alloc[t][p] : p \in Providers} \ {0}

Init ==
    /\ prov = [p \in Providers |-> NoName]
    /\ keys = [k \in Keys |-> NoKey]
    /\ alloc = [t \in Tenants |-> [p \in Providers |-> 0]]
    /\ nextProv = 1 /\ nextKey = 1
    /\ h = [c \in Handlers |-> Idle]
    /\ d = [t \in Tenants |-> Idle]
    /\ env = [t \in Tenants |-> NoEnv]
    /\ serial = TRUE
    /\ requests = 0 /\ faults = 0

-----------------------------------------------------------------------------
(* Providers and keys.                                                     *)

(* Mutant: name is not UNIQUE, and the upsert always inserts.              *)
InsertLLMProvider(n) ==
    /\ nextProv \in Providers
    /\ prov' = [prov EXCEPT ![nextProv] = n]
    /\ nextProv' = nextProv + 1
    /\ UNCHANGED <<keys, alloc, nextKey, h, d, env, counters>>

(* UpsertLLMProvider: a name that is there keeps its row.                  *)
UpsertLLMProvider(n) ==
    /\ nextProv \in Providers
    /\ \A p \in Providers : prov[p] # n
    /\ prov' = [prov EXCEPT ![nextProv] = n]
    /\ nextProv' = nextProv + 1
    /\ UNCHANGED <<keys, alloc, nextKey, h, d, env, counters>>

(* Mutant: the allocations of the provider stay.                           *)
CascadeKeysOnly(p) ==
    /\ keys' = [k \in Keys |-> IF keys[k].prov = p THEN NoKey ELSE keys[k]]
    /\ UNCHANGED alloc

(* ON DELETE CASCADE: the keys of the provider go, and every allocation of *)
(* the provider or of one of them.                                         *)
Cascade(p) ==
    /\ keys' = [k \in Keys |-> IF keys[k].prov = p THEN NoKey ELSE keys[k]]
    /\ alloc' = [t \in Tenants |-> [q \in Providers |->
           IF q = p \/ \E k \in Keys : k = alloc[t][q] /\ keys[k].prov = p
           THEN 0 ELSE alloc[t][q]]]

DeleteLLMProvider(p) ==
    /\ prov[p] # NoName
    /\ prov' = [prov EXCEPT ![p] = NoName]
    /\ Cascade(p)
    /\ UNCHANGED <<nextProv, nextKey, h, d, env, counters>>

(* A handler goes on to its next statement.                                *)
Goto(c, from, local) == h[c].pc = from /\ h' = [h EXCEPT ![c] = local]

(* AddLLMAPIKey: getProviderName, then the INSERT; the INSERT fails if the *)
(* provider was deleted meanwhile.                                         *)
GetProviderName(c, p) ==
    /\ prov[p] # NoName
    /\ Goto(c, "idle", At("insert", NoName, 0, p, prov[p]))
    /\ UNCHANGED <<tables, d, env, counters>>

InsertKey(c) ==
    /\ Goto(c, "insert", Idle)
    /\ nextKey \in Keys
    /\ prov[h[c].prov] # NoName
    /\ \E active \in BOOLEAN :
          keys' = [keys EXCEPT ![nextKey] =
              [prov |-> h[c].prov, name |-> h[c].name, active |-> active, count |-> 0]]
    /\ nextKey' = nextKey + 1
    /\ UNCHANGED <<prov, alloc, nextProv, d, env, counters>>

DeactivateLLMAPIKey(k) ==
    /\ KeyExists(k) /\ keys[k].active
    /\ keys' = [keys EXCEPT ![k].active = FALSE]
    /\ UNCHANGED <<prov, alloc, nextProv, nextKey, h, d, env, counters>>

-----------------------------------------------------------------------------
(* Allocations.                                                            *)

Request == requests < MaxRequests /\ requests' = requests + 1

(* A statement of a handler fails, or its client has gone: what it did     *)
(* before stays.                                                           *)
Abort(c) ==
    /\ h[c].pc # "idle"
    /\ faults < MaxFaults /\ faults' = faults + 1
    /\ Goto(c, h[c].pc, Idle)
    /\ UNCHANGED <<tables, d, env, requests>>

(* handleAllocateLLMKey names a key; handlePutProfile takes the least      *)
(* allocated active key of the profile's provider.                         *)
BeginAllocate(c, t, k) ==
    /\ Request
    /\ Goto(c, "idle", At("lookup", t, k, 0, NoName))
    /\ UNCHANGED <<tables, d, env, faults>>

PutProfile(c, t, n) == \E k \in LeastAllocated(n) : BeginAllocate(c, t, k)

(* Mutant: the allocation is made under any provider the caller names.     *)
LookupAnyProvider(c) ==
    /\ h[c].pc = "lookup"
    /\ KeyExists(h[c].key)
    /\ \E p \in Providers :
          prov[p] # NoName /\ Goto(c, "lookup", [h[c] EXCEPT !.pc = "upsert", !.prov = p])

(* AllocateLLMKeyToTenant: the provider of the key, whatever its status.   *)
LookupProvider(c) ==
    /\ Goto(c, "lookup", [h[c] EXCEPT !.pc = "upsert", !.prov = keys[h[c].key].prov])
    /\ KeyExists(h[c].key)

SelectProvider(c) == LookupProvider(c) /\ UNCHANGED <<tables, d, env, counters>>

(* The upsert replaces the tenant's key of that provider and leaves the    *)
(* allocated_count of the key it had.  Its foreign keys are checked.       *)
UpsertAllocation(c) ==
    /\ Goto(c, "upsert", [h[c] EXCEPT !.pc = "increment"])
    /\ KeyExists(h[c].key) /\ prov[h[c].prov] # NoName
    /\ alloc' = [alloc EXCEPT ![h[c].tenant][h[c].prov] = h[c].key]
    /\ UNCHANGED <<prov, keys, nextProv, nextKey, d, env, counters>>

IncrementCount(c) ==
    /\ Goto(c, "increment", Idle)
    /\ keys' = IF KeyExists(h[c].key) THEN [keys EXCEPT ![h[c].key].count = @ + 1] ELSE keys
    /\ UNCHANGED <<prov, alloc, nextProv, nextKey, d, env, counters>>

(* RevokeTenantLLMAllocation: one of the tenant's keys is read, then all   *)
(* its allocations are deleted and the count of that key goes down.        *)
BeginRevoke(c, t) ==
    /\ Request
    /\ \E k \in Allocated(t) : Goto(c, "idle", At("delete", t, k, 0, NoName))
    /\ UNCHANGED <<tables, d, env, faults>>

DeleteAllocations(c) ==
    /\ Goto(c, "delete", [h[c] EXCEPT !.pc = "decrement"])
    /\ alloc' = [alloc EXCEPT ![h[c].tenant] = [p \in Providers |-> 0]]
    /\ UNCHANGED <<prov, keys, nextProv, nextKey, d, env, counters>>

(* Mutant: allocated_count - 1 without GREATEST.                           *)
OneLess(n) == n - 1

(* Mutant: a revocation sets allocated_count to 0.                         *)
Reset(n) == 0

(* GREATEST(allocated_count - 1, 0)                                        *)
Decremented(n) == IF n = 0 THEN 0 ELSE n - 1

DecrementCount(c) ==
    /\ Goto(c, "decrement", Idle)
    /\ keys' = IF KeyExists(h[c].key)
               THEN [keys EXCEPT ![h[c].key].count = Decremented(@)] ELSE keys
    /\ UNCHANGED <<prov, alloc, nextProv, nextKey, d, env, counters>>

(* A statement that finds no row, or no row to refer to: the request ends  *)
(* with an error.                                                          *)
Refuse(c) ==
    /\ \/ h[c].pc = "insert" /\ prov[h[c].prov] = NoName
       \/ h[c].pc = "lookup" /\ ~KeyExists(h[c].key)
       \/ h[c].pc = "upsert" /\ (~KeyExists(h[c].key) \/ prov[h[c].prov] = NoName)
    /\ Goto(c, h[c].pc, Idle)
    /\ UNCHANGED <<tables, d, env, counters>>

-----------------------------------------------------------------------------
(* handleDeploy: one deploy of a tenant at a time.  Any error leaves the   *)
(* key out of the environment and the deploy goes on.                      *)

DeployStep(t, from, local) == d[t].pc = from /\ d' = [d EXCEPT ![t] = local]

(* GetTenantLLMAllocation: any one of the tenant's rows.                   *)
GetTenantLLMAllocation(t) ==
    /\ Request
    /\ \E p \in Providers :
          /\ alloc[t][p] # 0
          /\ DeployStep(t, "idle", At("decrypt", t, alloc[t][p], p, NoName))
    /\ UNCHANGED <<tables, h, env, faults>>

Decryptable(k) == KeyExists(k) /\ keys[k].active

DecryptLLMAPIKey(t) ==
    /\ DeployStep(t, "decrypt", [d[t] EXCEPT !.pc = "name"])
    /\ Decryptable(d[t].key)
    /\ UNCHANGED <<tables, h, env, counters>>

(* GetLLMProvider of the allocation gives the variable its name.           *)
InjectKey(t) ==
    /\ DeployStep(t, "name", Idle)
    /\ prov[d[t].prov] # NoName
    /\ env' = [env EXCEPT ![t] = [key |-> d[t].key, name |-> prov[d[t].prov]]]
    /\ UNCHANGED <<tables, h, counters>>

InjectNothing(t) ==
    /\ \/ d[t].pc = "idle" /\ Allocated(t) = {} /\ Request /\ UNCHANGED faults
       \/ d[t].pc = "decrypt" /\ ~Decryptable(d[t].key) /\ UNCHANGED counters
       \/ d[t].pc = "name" /\ prov[d[t].prov] = NoName /\ UNCHANGED counters
       \/ d[t].pc # "idle" /\ faults < MaxFaults /\ faults' = faults + 1 /\ UNCHANGED requests
    /\ env' = [env EXCEPT ![t] = NoEnv]
    /\ DeployStep(t, d[t].pc, Idle)
    /\ UNCHANGED <<tables, h>>

-----------------------------------------------------------------------------
HandlerStep(c) ==
    \/ \E p \in Providers : GetProviderName(c, p)
    \/ InsertKey(c)
    \/ \E t \in Tenants, k \in Keys : k < nextKey /\ BeginAllocate(c, t, k)
    \/ \E t \in Tenants, n \in Names : PutProfile(c, t, n)
    \/ SelectProvider(c) \/ UpsertAllocation(c) \/ IncrementCount(c)
    \/ \E t \in Tenants : BeginRevoke(c, t)
    \/ DeleteAllocations(c) \/ DecrementCount(c)
    \/ Refuse(c) \/ Abort(c)

Deploy(t) ==
    \/ GetTenantLLMAllocation(t) \/ DecryptLLMAPIKey(t)
    \/ InjectKey(t) \/ InjectNothing(t)

Step ==
    \/ \E n \in Names : UpsertLLMProvider(n)
    \/ \E p \in Providers : DeleteLLMProvider(p)
    \/ \E k \in Keys : DeactivateLLMAPIKey(k)
    \/ \E c \in Handlers : HandlerStep(c)
    \/ \E t \in Tenants : Deploy(t)

Busy == {c \in Handlers : h[c].pc # "idle"}

Next ==
    /\ Step
    /\ serial' = (serial /\ Cardinality(Busy') <= 1 /\ faults' = faults)
    /\ serial' \/ requests' <= MaxConcurrent

Spec == Init /\ [][Next]_vars

-----------------------------------------------------------------------------
(* Properties.                                                             *)

Pcs == {"idle", "insert", "lookup", "upsert", "increment", "delete", "decrement",
        "decrypt", "name"}

Locals == [pc : Pcs, tenant : Tenants \cup {NoName}, key : 0 .. MaxKeys,
           prov : 0 .. MaxProviders, name : Names \cup {NoName}]

(* The types of all that a request reads or writes.                        *)
Typed ==
    /\ prov \in [Providers -> Names \cup {NoName}]
    /\ keys \in [Keys -> [prov : 0 .. MaxProviders, name : Names \cup {NoName},
                         active : BOOLEAN, count : Nat]]
    /\ alloc \in [Tenants -> [Providers -> 0 .. MaxKeys]]
    /\ nextProv \in 1 .. MaxProviders + 1 /\ nextKey \in 1 .. MaxKeys + 1
    /\ h \in [Handlers -> Locals]
    /\ d \in [Tenants -> Locals]
    /\ env \in [Tenants -> [key : 0 .. MaxKeys, name : Names \cup {NoName}]]
    /\ requests \in 0 .. MaxRequests /\ faults \in 0 .. MaxFaults

(* Every variable has its type; no allocated_count is negative, however    *)
(* many revocations of one allocation run at once.                         *)
TypeOK == Typed /\ serial \in BOOLEAN

(* An allocation refers to a key that exists and belongs to its provider,  *)
(* though providers are deleted while their keys are being allocated.      *)
AllocationsRefer ==
    \A t \in Tenants, p \in Providers : alloc[t][p] # 0 => keys[alloc[t][p]].prov = p

(* A key carries the name of its provider, which no other provider has:    *)
(* handlePutProfile finds keys by that name alone.                         *)
KeysCarryNames ==
    /\ \A k \in Keys : KeyExists(k) =>
          prov[keys[k].prov] = keys[k].name /\ keys[k].name # NoName
    /\ \A p, q \in Providers : prov[p] # NoName /\ prov[p] = prov[q] => p = q

(* A key reaches a tenant under the name of the provider it belongs to:    *)
(* no deploy passes the key of one provider off as the key of another.     *)
InjectedUnderItsName ==
    [][\A t \in Tenants : LET k == env'[t].key IN
          InjectKey(t) /\ KeyExists(k) => env'[t].name = keys[k].name]_vars

(* The tenants a key is allocated to.                                      *)
Holders(k) == {t \in Tenants : k \in Allocated(t)}

(* When requests come one at a time and are not cut off, allocated_count   *)
(* never falls below the number of tenants that have the key: a key in use *)
(* is not taken for a free one.                                            *)
CountCoversAllocations ==
    serial /\ Busy = {} =>
        \A k \in Keys : keys[k].count >= Cardinality(Holders(k))

-----------------------------------------------------------------------------
(* The inductive invariant behind AllocationsRefer and                     *)
(* InjectedUnderItsName.                                                   *)

(* Ids are given in order and never again.                                 *)
FreshIds ==
    /\ \A p \in Providers : prov[p] # NoName => p < nextProv
    /\ \A k \in Keys : KeyExists(k) => k < nextKey

(* What was read of a key and its provider is still so, or the key is gone.*)
Remembers(l) ==
    /\ l.key \in Keys /\ l.key < nextKey
    /\ l.prov \in Providers
    /\ KeyExists(l.key) => keys[l.key].prov = l.prov

LocalInv ==
    /\ \A c \in Handlers : h[c].pc = "insert" =>
          /\ h[c].prov \in Providers /\ h[c].prov < nextProv
          /\ prov[h[c].prov] # NoName => prov[h[c].prov] = h[c].name
    /\ \A c \in Handlers :
          h[c].pc \in {"lookup", "upsert", "increment", "delete", "decrement"} =>
             h[c].tenant \in Tenants /\ h[c].key \in Keys /\ h[c].key < nextKey
    /\ \A c \in Handlers : h[c].pc = "upsert" => Remembers(h[c])
    /\ \A t \in Tenants : d[t].pc # "idle" => Remembers(d[t])

PoolInv == Typed /\ AllocationsRefer /\ KeysCarryNames /\ FreshIds /\ LocalInv

(* The inductive invariant behind CountCoversAllocations: an allocation    *)
(* comes before its increment, and goes before its decrement.              *)
Arriving(c, k) == h[c].pc = "increment" /\ h[c].key = k
Leaving(c, k) == h[c].pc = "decrement" /\ h[c].key = k /\ KeyExists(k)

Arrivals(k) == IF \E c \in Handlers : Arriving(c, k) THEN 1 ELSE 0
Departures(k) == IF \E c \in Handlers : Leaving(c, k) THEN 1 ELSE 0

CountInv ==
    serial =>
        /\ \A b, c \in Busy : b = c
        /\ \A c \in Handlers : h[c].pc = "delete" /\ KeyExists(h[c].key) =>
              h[c].key \in Allocated(h[c].tenant)
        /\ \A k \in Keys :
              Cardinality(Holders(k)) + Departures(k) <= keys[k].count + Arrivals(k)

=============================================================================
