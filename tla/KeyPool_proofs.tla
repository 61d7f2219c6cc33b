--------------------------- MODULE KeyPool_proofs ---------------------------
(***************************************************************************)
(* The key pool for any number of tenants, providers, keys and requests:   *)
(* PoolInv is inductive, hence allocations always refer to a key of their  *)
(* provider, and a deploy injects a key under the name of its provider;    *)
(* while requests come one at a time, counts cover allocations.            *)
(***************************************************************************)
EXTENDS KeyPool, FiniteSetTheorems, TLAPS

(* MaxProviders and the other bounds are natural numbers.                  *)
LEMMA Bounds == MaxProviders \in Nat /\ MaxKeys \in Nat /\ MaxRequests \in Nat /\ MaxFaults \in Nat
  BY BoundsAssumption

KeyRows == [prov : 0 .. MaxProviders, name : Names \cup {NoName}, active : BOOLEAN, count : Nat]

(* A row that does not exist and a handler with nothing to do have their   *)
(* types.                                                                  *)
LEMMA Empty ==
    /\ Idle \in Locals
    /\ Idle.pc = "idle"
    /\ NoKey \in [prov : 0 .. MaxProviders, name : Names \cup {NoName},
                  active : BOOLEAN, count : Nat]
    /\ NoEnv \in [key : 0 .. MaxKeys, name : Names \cup {NoName}]
  BY Bounds DEF At, Idle, NoKey, NoEnv, Locals, Pcs

(* The pool is empty at first.                                             *)
LEMMA PoolInit == Init => PoolInv
  BY Bounds, Empty, NamesAssumption DEF Init, PoolInv, Typed, AllocationsRefer, KeysCarryNames,
     FreshIds, LocalInv, Providers, Keys, KeyExists, NoKey

(* Inserting, deleting and deactivating rows keep PoolInv.                 *)
LEMMA TablesKeepPoolInv ==
    ASSUME PoolInv,
           \/ \E n \in Names : UpsertLLMProvider(n)
           \/ \E p \in Providers : DeleteLLMProvider(p)
           \/ \E k \in Keys : DeactivateLLMAPIKey(k)
    PROVE PoolInv'
<1>1. ASSUME NEW n \in Names, UpsertLLMProvider(n) PROVE PoolInv'
  <2>1. Typed'
    BY <1>1, Bounds DEF UpsertLLMProvider, PoolInv, Typed, Providers, counters
  <2>2. AllocationsRefer'
    BY <1>1 DEF UpsertLLMProvider, PoolInv, AllocationsRefer
  <2>3. KeysCarryNames'
    BY <1>1, NamesAssumption DEF UpsertLLMProvider, PoolInv, Typed, KeysCarryNames, KeyExists, FreshIds,
       Providers, Keys
  <2>4. FreshIds'
    BY <1>1 DEF UpsertLLMProvider, PoolInv, Typed, FreshIds, KeyExists, Providers
  <2>5. LocalInv'
    BY <1>1 DEF UpsertLLMProvider, PoolInv, Typed, LocalInv, Remembers, KeyExists, Providers
  <2> QED BY <2>1, <2>2, <2>3, <2>4, <2>5 DEF PoolInv
<1>2. ASSUME NEW p \in Providers, DeleteLLMProvider(p) PROVE PoolInv'
  <2>1. Typed'
    BY <1>2, Bounds, Empty DEF DeleteLLMProvider, Cascade, PoolInv, Typed, counters
  <2>2. AllocationsRefer'
    <3>1. ASSUME NEW t \in Tenants, NEW q \in Providers, alloc'[t][q] # 0
          PROVE keys'[alloc'[t][q]].prov = q
      <4>1. /\ q # p /\ alloc'[t][q] = alloc[t][q]
            /\ \A k \in Keys : k = alloc[t][q] => keys[k].prov # p
        BY <1>2, <3>1 DEF DeleteLLMProvider, Cascade
      <4>2. alloc[t][q] \in Keys
        BY <3>1, <4>1, Bounds DEF PoolInv, Typed, Keys
      <4>3. keys'[alloc[t][q]] = keys[alloc[t][q]]
        BY <1>2, <4>1, <4>2 DEF DeleteLLMProvider, Cascade
      <4> QED BY <3>1, <4>1, <4>3 DEF PoolInv, AllocationsRefer
    <3> QED BY <3>1 DEF AllocationsRefer
  <2>3. KeysCarryNames'
    BY <1>2 DEF DeleteLLMProvider, Cascade, PoolInv, Typed, KeysCarryNames, KeyExists, NoKey,
       Providers, Keys
  <2>4. FreshIds'
    BY <1>2 DEF DeleteLLMProvider, Cascade, PoolInv, Typed, FreshIds, KeyExists, NoKey
  <2>5. LocalInv'
    BY <1>2 DEF DeleteLLMProvider, Cascade, PoolInv, Typed, LocalInv, Remembers, KeyExists, NoKey
  <2> QED BY <2>1, <2>2, <2>3, <2>4, <2>5 DEF PoolInv
<1>3. ASSUME NEW k \in Keys, DeactivateLLMAPIKey(k) PROVE PoolInv'
  <2>1. Typed'
    <3>1. [keys[k] EXCEPT !.active = FALSE] \in
              [prov : 0 .. MaxProviders, name : Names \cup {NoName}, active : BOOLEAN, count : Nat]
      BY DEF PoolInv, Typed
    <3> QED BY <1>3, <3>1 DEF DeactivateLLMAPIKey, PoolInv, Typed, counters
  <2>2. AllocationsRefer'
    BY <1>3 DEF DeactivateLLMAPIKey, PoolInv, Typed, AllocationsRefer, Keys
  <2>3. KeysCarryNames'
    BY <1>3 DEF DeactivateLLMAPIKey, PoolInv, Typed, KeysCarryNames, KeyExists
  <2>4. FreshIds' /\ LocalInv'
    BY <1>3 DEF DeactivateLLMAPIKey, PoolInv, Typed, FreshIds, LocalInv, Remembers, KeyExists
  <2> QED BY <2>1, <2>2, <2>3, <2>4 DEF PoolInv
<1> QED BY <1>1, <1>2, <1>3

(* The steps of the API handlers keep PoolInv.                             *)
LEMMA HandlerKeepsPoolInv ==
    ASSUME PoolInv, NEW c \in Handlers, HandlerStep(c)
    PROVE PoolInv'
<1> USE DEF PoolInv
<1>1. ASSUME NEW p \in Providers, GetProviderName(c, p) PROVE PoolInv'
  <2>1. Typed'
    BY SMTT(40), <1>1, Bounds DEF GetProviderName, Goto, Typed, tables, counters, Locals, Pcs, At, Providers
  <2>2. LocalInv'
    BY <1>1 DEF GetProviderName, Goto, Typed, tables, LocalInv, FreshIds, Remembers, KeyExists, At
  <2> QED BY <1>1, <2>1, <2>2 DEF GetProviderName, tables, AllocationsRefer, KeysCarryNames,
             FreshIds, KeyExists
<1>2. CASE InsertKey(c)
  <2> PICK active \in BOOLEAN : keys' = [keys EXCEPT ![nextKey] =
              [prov |-> h[c].prov, name |-> h[c].name, active |-> active, count |-> 0]]
    BY <1>2 DEF InsertKey
  <2>1. h[c].prov \in Providers /\ prov[h[c].prov] = h[c].name /\ h[c].name \in Names \cup {NoName}
    BY <1>2 DEF InsertKey, Goto, LocalInv, Typed, Locals
  <2>2. Typed'
    <3>1. keys' \in [Keys -> [prov : 0 .. MaxProviders, name : Names \cup {NoName},
                              active : BOOLEAN, count : Nat]]
      BY <1>2, <2>1 DEF InsertKey, Typed, Providers
    <3>2. nextKey' \in 1 .. MaxKeys + 1
      BY <1>2, Bounds DEF InsertKey, Typed, Keys
    <3>3. h' \in [Handlers -> Locals]
      BY <1>2, Empty DEF InsertKey, Goto, Typed
    <3> QED BY <1>2, <3>1, <3>2, <3>3 DEF InsertKey, Typed, counters
  <2>3. keys[nextKey].prov = 0 /\ nextKey' = nextKey + 1 /\ nextKey \in Keys
    BY <1>2 DEF InsertKey, FreshIds, KeyExists, Typed, Keys
  <2>4. AllocationsRefer'
    BY <1>2, <2>1, <2>3 DEF InsertKey, AllocationsRefer, Typed, Keys, Providers
  <2>5. KeysCarryNames'
    BY <1>2, <2>1 DEF InsertKey, KeysCarryNames, KeyExists, Typed
  <2>6. FreshIds'
    BY <1>2, <2>3 DEF InsertKey, FreshIds, KeyExists, Typed, Keys
  <2>7. LocalInv'
    BY SMTT(40), <1>2, <2>3, Empty DEF InsertKey, Goto, LocalInv, Remembers, KeyExists, Typed, Keys
  <2> QED BY <2>2, <2>4, <2>5, <2>6, <2>7
<1>3. ASSUME NEW t \in Tenants, NEW k \in Keys, k < nextKey, BeginAllocate(c, t, k) PROVE PoolInv'
  <2>1. Typed'
    BY SMTT(40), <1>3, Bounds DEF BeginAllocate, Request, Goto, Typed, tables, Locals, Pcs, At, Keys
  <2>2. LocalInv'
    BY <1>3 DEF BeginAllocate, Goto, Typed, tables, LocalInv, Remembers, KeyExists, At
  <2> QED BY <1>3, <2>1, <2>2 DEF BeginAllocate, tables, AllocationsRefer, KeysCarryNames,
             FreshIds, KeyExists
<1>4. ASSUME NEW t \in Tenants, NEW n \in Names, PutProfile(c, t, n) PROVE PoolInv'
  <2>1. PICK k \in LeastAllocated(n) : BeginAllocate(c, t, k)
    BY <1>4 DEF PutProfile
  <2>2. k \in Keys /\ k < nextKey
    BY DEF LeastAllocated, ActiveKeys, FreshIds
  <2> QED BY <1>3, <2>1, <2>2
<1>5. CASE SelectProvider(c)
  <2>1. h[c].key \in Keys /\ h[c].key < nextKey /\ keys[h[c].key].prov \in Providers
    BY <1>5 DEF SelectProvider, LookupProvider, Goto, LocalInv, KeyExists, Typed, Providers
  <2>2. Typed'
    <3>1. h[c] \in Locals /\ keys[h[c].key].prov \in 0 .. MaxProviders
      BY <2>1 DEF Typed
    <3>2. [h[c] EXCEPT !.pc = "upsert", !.prov = keys[h[c].key].prov] \in Locals
      BY <3>1 DEF Locals, Pcs
    <3> QED BY <1>5, <3>2 DEF SelectProvider, LookupProvider, Goto, Typed, tables, counters
  <2>3. LocalInv'
    BY <1>5, <2>1 DEF SelectProvider, LookupProvider, Goto, Typed, tables, LocalInv, Remembers,
       KeyExists, Locals
  <2> QED BY <1>5, <2>2, <2>3 DEF SelectProvider, tables, AllocationsRefer, KeysCarryNames,
             FreshIds, KeyExists
<1>6. CASE UpsertAllocation(c)
  <2>1. h[c].tenant \in Tenants /\ Remembers(h[c])
    BY <1>6 DEF UpsertAllocation, Goto, LocalInv
  <2>2. Typed'
    <3>1. h[c] \in Locals
      BY DEF Typed
    <3>2. [h[c] EXCEPT !.pc = "increment"] \in Locals
      BY <3>1 DEF Locals, Pcs
    <3>3. alloc' \in [Tenants -> [Providers -> 0 .. MaxKeys]]
      BY SMTT(40), <1>6, <2>1, Bounds DEF UpsertAllocation, Typed, Remembers, Keys
    <3> QED BY <1>6, <3>2, <3>3 DEF UpsertAllocation, Goto, Typed, counters
  <2>3. AllocationsRefer'
    BY <1>6, <2>1 DEF UpsertAllocation, Remembers, AllocationsRefer, Typed
  <2>4. LocalInv'
    BY <1>6, <2>1 DEF UpsertAllocation, Goto, Typed, LocalInv, Remembers, KeyExists, Locals
  <2> QED BY <1>6, <2>2, <2>3, <2>4 DEF UpsertAllocation, KeysCarryNames, FreshIds, KeyExists
<1>7. CASE IncrementCount(c) \/ DecrementCount(c)
  <2>1. h[c].key \in Keys /\ h' = [h EXCEPT ![c] = Idle]
    BY <1>7 DEF IncrementCount, DecrementCount, Goto, LocalInv
  <2>2. PICK n \in Nat : keys' = keys \/ keys' = [keys EXCEPT ![h[c].key].count = n]
    <3>1. keys[h[c].key].count \in Nat
      BY <2>1 DEF Typed
    <3>2. CASE IncrementCount(c)
      <4>1. keys[h[c].key].count + 1 \in Nat
        BY <3>1
      <4> QED BY <3>2, <4>1, Zenon DEF IncrementCount
    <3>3. CASE DecrementCount(c)
      <4>1. Decremented(keys[h[c].key].count) \in Nat
        BY <3>1 DEF Decremented
      <4> QED BY <3>3, <4>1, Zenon DEF DecrementCount
    <3> QED BY <1>7, <3>2, <3>3
  <2>3. \A k \in Keys : /\ keys'[k] \in KeyRows
                        /\ keys'[k].prov = keys[k].prov /\ keys'[k].name = keys[k].name
    <3> SUFFICES ASSUME NEW k \in Keys
                 PROVE  /\ keys'[k] \in KeyRows
                        /\ keys'[k].prov = keys[k].prov /\ keys'[k].name = keys[k].name
      OBVIOUS
    <3>1. keys[k] \in KeyRows
      BY DEF Typed, KeyRows
    <3>2. keys'[k] = keys[k] \/ keys'[k] = [keys[k] EXCEPT !.count = n]
      BY <2>1, <2>2 DEF Typed
    <3>3. /\ [keys[k] EXCEPT !.count = n] \in KeyRows
          /\ [keys[k] EXCEPT !.count = n].prov = keys[k].prov
          /\ [keys[k] EXCEPT !.count = n].name = keys[k].name
      BY <3>1 DEF KeyRows
    <3> QED BY <3>1, <3>2, <3>3
  <2>4. UNCHANGED <<prov, alloc, nextProv, nextKey, d, env, counters>>
    BY <1>7 DEF IncrementCount, DecrementCount
  <2>5. Typed'
    <3>1. keys' \in [Keys -> KeyRows]
      BY <2>2, <2>3 DEF Typed
    <3> QED BY <2>1, <2>4, <3>1, Empty DEF Typed, counters, KeyRows
  <2>6. AllocationsRefer' /\ KeysCarryNames' /\ FreshIds'
    <3>1. \A k \in Keys : keys'[k].prov = keys[k].prov /\ keys'[k].name = keys[k].name
      BY <2>3
    <3>2. AllocationsRefer'
      BY <2>4, <3>1, Bounds DEF AllocationsRefer, KeyExists, Typed, Keys
    <3>3. KeysCarryNames'
      BY <2>4, <3>1 DEF KeysCarryNames, KeyExists
    <3>4. FreshIds'
      BY <2>4, <3>1 DEF FreshIds, KeyExists
    <3> QED BY <3>2, <3>3, <3>4
  <2>7. LocalInv'
    BY <2>1, <2>3, <2>4, Empty DEF LocalInv, Remembers, KeyExists, Typed
  <2> QED BY <2>5, <2>6, <2>7
<1>8. ASSUME NEW t \in Tenants, BeginRevoke(c, t) PROVE PoolInv'
  <2>1. PICK k \in Allocated(t) :
           Goto(c, "idle", At("delete", t, k, 0, NoName))
    BY <1>8 DEF BeginRevoke
  <2>2. k \in Keys /\ k < nextKey
    <3>1. PICK p \in Providers : k = alloc[t][p] /\ k # 0
      BY DEF Allocated
    <3>2. k \in Keys
      BY <3>1, Bounds DEF Typed, Keys
    <3>3. KeyExists(k)
      BY <3>1, Bounds DEF AllocationsRefer, KeyExists, Providers
    <3> QED BY <3>2, <3>3 DEF FreshIds
  <2>3. Typed'
    <3>1. At("delete", t, k, 0, NoName) \in Locals
      BY <2>2, Bounds DEF At, Locals, Pcs, Keys
    <3>2. h' \in [Handlers -> Locals]
      BY <2>1, <3>1 DEF Goto, Typed
    <3>3. requests' \in 0 .. MaxRequests
      BY <1>8, Bounds DEF BeginRevoke, Request, Typed
    <3> QED BY <1>8, <3>2, <3>3 DEF BeginRevoke, Typed, tables
  <2>4. LocalInv'
    BY <1>8, <2>1, <2>2 DEF BeginRevoke, Goto, Typed, tables, LocalInv, Remembers, KeyExists, At
  <2> QED BY <1>8, <2>3, <2>4 DEF BeginRevoke, tables, AllocationsRefer, KeysCarryNames,
             FreshIds, KeyExists
<1>9. CASE DeleteAllocations(c)
  <2>1. Typed'
    <3>1. alloc' \in [Tenants -> [Providers -> 0 .. MaxKeys]]
      <4>1. [p \in Providers |-> 0] \in [Providers -> 0 .. MaxKeys]
        BY Bounds
      <4> QED BY <1>9, <4>1 DEF DeleteAllocations, Typed
    <3>2. h' \in [Handlers -> Locals]
      <4>1. h[c] \in Locals
        BY DEF Typed
      <4>2. [h[c] EXCEPT !.pc = "decrement"] \in Locals
        BY <4>1 DEF Locals, Pcs
      <4> QED BY <1>9, <4>2 DEF DeleteAllocations, Goto, Typed
    <3> QED BY <1>9, <3>1, <3>2 DEF DeleteAllocations, Typed, counters
  <2>2. AllocationsRefer'
    BY <1>9 DEF DeleteAllocations, AllocationsRefer, Typed
  <2>3. LocalInv'
    BY <1>9 DEF DeleteAllocations, Goto, Typed, LocalInv, Remembers, KeyExists, Locals
  <2> QED BY <1>9, <2>1, <2>2, <2>3 DEF DeleteAllocations, KeysCarryNames, FreshIds, KeyExists
<1>10. CASE Refuse(c) \/ Abort(c)
  <2>1. Typed'
    BY <1>10, Empty, Bounds DEF Refuse, Abort, Goto, Typed, tables, counters
  <2>2. LocalInv'
    BY ZenonT(60), <1>10, Empty DEF Refuse, Abort, Goto, Typed, tables, LocalInv, Remembers, KeyExists
  <2> QED BY <1>10, <2>1, <2>2 DEF Refuse, Abort, tables, AllocationsRefer, KeysCarryNames,
             FreshIds, KeyExists
<1> QED BY <1>1, <1>2, <1>3, <1>4, <1>5, <1>6, <1>7, <1>8, <1>9, <1>10 DEF HandlerStep

(* The steps of a deploy keep PoolInv.                                     *)
LEMMA DeployKeepsPoolInv ==
    ASSUME PoolInv, NEW t \in Tenants, Deploy(t)
    PROVE PoolInv'
<1> USE DEF PoolInv
<1>1. tables' = tables /\ h' = h
  BY DEF Deploy, GetTenantLLMAllocation, DecryptLLMAPIKey, InjectKey, InjectNothing
<1>2. AllocationsRefer' /\ KeysCarryNames' /\ FreshIds'
  BY <1>1 DEF tables, AllocationsRefer, KeysCarryNames, FreshIds, KeyExists
<1>3. CASE GetTenantLLMAllocation(t)
  <2>1. PICK p \in Providers :
           /\ alloc[t][p] # 0
           /\ DeployStep(t, "idle", At("decrypt", t, alloc[t][p], p, NoName))
    BY <1>3 DEF GetTenantLLMAllocation
  <2>2. /\ alloc[t][p] \in Keys /\ alloc[t][p] < nextKey
        /\ keys[alloc[t][p]].prov = p
    BY <2>1, Bounds DEF AllocationsRefer, FreshIds, KeyExists, Typed, Keys, Providers
  <2>3. Typed'
    BY SMTT(40), <1>1, <1>3, <2>1, <2>2, Bounds DEF GetTenantLLMAllocation, Request, DeployStep, Typed, tables,
       Locals, Pcs, At, Keys, Providers, counters
  <2>4. LocalInv'
    BY <1>1, <2>1, <2>2 DEF DeployStep, Typed, tables, LocalInv, Remembers, KeyExists, At
  <2> QED BY <1>2, <2>3, <2>4
<1>4. CASE DecryptLLMAPIKey(t)
  <2>1. Typed'
    BY ZenonT(60), <1>1, <1>4 DEF DecryptLLMAPIKey, DeployStep, Typed, tables, counters, Locals, Pcs
  <2>2. LocalInv'
    BY <1>1, <1>4 DEF DecryptLLMAPIKey, DeployStep, Typed, tables, LocalInv, Remembers, KeyExists, Locals
  <2> QED BY <1>2, <2>1, <2>2
<1>5. CASE InjectKey(t) \/ InjectNothing(t)
  <2>1. d' = [d EXCEPT ![t] = Idle]
    BY <1>5 DEF InjectKey, InjectNothing, DeployStep
  <2>2. env' \in [Tenants -> [key : 0 .. MaxKeys, name : Names \cup {NoName}]]
    <3>1. CASE InjectKey(t)
      <4>1. Remembers(d[t]) /\ env' = [env EXCEPT ![t] = [key |-> d[t].key, name |-> prov[d[t].prov]]]
        BY <3>1 DEF InjectKey, DeployStep, LocalInv
      <4>2. d[t].key \in 0 .. MaxKeys /\ prov[d[t].prov] \in Names \cup {NoName}
        BY <4>1, Bounds DEF Remembers, Typed, Keys
      <4> QED BY <4>1, <4>2 DEF Typed
    <3>2. CASE InjectNothing(t)
      BY <3>2, Empty DEF InjectNothing, Typed
    <3> QED BY <1>5, <3>1, <3>2
  <2>3. requests' \in 0 .. MaxRequests /\ faults' \in 0 .. MaxFaults
    BY <1>5, Bounds DEF InjectKey, InjectNothing, Typed, counters, Request
  <2>4. Typed'
    BY <1>1, <2>1, <2>2, <2>3, Empty DEF Typed, tables
  <2>5. LocalInv'
    BY <1>1, <2>1, Empty DEF Typed, tables, LocalInv, Remembers, KeyExists
  <2> QED BY <1>2, <2>4, <2>5
<1> QED BY <1>3, <1>4, <1>5 DEF Deploy

(* PoolInv is an inductive invariant of the key pool.                      *)
THEOREM PoolInvariant == Spec => []PoolInv
<1>1. PoolInv /\ [Next]_vars => PoolInv'
  <2>1. CASE UNCHANGED vars
    BY <2>1 DEF vars, tables, counters, PoolInv, Typed, AllocationsRefer, KeysCarryNames, FreshIds,
       LocalInv, Remembers, KeyExists
  <2> QED BY <2>1, TablesKeepPoolInv, HandlerKeepsPoolInv, DeployKeepsPoolInv DEF Next, Step
<1> QED BY <1>1, PoolInit, PTL DEF Spec

(* Every variable has its type; in particular GREATEST keeps               *)
(* allocated_count from going below 0 under any number of revocations.     *)
THEOREM PoolTypeCorrect == Spec => []TypeOK
<1>1. Init => serial \in BOOLEAN
  BY DEF Init
<1>2. serial \in BOOLEAN /\ [Next]_vars => (serial \in BOOLEAN)'
  BY DEF Next, vars
<1>3. PoolInv /\ serial \in BOOLEAN => TypeOK
  BY DEF PoolInv, TypeOK
<1> QED BY <1>1, <1>2, <1>3, PoolInvariant, PTL DEF Spec

(* Every allocation refers to a key that exists and belongs to the         *)
(* provider of the allocation, whatever is deleted while it is made.       *)
THEOREM AllocationsAlwaysRefer == Spec => []AllocationsRefer
  BY PoolInvariant, PTL DEF PoolInv

(* A key carries the name of its provider, which no other provider has.    *)
THEOREM KeysAlwaysCarryNames == Spec => []KeysCarryNames
  BY PoolInvariant, PTL DEF PoolInv

(* A deploy injects a key under the name of the provider it belongs to.    *)
THEOREM InjectedKeysAreNamed == Spec => InjectedUnderItsName
<1>1. ASSUME PoolInv, NEW t \in Tenants, InjectKey(t), KeyExists(env'[t].key)
      PROVE env'[t].name = keys[env'[t].key].name
  <2>1. Remembers(d[t]) /\ env'[t] = [key |-> d[t].key, name |-> prov[d[t].prov]]
    BY <1>1 DEF PoolInv, Typed, LocalInv, InjectKey, DeployStep
  <2> QED BY <1>1, <2>1 DEF PoolInv, KeysCarryNames, Remembers
<1>2. PoolInv => [\A t \in Tenants : LET k == env'[t].key IN
          InjectKey(t) /\ KeyExists(k) => env'[t].name = keys[k].name]_vars
  BY <1>1
<1> QED BY <1>2, PoolInvariant, PTL DEF InjectedUnderItsName, Spec

-----------------------------------------------------------------------------
(* allocated_count, while requests come one at a time.                     *)

(* The tenants that hold a key can be counted.                             *)
LEMMA HoldersCounted ==
    ASSUME NEW k
    PROVE /\ IsFiniteSet(Holders(k)) /\ Cardinality(Holders(k)) \in Nat
          /\ IsFiniteSet(Holders(k)') /\ Cardinality(Holders(k)') \in Nat
<1>1. Holders(k) \subseteq Tenants /\ Holders(k)' \subseteq Tenants
  BY DEF Holders
<1> QED BY <1>1, ActorsAssumption, FS_Subset, FS_CardinalityType

LEMMA FewerHolders ==
    ASSUME NEW k, Holders(k)' \subseteq Holders(k)
    PROVE Cardinality(Holders(k)') <= Cardinality(Holders(k))
BY HoldersCounted, FS_Subset

(* Nobody holds a key that does not exist.                                 *)
LEMMA NoHolders ==
    ASSUME NEW k \in Keys
    PROVE /\ PoolInv /\ ~KeyExists(k) => Cardinality(Holders(k)) = 0
          /\ PoolInv' /\ ~KeyExists(k)' => Cardinality(Holders(k)') = 0
<1>1. ASSUME PoolInv, ~KeyExists(k) PROVE Holders(k) = {}
  BY <1>1, Bounds DEF PoolInv, AllocationsRefer, KeyExists, Keys, Providers, Holders, Allocated
<1>2. ASSUME PoolInv', ~KeyExists(k)' PROVE Holders(k)' = {}
  BY <1>2, Bounds DEF PoolInv, AllocationsRefer, KeyExists, Keys, Providers, Holders, Allocated
<1> QED BY <1>1, <1>2, FS_EmptySet

(* What is due of a key is 0 or 1.                                         *)
LEMMA DueTypes ==
    ASSUME NEW k
    PROVE /\ Arrivals(k) \in {0, 1} /\ Departures(k) \in {0, 1}
          /\ Arrivals(k)' \in {0, 1} /\ Departures(k)' \in {0, 1}
BY DEF Arrivals, Departures

LEMMA CountTypes ==
    ASSUME NEW k \in Keys
    PROVE (PoolInv => keys[k].count \in Nat) /\ (PoolInv' => keys'[k].count \in Nat)
BY DEF PoolInv, Typed

(* A set of at most one element.                                           *)
LEMMA AtMostOne ==
    ASSUME NEW S, IsFiniteSet(S), Cardinality(S) <= 1, NEW x \in S, NEW y \in S
    PROVE x = y
<1> SUFFICES ASSUME x # y PROVE FALSE
  OBVIOUS
<1>1. IsFiniteSet({x}) /\ Cardinality({x}) = 1
  BY FS_Singleton
<1>2. Cardinality({x} \cup {y}) = 2
  BY SMTT(40), <1>1, FS_AddElement
<1>3. Cardinality({x} \cup {y}) <= Cardinality(S) /\ Cardinality(S) \in Nat
  BY FS_Subset, FS_CardinalityType
<1> QED BY <1>2, <1>3

(* While serial, one request at a time is served, and none is cut off.     *)
LEMMA SerialStep ==
    ASSUME Next, serial'
    PROVE /\ serial /\ faults' = faults
          /\ \A b, c \in Busy' : b = c
<1>1. serial /\ faults' = faults /\ Cardinality(Busy') <= 1
  BY DEF Next
<1>2. IsFiniteSet(Busy')
  BY ActorsAssumption, FS_Subset DEF Busy
<1> QED BY <1>1, <1>2, AtMostOne

(* Steps that give no tenant a key, take away no count and leave the       *)
(* increments and decrements that are due as they are.                     *)
LEMMA CountFrame ==
    ASSUME PoolInv, PoolInv', CountInv, Next, serial',
           \A c \in Handlers :
               h'[c] = h[c] \/ {h[c].pc, h'[c].pc} \subseteq {"idle", "insert", "lookup", "upsert"},
           \A k \in Keys : KeyExists(k)' =>
               \/ KeyExists(k) /\ keys'[k].count >= keys[k].count
               \/ ~KeyExists(k) /\ k >= nextKey,
           \A k \in Keys : Holders(k)' \subseteq Holders(k),
           \A t \in Tenants : \A k \in Allocated(t) \cap Keys :
               KeyExists(k)' => k \in Allocated(t)'
    PROVE CountInv'
<1>1. serial /\ \A b, c \in Busy' : b = c
  BY SerialStep
<1>2. (\A c \in Handlers : h[c].pc = "delete" /\ KeyExists(h[c].key) =>
                              h[c].key \in Allocated(h[c].tenant))'
  <2> SUFFICES ASSUME NEW c \in Handlers, h'[c].pc = "delete", KeyExists(h[c].key)'
               PROVE  (h[c].key \in Allocated(h[c].tenant))'
    OBVIOUS
  <2>1. h'[c] = h[c] /\ h[c].tenant \in Tenants /\ h[c].key \in Keys /\ h[c].key < nextKey
    BY DEF PoolInv, LocalInv
  <2>2. PICK k \in Keys, t \in Tenants :
            k = h[c].key /\ t = h[c].tenant /\ k = h'[c].key /\ t = h'[c].tenant
    BY <2>1
  <2>3. KeyExists(k)' /\ k < nextKey /\ k \in Int /\ nextKey \in Int
    BY <2>1, <2>2, Bounds DEF Keys, PoolInv, Typed, KeyExists
  <2>4. KeyExists(k)
    BY <2>3
  <2>5. k \in Allocated(t)
    BY <1>1, <2>1, <2>2, <2>4 DEF CountInv
  <2>6. k \in Allocated(t)'
    BY <2>3, <2>5
  <2> QED BY <2>2, <2>6 DEF Allocated
<1>3. ASSUME NEW k \in Keys
      PROVE  Cardinality(Holders(k)') + Departures(k)' <= keys'[k].count + Arrivals(k)'
  <2>0. /\ keys[k].count \in Nat /\ keys'[k].count \in Nat
        /\ Arrivals(k) \in {0, 1} /\ Departures(k) \in {0, 1}
        /\ Arrivals(k)' \in {0, 1} /\ Departures(k)' \in {0, 1}
    BY CountTypes, DueTypes
  <2>1. CASE ~KeyExists(k)'
    <3>1. Cardinality(Holders(k)') = 0
      BY <2>1, NoHolders
    <3>2. Departures(k)' = 0
      BY <2>1 DEF Departures, Leaving
    <3> QED BY <2>0, <3>1, <3>2
  <2>2. CASE KeyExists(k)' /\ KeyExists(k) /\ keys'[k].count >= keys[k].count
    <3>1. \A c \in Handlers : Arriving(c, k)' = Arriving(c, k) /\ Leaving(c, k)' = Leaving(c, k)
      BY <2>2 DEF Arriving, Leaving
    <3>2. Departures(k)' = Departures(k) /\ Arrivals(k)' = Arrivals(k)
      BY <3>1 DEF Departures, Arrivals
    <3>3. Cardinality(Holders(k)') <= Cardinality(Holders(k))
      BY FewerHolders
    <3>4. Cardinality(Holders(k)) \in Nat /\ Cardinality(Holders(k)') \in Nat
      BY HoldersCounted
    <3>5. Cardinality(Holders(k)) + Departures(k) <= keys[k].count + Arrivals(k)
      BY <1>1 DEF CountInv
    <3> QED BY <2>0, <2>2, <3>2, <3>3, <3>4, <3>5
  <2>3. CASE KeyExists(k)' /\ ~KeyExists(k)
    <3>1. Cardinality(Holders(k)) = 0 /\ Cardinality(Holders(k)') \in Nat
      BY <2>3, NoHolders, HoldersCounted
    <3>2. Cardinality(Holders(k)') = 0
      BY <3>1, FewerHolders
    <3>3. ASSUME NEW c \in Handlers PROVE ~Leaving(c, k)'
      <4>1. h[c].pc = "decrement" => h[c].key # k
        BY SMTT(40), <2>3, Bounds DEF PoolInv, LocalInv, Typed, Keys
      <4> QED BY <4>1 DEF Leaving
    <3>4. Departures(k)' = 0
      BY <3>3 DEF Departures
    <3> QED BY <2>0, <3>2, <3>4
  <2> QED BY <2>1, <2>2, <2>3
<1>4. \A k \in Keys :
          (Cardinality(Holders(k)) + Departures(k) <= keys[k].count + Arrivals(k))'
  BY <1>3
<1> QED BY <1>1, <1>2, <1>4 DEF CountInv

(* Rows come and go: the keys of a deleted provider take their holders     *)
(* with them, and a deactivated key keeps both.                            *)
LEMMA TablesKeepCount ==
    ASSUME PoolInv, PoolInv', CountInv, Next, serial',
           \/ \E n \in Names : UpsertLLMProvider(n)
           \/ \E p \in Providers : DeleteLLMProvider(p)
           \/ \E k \in Keys : DeactivateLLMAPIKey(k)
    PROVE CountInv'
<1>1. ASSUME NEW n \in Names, UpsertLLMProvider(n) PROVE CountInv'
  <2>1. keys' = keys /\ alloc' = alloc /\ h' = h
    BY <1>1 DEF UpsertLLMProvider
  <2>2. \A k \in Keys : keys'[k].count >= keys[k].count /\ KeyExists(k)' = KeyExists(k)
    BY <2>1, CountTypes DEF KeyExists
  <2>3. \A t \in Tenants : Allocated(t)' = Allocated(t)
    BY <2>1 DEF Allocated
  <2>4. \A k \in Keys : Holders(k)' \subseteq Holders(k)
    BY <2>3 DEF Holders
  <2> QED BY <2>1, <2>2, <2>3, <2>4, CountFrame
<1>2. ASSUME NEW p \in Providers, DeleteLLMProvider(p) PROVE CountInv'
  <2>1. /\ h' = h
        /\ \A k \in Keys : keys'[k] = IF keys[k].prov = p THEN NoKey ELSE keys[k]
        /\ \A t \in Tenants, q \in Providers : alloc'[t][q] =
              IF q = p \/ \E k \in Keys : k = alloc[t][q] /\ keys[k].prov = p
              THEN 0 ELSE alloc[t][q]
    BY <1>2 DEF DeleteLLMProvider, Cascade
  <2>2. \A k \in Keys : KeyExists(k)' => /\ KeyExists(k) /\ keys[k].prov # p
                                         /\ keys'[k].count >= keys[k].count
    BY <2>1, CountTypes DEF KeyExists, NoKey
  <2>3. \A t \in Tenants : Allocated(t)' \subseteq Allocated(t)
    BY <2>1 DEF Allocated
  <2>4. \A k \in Keys : Holders(k)' \subseteq Holders(k)
    BY <2>3 DEF Holders
  <2>5. ASSUME NEW t \in Tenants, NEW k \in Allocated(t) \cap Keys, KeyExists(k)'
        PROVE  k \in Allocated(t)'
    <3>1. PICK q \in Providers : k = alloc[t][q]
      BY <2>5 DEF Allocated
    <3>2. keys[k].prov = q /\ keys[k].prov # p
      BY <2>2, <2>5, <3>1 DEF PoolInv, AllocationsRefer, Allocated
    <3>3. alloc'[t][q] = k
      BY <2>1, <3>1, <3>2
    <3> QED BY <2>5, <3>3 DEF Allocated
  <2> QED BY <2>1, <2>2, <2>4, <2>5, CountFrame
<1>3. ASSUME NEW i \in Keys, DeactivateLLMAPIKey(i) PROVE CountInv'
  <2>1. alloc' = alloc /\ h' = h
    BY <1>3 DEF DeactivateLLMAPIKey
  <2>2. \A k \in Keys : keys'[k].count = keys[k].count /\ keys'[k].prov = keys[k].prov
    BY <1>3 DEF DeactivateLLMAPIKey, PoolInv, Typed
  <2>3. \A k \in Keys : keys'[k].count >= keys[k].count /\ KeyExists(k)' = KeyExists(k)
    BY <2>2, CountTypes DEF KeyExists
  <2>4. \A t \in Tenants : Allocated(t)' = Allocated(t)
    BY <2>1 DEF Allocated
  <2>5. \A k \in Keys : Holders(k)' \subseteq Holders(k)
    BY <2>4 DEF Holders
  <2> QED BY <2>1, <2>3, <2>4, <2>5, CountFrame
<1> QED BY <1>1, <1>2, <1>3

(* The one handler at work accounts for all that is due.                   *)
LEMMA ServedAlone ==
    ASSUME NEW c \in Handlers,
           \A a, b \in Busy : a = b, \A a, b \in Busy' : a = b,
           h[c].pc # "idle" \/ h'[c].pc # "idle",
           \A b \in Handlers : b = c \/ h'[b] = h[b],
           NEW k
    PROVE /\ Arrivals(k) = IF Arriving(c, k) THEN 1 ELSE 0
          /\ Departures(k) = IF Leaving(c, k) THEN 1 ELSE 0
          /\ Arrivals(k)' = IF Arriving(c, k)' THEN 1 ELSE 0
          /\ Departures(k)' = IF Leaving(c, k)' THEN 1 ELSE 0
          /\ \A b \in Handlers : h'[b].pc # "idle" => b = c
<1>1. \A b \in Handlers : (h[b].pc # "idle" => b = c) /\ (h'[b].pc # "idle" => b = c)
  BY DEF Busy
<1> QED BY <1>1 DEF Arrivals, Departures, Arriving, Leaving

(* Steps that leave the count and the holders of every key as they are.    *)
LEMMA QuietHandler ==
    ASSUME PoolInv, PoolInv', CountInv, Next, serial', NEW c \in Handlers,
           keys' = keys, alloc' = alloc,
           \A b \in Handlers : b = c \/ h'[b] = h[b],
           {h[c].pc, h'[c].pc} \subseteq {"idle", "insert", "lookup", "upsert"}
    PROVE CountInv'
<1>1. \A k \in Keys : keys'[k].count >= keys[k].count /\ KeyExists(k)' = KeyExists(k)
  BY CountTypes DEF KeyExists
<1>2. \A t \in Tenants : Allocated(t)' = Allocated(t)
  BY DEF Allocated
<1>3. \A k \in Keys : Holders(k)' \subseteq Holders(k)
  BY <1>2 DEF Holders
<1> QED BY <1>1, <1>2, <1>3, CountFrame

(* A key that is inserted is nobody's yet.                                 *)
LEMMA InsertKeepsCount ==
    ASSUME PoolInv, PoolInv', CountInv, Next, serial', NEW c \in Handlers, InsertKey(c)
    PROVE CountInv'
<1>1. /\ alloc' = alloc /\ h[c].pc = "insert" /\ h' = [h EXCEPT ![c] = Idle]
      /\ \A k \in Keys : k # nextKey => keys'[k] = keys[k]
      /\ nextKey \in Keys /\ ~KeyExists(nextKey)
  BY DEF InsertKey, Goto, PoolInv, Typed, FreshIds, Keys
<1>2. \A k \in Keys : KeyExists(k)' =>
          \/ KeyExists(k) /\ keys'[k].count >= keys[k].count
          \/ ~KeyExists(k) /\ k >= nextKey
  BY <1>1, CountTypes DEF KeyExists, Keys
<1>3. \A t \in Tenants : Allocated(t)' = Allocated(t)
  BY <1>1 DEF Allocated
<1>4. \A k \in Keys : Holders(k)' \subseteq Holders(k)
  BY <1>3 DEF Holders
<1>5. \A b \in Handlers :
          h'[b] = h[b] \/ {h[b].pc, h'[b].pc} \subseteq {"idle", "insert", "lookup", "upsert"}
  BY <1>1, Empty DEF PoolInv, Typed
<1> QED BY <1>2, <1>3, <1>4, <1>5, CountFrame

(* A revocation begins with a key that the tenant has.                     *)
LEMMA RevokeKeepsCount ==
    ASSUME PoolInv, PoolInv', CountInv, Next, serial',
           NEW c \in Handlers, NEW t \in Tenants, BeginRevoke(c, t)
    PROVE CountInv'
<1>1. PICK i \in Allocated(t) : Goto(c, "idle", At("delete", t, i, 0, NoName))
  BY DEF BeginRevoke
<1>2. /\ keys' = keys /\ alloc' = alloc /\ h[c].pc = "idle"
      /\ h' = [h EXCEPT ![c] = At("delete", t, i, 0, NoName)]
  BY <1>1 DEF BeginRevoke, tables, Goto
<1>3. h'[c].pc = "delete" /\ h'[c].tenant = t /\ h'[c].key = i
  BY <1>2 DEF PoolInv, Typed, At
<1>4. /\ serial /\ \A a, b \in Busy : a = b
      /\ \A a, b \in Busy' : a = b
  BY SerialStep DEF CountInv
<1>5. \A b \in Handlers : b = c \/ h'[b] = h[b]
  BY <1>2 DEF PoolInv, Typed
<1>6. (\A b \in Handlers : h[b].pc = "delete" /\ KeyExists(h[b].key) =>
           h[b].key \in Allocated(h[b].tenant))'
  <2>1. \A b \in Handlers : h'[b].pc = "delete" => b = c
    BY <1>3, <1>4 DEF Busy
  <2> QED BY <1>2, <1>3, <2>1 DEF Allocated
<1>7. ASSUME NEW k \in Keys
      PROVE  (Cardinality(Holders(k)) + Departures(k) <= keys[k].count + Arrivals(k))'
  <2>1. Arrivals(k) = 0 /\ Departures(k) = 0 /\ Arrivals(k)' = 0 /\ Departures(k)' = 0
    BY <1>2, <1>3, <1>4, <1>5, ServedAlone DEF Arriving, Leaving
  <2>2. Holders(k)' = Holders(k)
    BY <1>2 DEF Holders, Allocated
  <2> QED BY <1>2, <1>4, <2>1, <2>2 DEF CountInv
<1> QED BY <1>4, <1>6, <1>7 DEF CountInv

(* The allocation is made: one more holder, whose increment is due.        *)
LEMMA UpsertKeepsCount ==
    ASSUME PoolInv, PoolInv', CountInv, Next, serial', NEW c \in Handlers, UpsertAllocation(c)
    PROVE CountInv'
<1>1. PICK t \in Tenants, p \in Providers, i \in Keys :
          t = h[c].tenant /\ p = h[c].prov /\ i = h[c].key
  BY DEF UpsertAllocation, Goto, PoolInv, LocalInv, Remembers
<1>2. /\ keys' = keys /\ alloc' = [alloc EXCEPT ![t][p] = i]
      /\ h[c].pc = "upsert" /\ h' = [h EXCEPT ![c] = [h[c] EXCEPT !.pc = "increment"]]
  BY <1>1 DEF UpsertAllocation, Goto
<1>3. h'[c].pc = "increment" /\ h'[c].key = i
  BY <1>1, <1>2 DEF PoolInv, Typed, Locals
<1>4. /\ serial /\ \A a, b \in Busy : a = b
      /\ \A a, b \in Busy' : a = b
  BY SerialStep DEF CountInv
<1>5. \A b \in Handlers : b = c \/ h'[b] = h[b]
  BY <1>2 DEF PoolInv, Typed
<1>6. (\A b \in Handlers : h[b].pc = "delete" /\ KeyExists(h[b].key) =>
           h[b].key \in Allocated(h[b].tenant))'
  <2>1. \A b \in Handlers : h'[b].pc # "delete"
    BY <1>3, <1>4 DEF Busy
  <2> QED BY <2>1
<1>7. ASSUME NEW k \in Keys
      PROVE  (Cardinality(Holders(k)) + Departures(k) <= keys[k].count + Arrivals(k))'
  <2>1. /\ Arrivals(k) = 0 /\ Departures(k) = 0 /\ Departures(k)' = 0
        /\ Arrivals(k)' = IF k = i THEN 1 ELSE 0
    BY <1>2, <1>3, <1>4, <1>5, ServedAlone DEF Arriving, Leaving
  <2>2. Cardinality(Holders(k)) <= keys[k].count
    <3>1. Cardinality(Holders(k)) \in Nat /\ keys[k].count \in Nat
      BY HoldersCounted, CountTypes
    <3> QED BY <1>4, <2>1, <3>1 DEF CountInv
  <2>3. Cardinality(Holders(k)') <= Cardinality(Holders(k)) + (IF k = i THEN 1 ELSE 0)
    <3>1. \A u \in Tenants : Allocated(u)' \subseteq Allocated(u) \cup (IF u = t THEN {i} ELSE {})
      BY <1>2 DEF Allocated, PoolInv, Typed
    <3>2. CASE k # i
      <4>1. Holders(k)' \subseteq Holders(k)
        BY <3>1, <3>2 DEF Holders
      <4> QED BY <3>2, <4>1, FewerHolders, HoldersCounted
    <3>3. CASE k = i
      <4>1. Holders(k)' \subseteq Holders(k) \cup {t}
        BY <3>1 DEF Holders
      <4>2. /\ IsFiniteSet(Holders(k) \cup {t})
            /\ Cardinality(Holders(k) \cup {t}) <= Cardinality(Holders(k)) + 1
        <5>1. /\ IsFiniteSet(Holders(k) \cup {t})
              /\ \/ Cardinality(Holders(k) \cup {t}) = Cardinality(Holders(k))
                 \/ Cardinality(Holders(k) \cup {t}) = Cardinality(Holders(k)) + 1
          BY HoldersCounted, FS_AddElement
        <5> QED BY <5>1, HoldersCounted
      <4>3. Cardinality(Holders(k)') <= Cardinality(Holders(k) \cup {t})
        BY <4>1, <4>2, FS_Subset
      <4>4. Cardinality(Holders(k) \cup {t}) \in Nat
        BY <4>2, FS_CardinalityType
      <4> QED BY <3>3, <4>2, <4>3, <4>4, HoldersCounted
    <3> QED BY <3>2, <3>3
  <2>4. /\ Cardinality(Holders(k)) \in Nat /\ Cardinality(Holders(k)') \in Nat
        /\ keys[k].count \in Nat /\ keys' = keys
    BY <1>2, HoldersCounted, CountTypes
  <2> QED BY <2>1, <2>2, <2>3, <2>4
<1> QED BY <1>4, <1>6, <1>7 DEF CountInv

(* The count catches up with the allocation.                               *)
LEMMA IncrementKeepsCount ==
    ASSUME PoolInv, PoolInv', CountInv, Next, serial', NEW c \in Handlers, IncrementCount(c)
    PROVE CountInv'
<1>1. PICK i \in Keys : i = h[c].key
  BY DEF IncrementCount, Goto, PoolInv, LocalInv
<1>2. /\ keys' = IF KeyExists(i) THEN [keys EXCEPT ![i].count = @ + 1] ELSE keys
      /\ alloc' = alloc
      /\ h[c].pc = "increment" /\ h' = [h EXCEPT ![c] = Idle] /\ h'[c].pc = "idle"
  BY <1>1, Empty DEF IncrementCount, Goto, PoolInv, Typed
<1>3. /\ serial /\ \A a, b \in Busy : a = b
      /\ \A a, b \in Busy' : a = b
  BY SerialStep DEF CountInv
<1>4. \A b \in Handlers : b = c \/ h'[b] = h[b]
  BY <1>2 DEF PoolInv, Typed
<1>5. \A b \in Handlers : h'[b].pc = "idle"
  BY <1>2, <1>3, <1>4 DEF Busy
<1>6. ASSUME NEW k \in Keys
      PROVE  (Cardinality(Holders(k)) + Departures(k) <= keys[k].count + Arrivals(k))'
  <2>1. /\ Departures(k) = 0 /\ Departures(k)' = 0 /\ Arrivals(k)' = 0
        /\ Arrivals(k) = IF k = i THEN 1 ELSE 0
    BY <1>1, <1>2, <1>3, <1>4, ServedAlone DEF Arriving, Leaving
  <2>2. Holders(k)' = Holders(k)
    BY <1>2 DEF Holders, Allocated
  <2>3. Cardinality(Holders(k)) \in Nat /\ keys[k].count \in Nat /\ keys'[k].count \in Nat
    BY HoldersCounted, CountTypes
  <2>4. Cardinality(Holders(k)) <= keys[k].count + Arrivals(k)
    BY <1>3, <2>1, <2>3 DEF CountInv
  <2>5. CASE k = i /\ ~KeyExists(i)
    <3>1. Cardinality(Holders(k)) = 0
      BY <2>5, NoHolders
    <3> QED BY <2>1, <2>2, <2>3, <3>1
  <2>6. CASE k # i \/ KeyExists(i)
    <3>1. keys'[k].count = keys[k].count + Arrivals(k)
      BY <1>2, <2>1, <2>3, <2>6 DEF PoolInv, Typed
    <3> QED BY <2>1, <2>2, <2>3, <2>4, <3>1
  <2> QED BY <2>5, <2>6
<1> QED BY <1>3, <1>5, <1>6 DEF CountInv

(* A tenant gives up what it had: of the key that was read one holder goes,*)
(* and the decrement is due.                                               *)
LEMMA DeleteKeepsCount ==
    ASSUME PoolInv, PoolInv', CountInv, Next, serial', NEW c \in Handlers, DeleteAllocations(c)
    PROVE CountInv'
<1>1. PICK i \in Keys, t \in Tenants : i = h[c].key /\ t = h[c].tenant
  BY DEF DeleteAllocations, Goto, PoolInv, LocalInv
<1>2. /\ keys' = keys /\ alloc' = [alloc EXCEPT ![t] = [p \in Providers |-> 0]]
      /\ h[c].pc = "delete" /\ h' = [h EXCEPT ![c] = [h[c] EXCEPT !.pc = "decrement"]]
  BY <1>1 DEF DeleteAllocations, Goto
<1>3. h'[c].pc = "decrement" /\ h'[c].key = i
  BY <1>1, <1>2 DEF PoolInv, Typed, Locals
<1>4. /\ serial /\ \A a, b \in Busy : a = b
      /\ \A a, b \in Busy' : a = b
  BY SerialStep DEF CountInv
<1>5. \A b \in Handlers : b = c \/ h'[b] = h[b]
  BY <1>2 DEF PoolInv, Typed
<1>6. \A b \in Handlers : h'[b].pc # "delete"
  BY <1>3, <1>4 DEF Busy
<1>7. KeyExists(i) => t \in Holders(i)
  BY <1>1, <1>2, <1>4 DEF CountInv, Holders
<1>8. ASSUME NEW k \in Keys
      PROVE  (Cardinality(Holders(k)) + Departures(k) <= keys[k].count + Arrivals(k))'
  <2>1. /\ Arrivals(k) = 0 /\ Departures(k) = 0 /\ Arrivals(k)' = 0
        /\ Departures(k)' = IF k = i /\ KeyExists(i) THEN 1 ELSE 0
    BY <1>2, <1>3, <1>4, <1>5, ServedAlone DEF Arriving, Leaving, KeyExists
  <2>2. Holders(k)' = Holders(k) \ {t}
    BY <1>2 DEF Holders, Allocated, PoolInv, Typed
  <2>3. /\ Cardinality(Holders(k)) \in Nat /\ Cardinality(Holders(k)') \in Nat
        /\ keys[k].count \in Nat
    BY HoldersCounted, CountTypes
  <2>4. Cardinality(Holders(k)) <= keys[k].count
    BY <1>4, <2>1, <2>3 DEF CountInv
  <2>5. Cardinality(Holders(k)') + Departures(k)' <= Cardinality(Holders(k))
    <3>1. CASE k = i /\ KeyExists(i)
      <4>1. Cardinality(Holders(k) \ {t}) = Cardinality(Holders(k)) - 1
        BY <1>7, <3>1, HoldersCounted, FS_RemoveElement
      <4> QED BY <2>1, <2>2, <2>3, <3>1, <4>1
    <3>2. CASE ~(k = i /\ KeyExists(i))
      <4>1. Cardinality(Holders(k)') <= Cardinality(Holders(k))
        BY <2>2, FewerHolders
      <4> QED BY <2>1, <2>3, <3>2, <4>1
    <3> QED BY <3>1, <3>2
  <2> QED BY <1>2, <2>1, <2>3, <2>4, <2>5
<1> QED BY <1>4, <1>6, <1>8 DEF CountInv

(* The count follows: the holder has gone already, so it was not 0.        *)
LEMMA DecrementKeepsCount ==
    ASSUME PoolInv, PoolInv', CountInv, Next, serial', NEW c \in Handlers, DecrementCount(c)
    PROVE CountInv'
<1>1. PICK i \in Keys : i = h[c].key
  BY DEF DecrementCount, Goto, PoolInv, LocalInv
<1>2. /\ keys' = IF KeyExists(i) THEN [keys EXCEPT ![i].count = Decremented(@)] ELSE keys
      /\ alloc' = alloc
      /\ h[c].pc = "decrement" /\ h' = [h EXCEPT ![c] = Idle] /\ h'[c].pc = "idle"
  BY <1>1, Empty DEF DecrementCount, Goto, PoolInv, Typed
<1>3. /\ serial /\ \A a, b \in Busy : a = b
      /\ \A a, b \in Busy' : a = b
  BY SerialStep DEF CountInv
<1>4. \A b \in Handlers : b = c \/ h'[b] = h[b]
  BY <1>2 DEF PoolInv, Typed
<1>5. \A b \in Handlers : h'[b].pc = "idle"
  BY <1>2, <1>3, <1>4 DEF Busy
<1>6. ASSUME NEW k \in Keys
      PROVE  (Cardinality(Holders(k)) + Departures(k) <= keys[k].count + Arrivals(k))'
  <2>1. /\ Arrivals(k) = 0 /\ Departures(k)' = 0 /\ Arrivals(k)' = 0
        /\ Departures(k) = IF k = i /\ KeyExists(i) THEN 1 ELSE 0
    BY <1>1, <1>2, <1>3, <1>4, ServedAlone DEF Arriving, Leaving
  <2>2. Holders(k)' = Holders(k)
    BY <1>2 DEF Holders, Allocated
  <2>3. Cardinality(Holders(k)) \in Nat /\ keys[k].count \in Nat
    BY HoldersCounted, CountTypes
  <2>4. Cardinality(Holders(k)) + Departures(k) <= keys[k].count
    BY <1>3, <2>1, <2>3 DEF CountInv
  <2>5. keys'[k].count = keys[k].count - Departures(k)
    <3>1. CASE k = i /\ KeyExists(i)
      <4>1. keys'[k].count = Decremented(keys[k].count)
        BY <1>2, <3>1 DEF PoolInv, Typed
      <4>2. keys[k].count # 0
        BY <2>1, <2>3, <2>4, <3>1
      <4> QED BY <2>1, <3>1, <4>1, <4>2 DEF Decremented
    <3>2. CASE ~(k = i /\ KeyExists(i))
      <4>1. keys'[k] = keys[k]
        BY <1>2, <3>2 DEF PoolInv, Typed
      <4> QED BY <2>1, <2>3, <3>2, <4>1
    <3> QED BY <3>1, <3>2
  <2> QED BY <2>1, <2>2, <2>3, <2>4, <2>5
<1> QED BY <1>3, <1>5, <1>6 DEF CountInv

(* No step of a handler breaks CountInv; while serial none is cut off.     *)
LEMMA HandlerKeepsCount ==
    ASSUME PoolInv, PoolInv', CountInv, Next, serial', NEW c \in Handlers, HandlerStep(c)
    PROVE CountInv'
<1>0. h \in [Handlers -> Locals] /\ Idle.pc = "idle" /\ faults \in Int /\ faults' = faults
  BY Empty, Bounds, SerialStep DEF PoolInv, Typed
<1>1. ASSUME NEW p \in Providers, GetProviderName(c, p) PROVE CountInv'
  BY <1>0, <1>1, QuietHandler DEF GetProviderName, Goto, At, tables
<1>2. ASSUME NEW t \in Tenants, NEW k, BeginAllocate(c, t, k) PROVE CountInv'
  BY <1>0, <1>2, QuietHandler DEF BeginAllocate, Goto, At, tables
<1>3. ASSUME NEW t \in Tenants, NEW n \in Names, PutProfile(c, t, n) PROVE CountInv'
  BY <1>2, <1>3 DEF PutProfile
<1>4. CASE SelectProvider(c)
  <2>1. /\ h[c].pc = "lookup" /\ h'[c].pc = "upsert" /\ keys' = keys /\ alloc' = alloc
        /\ \A b \in Handlers : b = c \/ h'[b] = h[b]
    BY <1>0, <1>4 DEF SelectProvider, LookupProvider, Goto, tables, Locals
  <2> QED BY <2>1, QuietHandler
<1>5. CASE Refuse(c)
  <2>1. /\ h[c].pc \in {"insert", "lookup", "upsert"} /\ h'[c].pc = "idle"
        /\ keys' = keys /\ alloc' = alloc
        /\ \A b \in Handlers : b = c \/ h'[b] = h[b]
    BY <1>0, <1>5 DEF Refuse, Goto, tables
  <2> QED BY <2>1, QuietHandler
<1>6. ~Abort(c)
  BY <1>0 DEF Abort
<1> QED BY <1>1, <1>2, <1>3, <1>4, <1>5, <1>6, InsertKeepsCount, RevokeKeepsCount,
           UpsertKeepsCount, IncrementKeepsCount, DeleteKeepsCount, DecrementKeepsCount
        DEF HandlerStep

(* While requests come one at a time and none is cut off, allocated_count  *)
(* is never below the number of tenants that have the key: with increments *)
(* and decrements outside any transaction, the order of the statements is  *)
(* what keeps a key in use from being taken for a free one.                *)
THEOREM CountsCover == Spec => []CountCoversAllocations
<1>1. Init => CountInv
  <2> SUFFICES ASSUME Init PROVE CountInv
    OBVIOUS
  <2>1. Busy = {}
    BY Empty DEF Init, Busy
  <2>2. \A c \in Handlers : h[c].pc = "idle"
    BY <2>1 DEF Busy
  <2>3. \A k \in Keys : ~KeyExists(k) /\ keys[k].count = 0
    BY DEF Init, KeyExists, NoKey
  <2>4. \A k \in Keys : Cardinality(Holders(k)) = 0 /\ Arrivals(k) = 0 /\ Departures(k) = 0
    BY <2>2, <2>3, NoHolders, PoolInit DEF Arrivals, Departures, Arriving, Leaving
  <2> QED BY <2>1, <2>2, <2>3, <2>4 DEF CountInv
<1>2. PoolInv /\ PoolInv' /\ CountInv /\ [Next]_vars => CountInv'
  <2> SUFFICES ASSUME PoolInv, PoolInv', CountInv, [Next]_vars, serial' PROVE CountInv'
    BY DEF CountInv
  <2>1. CASE UNCHANGED vars
    BY <2>1 DEF vars, tables, counters, CountInv, Busy, KeyExists, Allocated, Holders,
                Arrivals, Departures, Arriving, Leaving
  <2>2. ASSUME Next, NEW t \in Tenants, Deploy(t) PROVE CountInv'
    <3>1. keys' = keys /\ alloc' = alloc /\ h' = h
      BY <2>2 DEF Deploy, GetTenantLLMAllocation, DecryptLLMAPIKey, InjectKey, InjectNothing, tables
    <3>2. serial
      BY <2>2 DEF Next
    <3> QED BY <3>1, <3>2 DEF CountInv, Busy, KeyExists, Allocated, Holders,
                              Arrivals, Departures, Arriving, Leaving
  <2> QED BY <2>1, <2>2, TablesKeepCount, HandlerKeepsCount DEF Next, Step
<1>3. PoolInv /\ CountInv => CountCoversAllocations
  <2> SUFFICES ASSUME PoolInv, CountInv, serial, Busy = {}, NEW k \in Keys
               PROVE  keys[k].count >= Cardinality(Holders(k))
    BY DEF CountCoversAllocations
  <2>1. Arrivals(k) = 0
    BY DEF Busy, Arrivals, Arriving
  <2>2. /\ Cardinality(Holders(k)) \in Nat /\ Departures(k) \in {0, 1}
        /\ keys[k].count \in Nat
    BY HoldersCounted, DueTypes, CountTypes
  <2>3. Cardinality(Holders(k)) + Departures(k) <= keys[k].count + Arrivals(k)
    BY DEF CountInv
  <2> QED BY <2>1, <2>2, <2>3
<1> QED BY <1>1, <1>2, <1>3, PoolInvariant, PTL DEF Spec

=============================================================================
