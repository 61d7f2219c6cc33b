--------------------------- MODULE Profile_proofs ---------------------------
(***************************************************************************)
(* Profiles for any number of tenants, requests and providers: ProfileInv  *)
(* is inductive, hence what is stored as valid, and what a worker deploys, *)
(* passed every check of Validate, and route keys are never shared.        *)
(***************************************************************************)
EXTENDS Profile, TLAPS

Locals == [pc : {"idle", "template", "route", "secrets", "upsert"},
           tenant : Tenants \cup {NoInput}, input : Inputs \cup {NoInput}, issues : SUBSET Issues]

Deploys == [pc : {"idle", "queued", "taken", "deployed"},
            input : Inputs \cup {NoInput}, secrets : SUBSET Secrets, direct : BOOLEAN]

(* A handler with nothing to do and a tenant without a deploy.             *)
LEMMA Resting ==
    Idle \in Locals /\ Idle.pc = "idle" /\ NoDeploy \in Deploys /\ NoDeploy.pc = "idle"
  BY DEF At, Idle, Locals, NoDeploy, Deploys

(* There is no profile, no secret and no request at first.                 *)
LEMMA ProfileInit == Init => ProfileInv
<1> SUFFICES ASSUME Init PROVE ProfileInv
  OBVIOUS
<1>1. TypeOK
  BY Resting, BoundsAssumption DEF Init, TypeOK, Locals, Deploys, NoProfile
<1> QED BY <1>1, Resting DEF Init, ProfileInv, SecretsInv, ChecksInv, RouteKeysDistinct,
           ValidIsValidated, DeploysValidated, NoProfile, Valid

(* Validated stays true as long as no secret is lost.                      *)
LEMMA ValidatedFrame ==
    ASSUME TypeOK, NEW t \in Tenants, NEW in \in Inputs, Validated(t, in),
           \A s \in Secrets : secret'[t][s].version >= secret[t][s].version /\ secret'[t][s].version \in Nat,
           t \notin Revocable => \A s \in Secrets : secret[t][s].active => secret'[t][s].active
    PROVE Validated(t, in)'
<1>1. Required[in.provider] \subseteq Secrets
  BY RequiredAssumption DEF Inputs
<1>2. \A s \in Required[in.provider] : secret'[t][s].version > 0
  BY <1>1 DEF Validated, TypeOK
<1>3. t \notin Revocable => Required[in.provider] \subseteq Active(t)'
  BY <1>1 DEF Validated, Active, SecretExists
<1> QED BY <1>2, <1>3 DEF Validated

(* A request that begins or checks one more thing keeps ProfileInv.        *)
LEMMA CheckKeepsProfileInv ==
    ASSUME ProfileInv, NEW c \in Handlers,
           \/ \E t \in Tenants, in \in Inputs : PutProfile(c, t, in)
           \/ \E t \in Tenants : ValidateProfile(c, t)
           \/ CheckTemplate(c) \/ CheckRoute(c) \/ CheckSecrets(c) \/ FailRequest(c)
    PROVE ProfileInv'
<1> USE DEF ProfileInv
<1>1. UNCHANGED <<profile, secret, deploy>>
  BY DEF PutProfile, ValidateProfile, CheckTemplate, CheckRoute, CheckSecrets, FailRequest
<1>2. requests' \in 0 .. MaxRequests
  BY BoundsAssumption DEF PutProfile, ValidateProfile, CheckTemplate, CheckRoute, CheckSecrets,
     FailRequest, Request, TypeOK
<1>3. \A t, in : Validated(t, in)' <=> Validated(t, in)
  BY <1>1 DEF Validated, Active, SecretExists
<1>4. SecretsInv' /\ RouteKeysDistinct' /\ ValidIsValidated' /\ DeploysValidated'
  BY <1>1, <1>3 DEF SecretsInv, RouteKeysDistinct, Valid, ValidIsValidated, DeploysValidated
<1>5. ASSUME NEW t \in Tenants, NEW in \in Inputs,
             h' = [h EXCEPT ![c] = At("template", t, in, Unless(in.sound, "request"))]
      PROVE ProfileInv'
  <2>1. Unless(in.sound, "request") \in SUBSET Issues /\ (Unless(in.sound, "request") = {} => in.sound)
    BY DEF Unless, Issues
  <2>2. TypeOK'
    BY <1>1, <1>2, <1>5, <2>1 DEF TypeOK, At
  <2>3. ChecksInv'
    BY <1>3, <1>5, <2>1 DEF TypeOK, ChecksInv, At
  <2> QED BY <1>4, <2>2, <2>3
<1>6. ASSUME NEW t \in Tenants, NEW in \in Inputs, PutProfile(c, t, in) PROVE ProfileInv'
  BY <1>5, <1>6 DEF PutProfile, Goto
<1>7. ASSUME NEW t \in Tenants, ValidateProfile(c, t) PROVE ProfileInv'
  <2>1. profile[t].input \in Inputs
    BY <1>7 DEF ValidateProfile, TypeOK
  <2> QED BY <1>5, <1>7, <2>1 DEF ValidateProfile, Goto
<1>8. CASE CheckTemplate(c)
  <2>1. h[c].tenant \in Tenants /\ h[c].input \in Inputs
    BY <1>8 DEF CheckTemplate, ChecksInv
  <2>2. PICK found \in SUBSET Issues :
           /\ found = {} => h[c].input.template \in Enabled
           /\ h' = [h EXCEPT ![c] = [h[c] EXCEPT !.pc = "route", !.issues = @ \cup found]]
    BY <1>8 DEF CheckTemplate, Check, Goto, Unless, Issues, TemplateExists
  <2>3. TypeOK'
    <3>1. h[c] \in Locals
      BY DEF TypeOK, Locals
    <3>2. [h[c] EXCEPT !.pc = "route", !.issues = @ \cup found] \in Locals
      BY <3>1 DEF Locals
    <3>3. h' \in [Handlers -> Locals]
      BY <2>2, <3>2 DEF TypeOK, Locals
    <3> QED BY <1>1, <1>2, <3>3 DEF TypeOK, Locals
  <2>4. ChecksInv'
    BY <1>3, <1>8, <2>1, <2>2 DEF CheckTemplate, TypeOK, ChecksInv
  <2> QED BY <1>4, <2>3, <2>4
<1>9. CASE CheckRoute(c)
  <2>1. h[c].tenant \in Tenants /\ h[c].input \in Inputs
    BY <1>9 DEF CheckRoute, ChecksInv
  <2>2. PICK found \in SUBSET Issues :
           h' = [h EXCEPT ![c] = [h[c] EXCEPT !.pc = "secrets", !.issues = @ \cup found]]
    BY <1>9 DEF CheckRoute, Check, Goto, Unless, Issues
  <2>3. TypeOK'
    <3>1. h[c] \in Locals
      BY DEF TypeOK, Locals
    <3>2. [h[c] EXCEPT !.pc = "secrets", !.issues = @ \cup found] \in Locals
      BY <3>1 DEF Locals
    <3>3. h' \in [Handlers -> Locals]
      BY <2>2, <3>2 DEF TypeOK, Locals
    <3> QED BY <1>1, <1>2, <3>3 DEF TypeOK, Locals
  <2>4. ChecksInv'
    BY <1>3, <1>9, <2>1, <2>2 DEF CheckRoute, TypeOK, ChecksInv
  <2> QED BY <1>4, <2>3, <2>4
<1>10. CASE CheckSecrets(c)
  <2>1. h[c].tenant \in Tenants /\ h[c].input \in Inputs
    BY <1>10 DEF CheckSecrets, ChecksInv
  <2>2. PICK found \in SUBSET Issues :
           /\ found = {} => Required[h[c].input.provider] \subseteq Active(h[c].tenant)
           /\ h' = [h EXCEPT ![c] = [h[c] EXCEPT !.pc = "upsert", !.issues = @ \cup found]]
    BY <1>10 DEF CheckSecrets, RequiredSecrets, Check, Goto, Unless, Issues
  <2>3. TypeOK'
    <3>1. h[c] \in Locals
      BY DEF TypeOK, Locals
    <3>2. [h[c] EXCEPT !.pc = "upsert", !.issues = @ \cup found] \in Locals
      BY <3>1 DEF Locals
    <3>3. h' \in [Handlers -> Locals]
      BY <2>2, <3>2 DEF TypeOK, Locals
    <3> QED BY <1>1, <1>2, <3>3 DEF TypeOK, Locals
  <2>4. h[c].issues = {} /\ found = {} => Validated(h[c].tenant, h[c].input)
    <3>1. h[c].input # NoInput /\ Required[h[c].input.provider] \subseteq Secrets
      BY <2>1, NoInputAssumption, RequiredAssumption DEF Inputs
    <3> QED BY <1>10, <2>1, <2>2, <3>1 DEF CheckSecrets, ChecksInv, Validated, Active, SecretExists,
               SecretsInv
  <2>5. ChecksInv'
    BY <1>3, <1>10, <2>1, <2>2, <2>4 DEF CheckSecrets, TypeOK, ChecksInv
  <2> QED BY <1>4, <2>3, <2>5
<1>11. CASE FailRequest(c)
  <2>1. h' = [h EXCEPT ![c] = Idle]
    BY <1>11 DEF FailRequest, Goto
  <2>2. TypeOK' /\ ChecksInv'
    BY <1>1, <1>2, <1>3, <2>1, Resting DEF TypeOK, ChecksInv, Locals
  <2> QED BY <1>4, <2>2
<1> QED BY <1>6, <1>7, <1>8, <1>9, <1>10, <1>11

(* The upsert stores an input with the result of its own validation, and   *)
(* the UNIQUE constraint keeps route keys apart.                           *)
LEMMA UpsertKeepsProfileInv ==
    ASSUME ProfileInv, NEW c \in Handlers, UpsertTenantProfile(c)
    PROVE ProfileInv'
<1> USE DEF ProfileInv
<1>1. /\ h[c].tenant \in Tenants /\ h[c].input \in Inputs /\ h[c].issues \in SUBSET Issues
      /\ h[c].issues = {} => Validated(h[c].tenant, h[c].input)
  BY DEF UpsertTenantProfile, ChecksInv, TypeOK
<1>2. /\ profile' = [profile EXCEPT ![h[c].tenant] = [input |-> h[c].input, issues |-> h[c].issues,
                                                   direct |-> FALSE]]
      /\ h' = [h EXCEPT ![c] = Idle]
      /\ UNCHANGED <<secret, deploy, requests>>
  BY DEF UpsertTenantProfile, Goto
<1>4. TypeOK'
  BY <1>1, <1>2, Resting DEF TypeOK, Locals
<1>5. \A t, in : Validated(t, in)' <=> Validated(t, in)
  BY <1>2 DEF Validated, Active, SecretExists
<1>6. SecretsInv' /\ DeploysValidated'
  BY <1>2, <1>5 DEF SecretsInv, DeploysValidated
<1>7. ValidIsValidated'
  BY <1>1, <1>2, <1>5 DEF ValidIsValidated, Valid, TypeOK
<1>8. ChecksInv'
  BY <1>2, <1>5, Resting DEF ChecksInv, TypeOK
<1>9. RouteKeysDistinct'
  <2>1. \A u \in Tenants \ {h[c].tenant} :
           profile[u].input # NoInput => profile[u].input.route # h[c].input.route
    BY DEF UpsertTenantProfile, ConstraintsHold, RouteKeyInUse
  <2> QED BY <1>1, <1>2, <2>1 DEF RouteKeysDistinct, TypeOK
<1> QED BY <1>4, <1>6, <1>7, <1>8, <1>9

(* A profile inserted directly leaves the route keys distinct, and nobody  *)
(* answers for its being valid.                                            *)
LEMMA InsertKeepsProfileInv ==
    ASSUME ProfileInv, NEW t \in Tenants, NEW in \in Inputs, InsertProfile(t, in)
    PROVE ProfileInv'
<1> USE DEF ProfileInv
<1>1. PICK found \in SUBSET Issues :
         profile' = [profile EXCEPT ![t] = [input |-> in, direct |-> TRUE, issues |-> found]]
  <2>1. profile[t].issues \in SUBSET Issues /\ {"unvalidated"} \in SUBSET Issues
    BY DEF TypeOK, Issues
  <2> QED BY <2>1 DEF InsertProfile
<1>2. UNCHANGED <<secret, h, deploy>>
  BY DEF InsertProfile
<1>3. requests' \in 0 .. MaxRequests
  BY BoundsAssumption DEF InsertProfile, Request, TypeOK
<1>4. \A u, k : Validated(u, k)' <=> Validated(u, k)
  BY <1>2 DEF Validated, Active, SecretExists
<1>5. TypeOK'
  BY <1>1, <1>2, <1>3 DEF TypeOK
<1>6. SecretsInv' /\ DeploysValidated' /\ ChecksInv'
  BY <1>2, <1>4 DEF SecretsInv, DeploysValidated, ChecksInv
<1>7. ValidIsValidated'
  BY <1>1, <1>4 DEF ValidIsValidated, Valid, TypeOK
<1>8. RouteKeysDistinct'
  <2>1. \A u \in Tenants \ {t} : profile[u].input # NoInput => profile[u].input.route # in.route
    BY DEF InsertProfile, RouteKeyInUse
  <2> QED BY <1>1, <2>1 DEF RouteKeysDistinct, TypeOK
<1> QED BY <1>5, <1>6, <1>7, <1>8

(* Writing and revoking a secret keeps ProfileInv.                         *)
LEMMA SecretKeepsProfileInv ==
    ASSUME ProfileInv, NEW t \in Tenants, NEW s \in Secrets,
           SetTenantSecret(t, s) \/ DeleteTenantSecret(t, s)
    PROVE ProfileInv'
<1> USE DEF ProfileInv
<1>1. UNCHANGED <<profile, h, deploy, requests>>
  BY DEF SetTenantSecret, DeleteTenantSecret
<1>2. PICK r \in [version : 0 .. MaxVersions, active : BOOLEAN] :
         /\ secret' = [secret EXCEPT ![t][s] = r]
         /\ secret[t][s].version <= r.version
         /\ r.active => r.version > 0
         /\ t \notin Revocable => r.active
  <2>1. secret[t][s] \in [version : 0 .. MaxVersions, active : BOOLEAN]
    BY DEF TypeOK
  <2>2. CASE SetTenantSecret(t, s)
    <3>1. PICK n : n = [version |-> secret[t][s].version + 1, active |-> TRUE]
      OBVIOUS
    <3>2. n \in [version : 0 .. MaxVersions, active : BOOLEAN] /\ n.active
          /\ n.version = secret[t][s].version + 1
      BY <2>1, <2>2, <3>1, BoundsAssumption DEF SetTenantSecret
    <3>3. secret' = [secret EXCEPT ![t][s] = n]
      BY <2>2, <3>1 DEF SetTenantSecret
    <3>4. /\ secret[t][s].version <= n.version
          /\ n.active => n.version > 0
          /\ t \notin Revocable => n.active
      BY <2>1, <3>2, BoundsAssumption
    <3> QED BY <3>2, <3>3, <3>4, Zenon
  <2>3. CASE DeleteTenantSecret(t, s)
    <3>1. PICK n : n = [version |-> secret[t][s].version, active |-> FALSE]
      OBVIOUS
    <3>2. n \in [version : 0 .. MaxVersions, active : BOOLEAN] /\ ~n.active
          /\ n.version = secret[t][s].version
      BY <2>1, <3>1
    <3>3. secret' = [secret EXCEPT ![t][s] = n] /\ t \in Revocable
      BY <2>3, <3>1 DEF DeleteTenantSecret
    <3>4. /\ secret[t][s].version <= n.version
          /\ n.active => n.version > 0
          /\ t \notin Revocable => n.active
      BY <2>1, <3>2, <3>3, BoundsAssumption
    <3> QED BY <3>2, <3>3, <3>4, Zenon
  <2> QED BY <2>2, <2>3
<1>3. secret' \in [Tenants -> [Secrets -> [version : 0 .. MaxVersions, active : BOOLEAN]]]
  BY <1>2 DEF TypeOK
<1>4. TypeOK'
  BY <1>1, <1>3 DEF TypeOK
<1>5. \A u \in Tenants, q \in Secrets :
         /\ secret'[u][q].version >= secret[u][q].version /\ secret'[u][q].version \in Nat
         /\ u \notin Revocable /\ secret[u][q].active => secret'[u][q].active
  BY <1>2, BoundsAssumption DEF TypeOK
<1>6. \A u \in Tenants, in \in Inputs : Validated(u, in) => Validated(u, in)'
  BY <1>5, ValidatedFrame
<1>7. SecretsInv'
  BY <1>2 DEF SecretsInv, TypeOK
<1>8. RouteKeysDistinct' /\ ChecksInv'
  BY <1>1, <1>6 DEF RouteKeysDistinct, ChecksInv
<1>9. ValidIsValidated'
  <2>1. \A u \in Tenants : Valid(u) => profile[u].input \in Inputs
    BY DEF Valid, TypeOK
  <2> QED BY <1>1, <1>6, <2>1 DEF ValidIsValidated, Valid
<1>10. DeploysValidated'
  <2>1. \A u \in Tenants : ~deploy[u].direct /\ deploy[u].pc \in {"taken", "deployed"} =>
                              deploy[u].input \in Inputs
    BY DEF DeploysValidated, Validated, TypeOK
  <2> QED BY <1>1, <1>6, <2>1 DEF DeploysValidated
<1> QED BY <1>4, <1>7, <1>8, <1>9, <1>10

(* The steps of a deploy keep ProfileInv.                                  *)
LEMMA DeployKeepsProfileInv ==
    ASSUME ProfileInv, NEW t \in Tenants, DeployStep(t)
    PROVE ProfileInv'
<1> USE DEF ProfileInv
<1>1. UNCHANGED <<profile, secret, h>>
  BY DEF DeployStep, AdmitDeploy, TakeProfile, TakeSecrets, EndDeploy
<1>2. \A u, in : Validated(u, in)' <=> Validated(u, in)
  BY <1>1 DEF Validated, Active, SecretExists
<1>3. SecretsInv' /\ ChecksInv' /\ RouteKeysDistinct' /\ ValidIsValidated'
  BY <1>1, <1>2 DEF SecretsInv, ChecksInv, RouteKeysDistinct, Valid, ValidIsValidated
<1>4. PICK n \in Deploys :
         /\ deploy' = [deploy EXCEPT ![t] = n]
         /\ ~n.direct /\ n.pc \in {"taken", "deployed"} => Validated(t, n.input)
         /\ ~n.direct /\ n.pc = "deployed" /\ t \notin Revocable => Required[n.input.provider] \subseteq n.secrets
  <2>1. deploy[t] \in Deploys /\ profile[t].input \in Inputs \cup {NoInput}
    BY DEF TypeOK, Deploys
  <2>2. CASE AdmitDeploy(t)
    <3>1. [NoDeploy EXCEPT !.pc = "queued"] \in Deploys
      BY DEF NoDeploy, Deploys
    <3>2. [NoDeploy EXCEPT !.pc = "queued"].pc = "queued"
      BY DEF NoDeploy
    <3> QED BY <2>2, <3>1, <3>2 DEF AdmitDeploy
  <2>3. CASE TakeProfile(t)
    <3>1. profile[t].direct \in BOOLEAN
      BY DEF TypeOK
    <3>2. PICK n : n = [deploy[t] EXCEPT !.pc = "taken", !.input = profile[t].input,
                                         !.direct = profile[t].direct]
      OBVIOUS
    <3>3. n \in Deploys /\ n.pc = "taken" /\ n.input = profile[t].input /\ n.direct = profile[t].direct
      BY <2>1, <3>1, <3>2 DEF Deploys
    <3>4. deploy' = [deploy EXCEPT ![t] = n]
      BY <2>3, <3>2 DEF TakeProfile
    <3>5. ~n.direct => Validated(t, n.input)
      BY <2>3, <3>3 DEF TakeProfile, ValidIsValidated
    <3> QED BY <3>3, <3>4, <3>5
  <2>4. CASE TakeSecrets(t)
    <3>1. Active(t) \in SUBSET Secrets
      BY DEF Active
    <3>2. PICK n : n = [deploy[t] EXCEPT !.pc = "deployed", !.secrets = Active(t)]
      OBVIOUS
    <3>3. n \in Deploys /\ n.input = deploy[t].input /\ n.secrets = Active(t) /\ n.direct = deploy[t].direct
      BY <2>1, <3>1, <3>2 DEF Deploys
    <3>4. deploy' = [deploy EXCEPT ![t] = n]
      BY <2>4, <3>2 DEF TakeSecrets
    <3>5. ~n.direct => Validated(t, deploy[t].input)
      BY <2>4, <3>3 DEF TakeSecrets, DeploysValidated
    <3>6. ~n.direct /\ t \notin Revocable => Required[deploy[t].input.provider] \subseteq Active(t)
      BY <3>5 DEF Validated
    <3> QED BY <3>3, <3>4, <3>5, <3>6
  <2>5. CASE EndDeploy(t)
    BY <2>5, Resting DEF EndDeploy
  <2> QED BY <2>2, <2>3, <2>4, <2>5 DEF DeployStep
<1>5. requests' \in 0 .. MaxRequests
  BY BoundsAssumption DEF DeployStep, AdmitDeploy, TakeProfile, TakeSecrets, EndDeploy, Request, TypeOK
<1>6. TypeOK'
  BY <1>1, <1>4, <1>5 DEF TypeOK, Deploys
<1>7. DeploysValidated'
  BY <1>2, <1>4 DEF DeploysValidated, TypeOK
<1> QED BY <1>3, <1>6, <1>7

(* ProfileInv is an inductive invariant.                                   *)
THEOREM ProfileInvariant == Spec => []ProfileInv
<1>1. ProfileInv /\ [Next]_vars => ProfileInv'
  <2>1. CASE UNCHANGED vars
    BY <2>1 DEF vars, ProfileInv, TypeOK, SecretsInv, ChecksInv, RouteKeysDistinct, Valid, ValidIsValidated,
       DeploysValidated, Validated, Active, SecretExists
  <2> QED BY <2>1, CheckKeepsProfileInv, UpsertKeepsProfileInv, InsertKeepsProfileInv, SecretKeepsProfileInv,
             DeployKeepsProfileInv DEF Next, HandlerStep
<1> QED BY <1>1, ProfileInit, PTL DEF Spec

(* Every variable has its type.                                            *)
THEOREM ProfileTypeCorrect == Spec => []TypeOK
  BY ProfileInvariant, PTL DEF ProfileInv

(* No two tenants ever have one route_key.                                 *)
THEOREM RouteKeysStayDistinct == Spec => []RouteKeysDistinct
  BY ProfileInvariant, PTL DEF ProfileInv

(* A profile marked valid was validated as it is stored unless it was      *)
(* inserted directly; without revocations its required secrets are there.  *)
THEOREM ValidProfilesAreValidated == Spec => []ValidIsValidated
  BY ProfileInvariant, PTL DEF ProfileInv

(* A worker deploys validated profiles only, or such as were inserted      *)
(* directly, and without revocations with the secrets they require.        *)
THEOREM DeploysAreValidated == Spec => []DeploysValidated
  BY ProfileInvariant, PTL DEF ProfileInv

=============================================================================
