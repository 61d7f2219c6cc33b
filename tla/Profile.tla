------------------------------ MODULE Profile ------------------------------
(***************************************************************************)
(* Tenant profiles, their validation, tenant secrets, and what a deploy    *)
(* takes from both: handlePutProfile, handleValidateProfile, the secret    *)
(* handlers and the deploy branch of handleLifecycleEnqueue                *)
(* (internal/api/server.go), Validate (internal/service), and the first    *)
(* statements of handleDeploy (internal/jobs/executor.go).                 *)
(*                                                                         *)
(* Validation is a sequence of queries and its result is stored with the   *)
(* profile; nothing renews the result when a secret changes, or when       *)
(* "openclawctl tenant insert" writes to the tables past the API.          *)
(***************************************************************************)
EXTENDS Integers

CONSTANTS
    Tenants, Handlers,
    Enabled, Disabled, Unknown, \* ids of deployment templates
    Routes,
    Providers,     \* model_provider
    Secrets,       \* names of secrets
    Required,      \* requiredSecrets: at most one secret for each provider
    NoInput,
    Revocable,     \* the tenants whose clients delete secrets
    MaxVersions,   \* bound: writes of one secret
    MaxRequests    \* bound: profile requests and deploys ever begun

Templates == Enabled \cup Disabled \cup Unknown

(* "sound" stands for the checks that look at the request alone: the tier, *)
(* required fields, JSON and sizes.                                        *)
Inputs == [template : Templates, route : Routes, provider : Providers, sound : BOOLEAN]

ASSUME RequiredAssumption == Required \in [Providers -> SUBSET Secrets]
ASSUME TemplatesAssumption == Enabled \cap (Disabled \cup Unknown) = {} /\ Disabled \cap Unknown = {}
ASSUME NoInputAssumption == NoInput \notin Inputs
ASSUME RevocableAssumption == Revocable \subseteq Tenants
ASSUME BoundsAssumption == MaxVersions \in Nat /\ MaxRequests \in Nat

(* Fields of validation_errors; a row that was never validated has none,   *)
(* and is not is_valid either.                                             *)
Issues == {"request", "template_id", "route_key", "tenant_secrets", "unvalidated"}
NoProfile == [input |-> NoInput, issues |-> {}, direct |-> FALSE]
At(pc, t, in, found) == [pc |-> pc, tenant |-> t, input |-> in, issues |-> found]
Idle == At("idle", NoInput, NoInput, {})
NoDeploy == [pc |-> "idle", input |-> NoInput, secrets |-> {}, direct |-> FALSE]

VARIABLES
    profile,   \* tenant_profiles: the input last stored, and the fields of
               \* its validation_errors (is_valid when there are none);
               \* direct is history: the input did not come through the API
    secret,    \* tenant_secrets: version (0 for no row) and whether active
    h,         \* a handler's next statement and its local variables
    deploy,    \* the deploy of a tenant: its next step, the profile it took
               \* and the secrets it put into the container's environment
    requests

vars == <<profile, secret, h, deploy, requests>>

-----------------------------------------------------------------------------
TemplateExists(template) == template \in Enabled

RouteKeyInUse(t, route) ==
    \E u \in Tenants \ {t} : profile[u].input # NoInput /\ profile[u].input.route = route

SecretExists(t, s) == secret[t][s].active

Valid(t) == profile[t].input # NoInput /\ profile[t].issues = {}

Active(t) == {s \in Secrets : SecretExists(t, s)}

Init ==
    /\ profile = [t \in Tenants |-> NoProfile]
    /\ secret = [t \in Tenants |-> [s \in Secrets |-> [version |-> 0, active |-> FALSE]]]
    /\ h = [c \in Handlers |-> Idle]
    /\ deploy = [t \in Tenants |-> NoDeploy]
    /\ requests = 0

-----------------------------------------------------------------------------
(* Profile requests.                                                       *)

Request == requests < MaxRequests /\ requests' = requests + 1

Goto(c, from, local) == h[c].pc = from /\ h' = [h EXCEPT ![c] = local]

Unless(check, field) == IF check THEN {} ELSE {field}

(* One check of Validate, which appends an issue if it fails.              *)
Check(c, from, to, found) ==
    Goto(c, from, [h[c] EXCEPT !.pc = to, !.issues = @ \cup found])

(* handlePutProfile has decoded its body.                                  *)
PutProfile(c, t, in) ==
    /\ Request
    /\ Goto(c, "idle", At("template", t, in, Unless(in.sound, "request")))
    /\ UNCHANGED <<profile, secret, deploy>>

(* handleValidateProfile: GetTenantProfile.                                *)
ValidateProfile(c, t) ==
    /\ Request
    /\ profile[t].input # NoInput
    /\ LET in == profile[t].input IN
       Goto(c, "idle", At("template", t, in, Unless(in.sound, "request")))
    /\ UNCHANGED <<profile, secret, deploy>>

(* Validate: one query for each of template, route_key and secrets.        *)
CheckTemplate(c) ==
    /\ h[c].pc = "template"
    /\ Check(c, "template", "route", Unless(TemplateExists(h[c].input.template), "template_id"))
    /\ UNCHANGED <<profile, secret, deploy, requests>>

CheckRoute(c) ==
    /\ h[c].pc = "route"
    /\ Check(c, "route", "secrets",
             Unless(~RouteKeyInUse(h[c].tenant, h[c].input.route), "route_key"))
    /\ UNCHANGED <<profile, secret, deploy, requests>>

(* Mutant: the secrets the stored profile needs are looked for.            *)
StoredSecrets(c) ==
    LET stored == profile[h[c].tenant].input IN
    IF stored = NoInput THEN {} ELSE Required[stored.provider]

RequiredSecrets(c) == Required[h[c].input.provider]

CheckSecrets(c) ==
    /\ h[c].pc = "secrets"
    /\ Check(c, "secrets", "upsert",
             Unless(RequiredSecrets(c) \subseteq Active(h[c].tenant), "tenant_secrets"))
    /\ UNCHANGED <<profile, secret, deploy, requests>>

(* Mutant: route_key is not UNIQUE.                                        *)
ReferenceHolds(c) == h[c].input.template \notin Unknown

(* The constraints of tenant_profiles: route_key is UNIQUE and template_id *)
(* refers to a template.                                                   *)
ConstraintsHold(c) ==
    /\ h[c].input.template \notin Unknown
    /\ ~RouteKeyInUse(h[c].tenant, h[c].input.route)

(* UpsertTenantProfile stores input and validation in one statement.       *)
UpsertTenantProfile(c) ==
    /\ h[c].pc = "upsert"
    /\ ConstraintsHold(c)
    /\ profile' = [profile EXCEPT ![h[c].tenant] = [input |-> h[c].input, issues |-> h[c].issues,
                                                    direct |-> FALSE]]
    /\ Goto(c, "upsert", Idle)
    /\ UNCHANGED <<secret, deploy, requests>>

(* A constraint is violated (409, 404 or 500), or a statement fails.       *)
FailRequest(c) ==
    /\ h[c].pc # "idle"
    /\ Goto(c, h[c].pc, Idle)
    /\ UNCHANGED <<profile, secret, deploy, requests>>

(* tenant insert: the same table with the same constraints, but the row    *)
(* stays as valid as it was.                                               *)
InsertProfile(t, in) ==
    /\ Request
    /\ in.template \notin Unknown /\ ~RouteKeyInUse(t, in.route)
    /\ profile' = [profile EXCEPT ![t] =
                      [input |-> in, direct |-> TRUE,
                       issues |-> IF @.input = NoInput THEN {"unvalidated"} ELSE @.issues]]
    /\ UNCHANGED <<secret, h, deploy>>

-----------------------------------------------------------------------------
(* Secrets.                                                                *)

(* Mutant: making a revoked secret active again is a write of its own.     *)
SetTenantSecretTwice(t, s) ==
    LET writes == IF secret[t][s].version > 0 /\ ~secret[t][s].active THEN 2 ELSE 1 IN
    /\ secret[t][s].version < MaxVersions
    /\ secret' = [secret EXCEPT ![t][s] = [version |-> @.version + writes, active |-> TRUE]]
    /\ UNCHANGED <<profile, h, deploy, requests>>

(* The upsert makes a revoked secret active again.                         *)
SetTenantSecret(t, s) ==
    /\ secret[t][s].version < MaxVersions
    /\ secret' = [secret EXCEPT ![t][s] = [version |-> secret[t][s].version + 1, active |-> TRUE]]
    /\ UNCHANGED <<profile, h, deploy, requests>>

DeleteTenantSecret(t, s) ==
    /\ t \in Revocable
    /\ secret[t][s].active
    /\ secret' = [secret EXCEPT ![t][s] = [version |-> secret[t][s].version, active |-> FALSE]]
    /\ UNCHANGED <<profile, h, deploy, requests>>

-----------------------------------------------------------------------------
(* Deploys, one of a tenant at a time.                                     *)

(* handleLifecycleEnqueue: the profile is there and is_valid.              *)
AdmitDeploy(t) ==
    /\ Request
    /\ deploy[t].pc = "idle"
    /\ Valid(t)
    /\ deploy' = [deploy EXCEPT ![t] = [NoDeploy EXCEPT !.pc = "queued"]]
    /\ UNCHANGED <<profile, secret, h>>

(* Mutant: the worker does not look at is_valid again.                     *)
TakeAnyProfile(t) ==
    /\ deploy[t].pc = "queued"
    /\ deploy' = [deploy EXCEPT ![t] = [@ EXCEPT !.pc = "taken", !.input = profile[t].input,
                                                     !.direct = profile[t].direct]]
    /\ UNCHANGED <<profile, secret, h, requests>>

(* handleDeploy: GetTenantProfile, and is_valid once more.                 *)
TakeProfile(t) ==
    /\ deploy[t].pc = "queued"
    /\ Valid(t)
    /\ deploy' = [deploy EXCEPT ![t] = [@ EXCEPT !.pc = "taken", !.input = profile[t].input,
                                                     !.direct = profile[t].direct]]
    /\ UNCHANGED <<profile, secret, h, requests>>

(* ListActiveTenantSecretsValues, and the environment made of it.          *)
TakeSecrets(t) ==
    /\ deploy[t].pc = "taken"
    /\ deploy' = [deploy EXCEPT ![t] = [@ EXCEPT !.pc = "deployed", !.secrets = Active(t)]]
    /\ UNCHANGED <<profile, secret, h, requests>>

(* The deploy is over, or it failed: the next one may be asked for.        *)
EndDeploy(t) ==
    /\ deploy[t].pc # "idle"
    /\ deploy' = [deploy EXCEPT ![t] = NoDeploy]
    /\ UNCHANGED <<profile, secret, h, requests>>

-----------------------------------------------------------------------------
HandlerStep(c) ==
    \/ \E t \in Tenants, in \in Inputs : PutProfile(c, t, in)
    \/ \E t \in Tenants : ValidateProfile(c, t)
    \/ CheckTemplate(c) \/ CheckRoute(c) \/ CheckSecrets(c)
    \/ UpsertTenantProfile(c)
    \/ FailRequest(c)

DeployStep(t) == AdmitDeploy(t) \/ TakeProfile(t) \/ TakeSecrets(t) \/ EndDeploy(t)

Next ==
    \/ \E c \in Handlers : HandlerStep(c)
    \/ \E t \in Tenants, in \in Inputs : InsertProfile(t, in)
    \/ \E t \in Tenants, s \in Secrets : SetTenantSecret(t, s) \/ DeleteTenantSecret(t, s)
    \/ \E t \in Tenants : DeployStep(t)

Spec == Init /\ [][Next]_vars

-----------------------------------------------------------------------------
(* Properties.                                                             *)

(* Every variable has its type; a write of a secret is one new version.    *)
TypeOK ==
    /\ profile \in [Tenants -> [input : Inputs \cup {NoInput}, issues : SUBSET Issues,
                                direct : BOOLEAN]]
    /\ secret \in [Tenants -> [Secrets -> [version : 0 .. MaxVersions, active : BOOLEAN]]]
    /\ h \in [Handlers -> [pc : {"idle", "template", "route", "secrets", "upsert"},
                           tenant : Tenants \cup {NoInput}, input : Inputs \cup {NoInput},
                           issues : SUBSET Issues]]
    /\ deploy \in [Tenants -> [pc : {"idle", "queued", "taken", "deployed"},
                               input : Inputs \cup {NoInput}, secrets : SUBSET Secrets,
                               direct : BOOLEAN]]
    /\ requests \in 0 .. MaxRequests

(* No two tenants are routed under one route_key, though each was found    *)
(* free by a query of its own before both were written.                    *)
RouteKeysDistinct ==
    \A t, u \in Tenants :
        profile[t].input # NoInput /\ profile[u].input # NoInput
        /\ profile[t].input.route = profile[u].input.route => t = u

(* What the queries of Validate promise of an input of tenant t, however   *)
(* requests interleave: its template is enabled, and its secrets were set. *)
Validated(t, in) ==
    /\ in # NoInput /\ in.sound
    /\ in.template \in Enabled
    /\ \A s \in Required[in.provider] : secret[t][s].version > 0
    /\ t \notin Revocable => Required[in.provider] \subseteq Active(t)

(* A profile that is_valid was validated as it is stored, unless it was    *)
(* inserted directly since; the next request of the API puts that right.   *)
ValidIsValidated ==
    \A t \in Tenants : Valid(t) /\ ~profile[t].direct => Validated(t, profile[t].input)

(* What a worker deploys was validated, even when the profile was replaced *)
(* after the deploy was admitted; and the container gets the secrets it    *)
(* requires unless somebody deletes secrets of that tenant.  Nobody        *)
(* answers for a profile inserted directly.                                *)
DeploysValidated ==
    \A t \in Tenants : ~deploy[t].direct =>
        /\ deploy[t].pc \in {"taken", "deployed"} => Validated(t, deploy[t].input)
        /\ deploy[t].pc = "deployed" /\ t \notin Revocable =>
              Required[deploy[t].input.provider] \subseteq deploy[t].secrets

-----------------------------------------------------------------------------
(* The inductive invariant behind ValidIsValidated and DeploysValidated:   *)
(* what a request in progress has found out so far.                        *)
ChecksInv ==
    \A c \in Handlers : h[c].pc # "idle" =>
        /\ h[c].tenant \in Tenants /\ h[c].input \in Inputs
        /\ h[c].issues = {} =>
              /\ h[c].input.sound
              /\ h[c].pc # "template" => h[c].input.template \in Enabled
              /\ h[c].pc = "upsert" => Validated(h[c].tenant, h[c].input)

SecretsInv == \A t \in Tenants, s \in Secrets : secret[t][s].active => secret[t][s].version > 0

ProfileInv == TypeOK /\ SecretsInv /\ ChecksInv /\ RouteKeysDistinct /\ ValidIsValidated
                 /\ DeploysValidated

=============================================================================
