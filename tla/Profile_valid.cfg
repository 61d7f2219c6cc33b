SPECIFICATION Spec
CONSTANTS
    Tenants = {t1, t2}
    Handlers = {c1, c2}
    Enabled = {ok}
    Disabled = {off}
    Unknown = {none}
    Routes = {r1}
    Providers = {"openai", "other"}
    Secrets = {"OPENAI_API_KEY"}
    Required <- OneRequired
    NoInput = NoInput
    Revocable = {t2}
    MaxVersions = 2
    MaxRequests = 3
SYMMETRY Symmetry
CHECK_DEADLOCK FALSE
INVARIANTS
    TypeOK
    RouteKeysDistinct
    ValidIsValidated
    DeploysValidated
