------------------------------- MODULE Deployment -------------------------------
(***************************************************************************)
(* How a server of the shop comes up: the environment its operator writes, *)
(* the settings module that reads it (settings/base, development,          *)
(* production), the payment checks that manage.py runs and the web server  *)
(* does not, and the restart that puts both in force.                      *)
(*                                                                         *)
(* Raw values are reduced to how the code tells them apart; variables that *)
(* are read alike and refused alike are one entry ("LIGDICASH_KEYS").      *)
(* Everything else of the settings is fixed.                               *)
(***************************************************************************)
EXTENDS Integers

VARIABLES
    server,   \* the settings of the running web server, or Down
    vetted    \* it was started after a check of the environment it read

deployVars == <<server, vetted>>

-------------------------------------------------------------------------------
(* Reading a variable *)

Text == {"unset", "blank", "good"}
Bool == {"unset", "malformed", "true", "false"}
Number == {"unset", "malformed", "low", "good"}
Url == {"unset", "blank", "http", "local", "wildcard", "good"}

env_required(raw) == raw \notin {"unset", "blank"}
env_optional(raw, default) == IF raw = "unset" THEN default ELSE raw
env_bool(raw, default) == IF raw = "unset" THEN default ELSE raw
IsBool(value) == value \in {"true", "false"}
\* minimum is below "good"; a value above it may be told apart too ("year").
env_int(raw, default) == IF raw = "unset" THEN default ELSE raw
IsInt(value) == value \notin {"missing", "malformed", "low"}
env_list_required(raw) == env_required(raw)
env_https_url(raw) == env_required(raw) /\ raw \notin {"http", "local", "wildcard"}
\* Unlike env_https_url it does not look for a local host.
env_https_url_list(raw) == env_list_required(raw) /\ raw \notin {"http", "wildcard", "path"}

-------------------------------------------------------------------------------
(* The environment *)

Raw == [DJANGO_SETTINGS_MODULE |-> {"unset", "development", "production"},
        DJANGO_SECRET_KEY |-> Text \cup {"short", "placeholder"},
        DJANGO_ALLOWED_HOSTS |-> Text \cup {"any", "local"},
        DATABASE |-> Text, DATABASE_PORT |-> Number,
        DATABASE_SSLMODE |-> {"unset", "disable", "require"},
        ORIGINS |-> Url \cup {"path"},
        HSTS_SECONDS |-> Number \cup {"year"}, HSTS_SUBDOMAINS |-> Bool, HSTS_PRELOAD |-> Bool,
        EMAIL |-> Text, EMAIL_USE_TLS |-> Bool, EMAIL_USE_SSL |-> Bool,
        FRONTEND_URLS |-> Url,
        PAYMENT_PROVIDER |-> {"unset", "blank", "mock", "ligdicash", "other"},
        LIGDICASH_KEYS |-> Text, LIGDICASH_BASE_URL |-> Url \cup {"elsewhere"},
        LIGDICASH_URLS |-> Url, LIGDICASH_ENVIRONMENT |-> Text \cup {"integration"},
        LIGDICASH_HTTP_TIMEOUT |-> Number, LIGDICASH_VERIFY_TLS |-> Bool,
        CHECKOUT_HOSTS |-> Text \cup {"elsewhere"},
        SIGNATURE_REQUIRED |-> Bool, MAX_AGE |-> Number,
        ALLOWED_IPS |-> {"unset", "malformed", "caller", "elsewhere"},
        MEDIA_STORAGE |-> Text \cup {"s3"}, MEDIA_PERSISTENT |-> Bool,
        ADMIN_PATH |-> Text \cup {"nested"}, LOG_LEVEL |-> Text \cup {"DEBUG"},
        API_LIMITS |-> Number, MEDIA_LIMITS |-> Number]
Names == DOMAIN Raw

\* A production environment as the tests and PHASE10 write it.
Example ==
    [n \in Names |->
        CASE n = "DJANGO_SETTINGS_MODULE" -> "production"
          [] n \in {"SIGNATURE_REQUIRED", "ALLOWED_IPS", "MAX_AGE",
                    "ADMIN_PATH", "API_LIMITS", "MEDIA_LIMITS"} -> "unset"
          [] n = "DATABASE_SSLMODE" -> "require"
          [] n = "HSTS_SECONDS" -> "year"
          [] n = "PAYMENT_PROVIDER" -> "ligdicash"
          [] n \in {"HSTS_SUBDOMAINS", "EMAIL_USE_TLS", "LIGDICASH_VERIFY_TLS",
                    "MEDIA_PERSISTENT"} -> "true"
          [] n \in {"HSTS_PRELOAD", "EMAIL_USE_SSL"} -> "false"
          [] OTHER -> "good"]

-------------------------------------------------------------------------------
(* The settings modules: what makes them refuse to load *)

\* base: page sizes and token lifetimes, then the order's delay and what may be
\* uploaded, are positive.
ApiLimitsLoad(e) == IsInt(env_int(e.API_LIMITS, "good"))
MediaLimitsLoad(e) == IsInt(env_int(e.MEDIA_LIMITS, "good"))
BaseLoads(e) == ApiLimitsLoad(e) /\ MediaLimitsLoad(e)

SecretsLoad(e) ==
    /\ env_required(e.DJANGO_SECRET_KEY)
    /\ e.DJANGO_SECRET_KEY \notin {"short", "placeholder"}
    /\ env_list_required(e.DJANGO_ALLOWED_HOSTS)
    /\ e.DJANGO_ALLOWED_HOSTS \notin {"any", "local"}
DatabaseLoads(e) ==
    /\ env_required(e.DATABASE) /\ IsInt(env_int(e.DATABASE_PORT, "missing"))
    /\ env_optional(e.DATABASE_SSLMODE, "require") = "require"
HttpsLoads(e) ==
    LET subdomains == env_bool(e.HSTS_SUBDOMAINS, "false")
        preload == env_bool(e.HSTS_PRELOAD, "false")
        seconds == env_int(e.HSTS_SECONDS, "missing")
    IN  /\ env_https_url_list(e.ORIGINS)
        /\ IsInt(seconds) /\ IsBool(subdomains) /\ IsBool(preload)
        /\ preload = "true" => seconds = "year" /\ subdomains = "true"
MailLoads(e) ==
    LET tls == env_bool(e.EMAIL_USE_TLS, "true")
        ssl == env_bool(e.EMAIL_USE_SSL, "false")
    IN  env_required(e.EMAIL) /\ IsBool(tls) /\ IsBool(ssl) /\ ~(tls = "true" /\ ssl = "true")
FrontendLoads(e) == env_https_url(e.FRONTEND_URLS)
PaymentLoads(e) ==
    /\ env_required(e.PAYMENT_PROVIDER) /\ e.PAYMENT_PROVIDER = "ligdicash"
    /\ env_required(e.LIGDICASH_KEYS)
    /\ env_https_url(e.LIGDICASH_BASE_URL) /\ e.LIGDICASH_BASE_URL # "elsewhere"
    /\ env_https_url(e.LIGDICASH_URLS)
    /\ env_required(e.LIGDICASH_ENVIRONMENT) /\ e.LIGDICASH_ENVIRONMENT # "integration"
    /\ IsInt(env_int(e.LIGDICASH_HTTP_TIMEOUT, "missing"))
    /\ env_bool(e.LIGDICASH_VERIFY_TLS, "missing") = "true"
    /\ env_list_required(e.CHECKOUT_HOSTS) /\ e.CHECKOUT_HOSTS # "elsewhere"
\* The addresses are not parsed here, nor is a signature that no adapter checks refused.
WebhookLoads(e) ==
    /\ IsBool(env_bool(e.SIGNATURE_REQUIRED, "false"))
    /\ IsInt(env_int(e.MAX_AGE, "good"))
StorageLoads(e) ==
    /\ env_required(e.MEDIA_STORAGE) /\ e.MEDIA_STORAGE # "s3"
    /\ env_bool(e.MEDIA_PERSISTENT, "missing") = "true"
    /\ env_optional(e.ADMIN_PATH, "good") \notin {"blank", "nested"}
    /\ env_required(e.LOG_LEVEL) /\ e.LOG_LEVEL # "DEBUG"

ProductionLoads(e) ==
    /\ SecretsLoad(e) /\ DatabaseLoads(e) /\ HttpsLoads(e) /\ MailLoads(e)
    /\ FrontendLoads(e) /\ PaymentLoads(e) /\ WebhookLoads(e) /\ StorageLoads(e)

\* development reads integers without a minimum and refuses only what it cannot parse;
\* its Booleans (environ's env.bool) are never refused: any other text is False.
DevelopmentLoads(e) ==
    "malformed" \notin {e.DATABASE_PORT, e.LIGDICASH_HTTP_TIMEOUT, e.MAX_AGE}

Loads(module, e) ==
    /\ BaseLoads(e)
    /\ IF module = "production" THEN ProductionLoads(e) ELSE DevelopmentLoads(e)

\* What the payments code reads of the settings that loaded.  development has no
\* LigdiCash keys and addresses but those of base, which are empty.
Settings(module, e) ==
    [debug |-> module = "development",
     provider |-> IF module = "development" /\ e.PAYMENT_PROVIDER = "unset"
                  THEN "mock" ELSE e.PAYMENT_PROVIDER,
     keys |-> module = "production",
     timeout |-> env_int(e.LIGDICASH_HTTP_TIMEOUT, "good") # "low",
     verify_tls |-> env_bool(e.LIGDICASH_VERIFY_TLS, "true") = "true",
     signature |-> env_bool(e.SIGNATURE_REQUIRED, "false") = "true",
     max_age |-> env_int(e.MAX_AGE, "good") # "low",
     allowed |-> env_optional(e.ALLOWED_IPS, "everyone")]

Down == [debug |-> FALSE, provider |-> "none", keys |-> FALSE, timeout |-> FALSE,
         verify_tls |-> FALSE, signature |-> FALSE, max_age |-> FALSE, allowed |-> "none"]
Running(s) == s # Down

-------------------------------------------------------------------------------
(* The checks and the processes *)

mock_provider_is_allowed(s) == s.debug

\* The adapter a request is served with; none is a PaymentConfigurationError.
get_payment_provider(s) ==
    IF s.provider = "ligdicash" \/ (s.provider = "mock" /\ mock_provider_is_allowed(s))
    THEN s.provider ELSE "none"

\* The adapter LigdiCash has verifies no signature.
webhook_signature_supported == FALSE

\* Defect: a signature may be required of a provider whose adapter has none.
ChecksWithoutE008(s) ==
    /\ s.provider \in {"mock", "ligdicash"}
    /\ s.provider = "mock" => mock_provider_is_allowed(s)
    /\ s.provider = "ligdicash" => s.keys /\ s.timeout /\ s.verify_tls
    /\ s.allowed # "malformed" /\ s.max_age
\* payment_configuration_check: no error E001 .. E010.
payment_configuration_check(s) ==
    /\ s.provider \in {"mock", "ligdicash"}
    /\ s.provider = "mock" => mock_provider_is_allowed(s)
    /\ s.provider = "ligdicash" =>
        /\ s.keys /\ s.timeout /\ s.verify_tls
        /\ s.signature => webhook_signature_supported
    /\ s.allowed # "malformed" /\ s.max_age

\* production_configuration_check (check --deploy): the rules that are not settled
\* by production's constants.
production_configuration_check(module, e) ==
    module = "production" =>
        /\ env_required(e.DJANGO_SECRET_KEY)
        /\ env_list_required(e.DJANGO_ALLOWED_HOSTS) /\ e.DJANGO_ALLOWED_HOSTS # "any"
        /\ env_list_required(e.ORIGINS)
        /\ e.MEDIA_PERSISTENT = "true" /\ IsInt(e.HSTS_SECONDS)

\* _validate_configuration, before every call of the provider.
Configured(s) == s.provider = "ligdicash" /\ s.keys /\ s.timeout /\ s.verify_tls

\* manage.py works with development settings where nobody says otherwise, the
\* web server with production's.
ManageModule(e) == env_optional(e.DJANGO_SETTINGS_MODULE, "development")
WebModule(e) == env_optional(e.DJANGO_SETTINGS_MODULE, "production")

\* A developer's own.
Developer == [Example EXCEPT !.DJANGO_SETTINGS_MODULE = "development",
                             !.PAYMENT_PROVIDER = "unset"]

\* The environments an operator may end with: one entry differs from the example.
Environments ==
    {Developer} \cup
    UNION {{[Example EXCEPT ![name] = raw] : raw \in Raw[name]} : name \in Names}

\* gunicorn: the settings are loaded, the checks are not run.
Boot(e) == IF Loads(WebModule(e), e) THEN Settings(WebModule(e), e) ELSE Down
\* manage.py check --deploy, in the operator's shell.
Check(e) ==
    LET module == ManageModule(e)
    IN  /\ Loads(module, e)
        /\ payment_configuration_check(Settings(module, e))
        /\ production_configuration_check(module, e)
Deployments ==
    {[server |-> Boot(e), vetted |-> FALSE] : e \in Environments}
        \cup {[server |-> Boot(e), vetted |-> TRUE] : e \in {x \in Environments : Check(x)}}

DeployInit == server = Down /\ vetted = FALSE

\* The environment is edited, perhaps checked, and read by the server that starts.
Deploy ==
    \E d \in Deployments :
        /\ server' = d.server /\ vetted' = (d.vetted /\ Running(d.server))
===============================================================================
