-------------------------------- MODULE Startup --------------------------------
(***************************************************************************)
(* How the process comes up. config.Load reads the file, puts in defaults, *)
(* lets the environment override it and validates the result; main refuses *)
(* developer mode where it has no business; NewClient gets a token and     *)
(* asks the backend for its health; New makes the server. Each of them may *)
(* end the process.                                                        *)
(***************************************************************************)
EXTENDS Integers

CONSTANTS
  Settings,          \* what file and environment may say, together
  NoConfig,          \* the configuration before it is loaded
  CertHours,         \* bound: CertHours[s]: hours the certificate may have left
  DefaultRate,       \* 100 requests a second in applyDefaults
  DefaultBurst,      \* 200
  DefaultAuthRate,   \* 10
  DefaultAuthBurst   \* 5

(* 0: not set. The file takes any number, validate does not look at them.  *)
LimitsType == [enabled : BOOLEAN, rate : Int, burst : Int, authRate : Int,
               authBurst : Int]

(* Sections of the file. sane: the settings that validate looks at one by  *)
(* one (retries, waits, log outputs, labels, sizes, algorithms) pass.      *)
FileType == [
  readable : BOOLEAN,                            \* it exists and is YAML
  sane : BOOLEAN,
  dev : BOOLEAN,                                 \* developer_mode
  tls : BOOLEAN,                                 \* cert_file and key_file
  clientCA : BOOLEAN,                            \* client_ca_file
  clientAuth : {"", "none", "request", "require"},
  internalAuth : {"unset", "on", "off"},         \* internal_endpoints_auth
  limits : LimitsType,                           \* rate_limit
  address : BOOLEAN,                             \* backend.address
  token : BOOLEAN,                               \* backend.token
  tokenFile : {"none", "unreadable", "blank", "filled"},
  clientCert : BOOLEAN,                          \* client_cert, client_key
  keygen : {"off", "plain", "encrypted"},        \* server_key_gen
  attrs : {"off", "none", "listed", "invalid"},  \* csr_attributes
  metrics : BOOLEAN]

(* BAO_ADDR, BAO_TOKEN; one of ENVIRONMENT, ENV, ... says "production";    *)
(* ALLOW_INSECURE_DEV_MODE holds the sentence it has to hold.              *)
EnvType == [address : BOOLEAN, token : BOOLEAN, production : BOOLEAN,
            confirmed : BOOLEAN]

(* Where a token comes from; "": there is none.                            *)
Tokens == {"", "env", "inline", "file", "login"}

ConfigType == [
  dev : BOOLEAN, tls : BOOLEAN, demand : {"none", "if given", "always"},
  internalAuth : BOOLEAN, limits : LimitsType, address : BOOLEAN,
  token : Tokens \ {"login"}, tokenFile : BOOLEAN, clientCert : BOOLEAN,
  keygen : {"off", "plain", "encrypted"},
  attrs : {"off", "none", "listed", "invalid"}, metrics : BOOLEAN]

ASSUME StartupAssumption ==
  /\ Settings \subseteq [file : FileType, env : EnvType]
  /\ NoConfig \notin ConfigType
  /\ CertHours \in [Settings -> SUBSET Int]
  /\ {DefaultRate, DefaultBurst, DefaultAuthRate, DefaultAuthBurst}
       \subseteq Nat \ {0}

VARIABLES
  setting,  \* file and environment (fixed)
  phase,    \* how far the process is
  cfg,      \* the configuration, once loaded
  held,     \* the token that the backend client holds
  left      \* hours until the server's certificate ends

startupVars == <<setting, phase, cfg, held, left>>

file == setting.file
env == setting.env

StartupTypeOK ==
  /\ setting \in Settings
  /\ phase \in {"load", "main", "connect", "health", "server", "running",
                "exit1"}
  /\ cfg \in ConfigType \cup {NoConfig}
  /\ held \in Tokens
  /\ left \in CertHours[setting]

StartupInit ==
  /\ setting \in Settings
  /\ phase = "load"
  /\ cfg = NoConfig
  /\ held = ""
  /\ left \in CertHours[setting]
-------------------------------------------------------------------------------
(* config.Load.                                                            *)
OrDefault(n, default) == IF n = 0 THEN default ELSE n

(* The limits of the auth endpoints get defaults only if limiting is on.   *)
Limits(l) ==
  [l EXCEPT !.rate = OrDefault(@, DefaultRate),
            !.burst = OrDefault(@, DefaultBurst),
            !.authRate = IF l.enabled THEN OrDefault(@, DefaultAuthRate) ELSE @,
            !.authBurst = IF l.enabled THEN OrDefault(@, DefaultAuthBurst) ELSE @]

(* Mutant of TokenSource: the token file comes first.                      *)
TokenSource_FileFirst ==
  CASE file.tokenFile = "filled" -> "file"
    [] file.tokenFile # "filled" /\ env.token -> "env"
    [] file.tokenFile # "filled" /\ ~env.token ->
         IF file.token THEN "inline" ELSE ""

(* The environment's token hides that of the file, which hides the token   *)
(* file. A token file with nothing but white space gives no token.         *)
TokenSource ==
  CASE env.token -> "env"
    [] ~env.token /\ file.token -> "inline"
    [] ~env.token /\ ~file.token ->
         IF file.tokenFile = "filled" THEN "file" ELSE ""

TokenFileRead == file.tokenFile # "none" /\ ~env.token /\ ~file.token

InternalAuth ==
  IF file.internalAuth = "unset" THEN ~file.dev ELSE file.internalAuth = "on"

(* What the TLS handshake asks of a client: setupTLS looks at              *)
(* client_auth_type only if there is a client_ca_file.                     *)
Demand ==
  CASE ~file.tls \/ ~file.clientCA -> "none"
    [] file.tls /\ file.clientCA /\ file.clientAuth = "require" -> "always"
    [] file.tls /\ file.clientCA /\ file.clientAuth # "require" -> "if given"

Effective ==
  [dev |-> file.dev, tls |-> file.tls, demand |-> Demand,
   internalAuth |-> InternalAuth, limits |-> Limits(file.limits),
   address |-> file.address \/ env.address, token |-> TokenSource,
   tokenFile |-> file.tokenFile # "none" /\ ~env.token,
   clientCert |-> file.clientCert, keygen |-> file.keygen,
   attrs |-> file.attrs, metrics |-> file.metrics]

Valid(c) ==
  /\ c.address
  /\ c.token # "" \/ c.tokenFile \/ c.clientCert
  /\ file.sane
  /\ c.dev \/ c.tls
  /\ c.keygen # "plain"

Loadable ==
  /\ file.readable
  /\ TokenFileRead => file.tokenFile # "unreadable"
  /\ Valid(Effective)

Load ==
  /\ phase = "load"
  /\ Loadable
  /\ phase' = "main"
  /\ cfg' = Effective
  /\ UNCHANGED <<setting, held, left>>

LoadFails ==
  /\ phase = "load"
  /\ ~Loadable
  /\ phase' = "exit1"
  /\ UNCHANGED <<setting, cfg, held, left>>
-------------------------------------------------------------------------------
(* main.                                                                   *)
DevModeAllowed == cfg.dev => ~env.production /\ env.confirmed

Check ==
  /\ phase = "main"
  /\ DevModeAllowed
  /\ phase' = "connect"
  /\ UNCHANGED <<setting, cfg, held, left>>

(* Developer mode is refused, or the log file cannot be opened.            *)
CheckFails ==
  /\ phase = "main"
  /\ phase' = "exit1"
  /\ UNCHANGED <<setting, cfg, held, left>>
-------------------------------------------------------------------------------
(* NewClient. A token needs no call; a client certificate is exchanged for *)
(* one, but only if there is none.                                         *)
TakeToken ==
  /\ phase = "connect"
  /\ cfg.token # ""
  /\ phase' = "health"
  /\ held' = cfg.token
  /\ UNCHANGED <<setting, cfg, left>>

LogIn ==
  /\ phase = "connect"
  /\ cfg.token = ""
  /\ cfg.clientCert
  /\ phase' = "health"
  /\ held' = "login"
  /\ UNCHANGED <<setting, cfg, left>>

(* There is neither, the login failed, or the TLS files are no good.       *)
ConnectFails ==
  /\ phase = "connect"
  /\ phase' = "exit1"
  /\ UNCHANGED <<setting, cfg, held, left>>

(* Any answer to the health call will do, that of a sealed backend too.    *)
Healthy ==
  /\ phase = "health"
  /\ phase' = "server"
  /\ UNCHANGED <<setting, cfg, held, left>>

HealthFails ==
  /\ phase = "health"
  /\ phase' = "exit1"
  /\ UNCHANGED <<setting, cfg, held, left>>
-------------------------------------------------------------------------------
(* New, which refuses a server certificate that has ended.                 *)
NewServer ==
  /\ phase = "server"
  /\ cfg.tls => left >= 0
  /\ phase' = "running"
  /\ UNCHANGED <<setting, cfg, held, left>>

(* Telemetry, the audit log, a proxy's network or a certificate file is no *)
(* good, or the certificate has ended.                                     *)
NewServerFails ==
  /\ phase = "server"
  /\ phase' = "exit1"
  /\ UNCHANGED <<setting, cfg, held, left>>

StartupNext ==
  \/ Load \/ LoadFails
  \/ Check \/ CheckFails
  \/ TakeToken \/ LogIn \/ ConnectFails
  \/ Healthy \/ HealthFails
  \/ NewServer \/ NewServerFails
-------------------------------------------------------------------------------
(* What an operator may count on once the service runs, from any file and  *)
(* environment: without developer mode, confirmed and outside production,  *)
(* there is TLS with a valid certificate and the internal endpoints ask    *)
(* who is there unless the file says they should not; a client certificate *)
(* is demanded if the file demands it and names a CA; private keys travel  *)
(* encrypted; and the backend knows the service by the token that comes    *)
(* first in the documented order (Load, main, NewClient and New together). *)
StartedAsConfigured ==
  phase = "running" =>
    LET Relaxed == file.dev /\ env.confirmed /\ ~env.production
    IN  /\ Relaxed \/ (file.tls /\ left >= -1)
        /\ cfg.internalAuth \/ file.internalAuth = "off"
             \/ (Relaxed /\ file.internalAuth = "unset")
        /\ file.tls /\ file.clientCA /\ file.clientAuth = "require"
             => cfg.demand = "always"
        /\ file.keygen \in {"off", "encrypted"}
        /\ held = "env" <=> env.token
        /\ held = "inline" <=> file.token /\ ~env.token
        /\ held = "file" => file.tokenFile = "filled"
        /\ held = "login" => file.clientCert /\ file.tokenFile \in {"none", "blank"}
        /\ held # ""
===============================================================================
