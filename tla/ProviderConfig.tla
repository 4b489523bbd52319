--------------------------- MODULE ProviderConfig ---------------------------
(***************************************************************************)
(* The configuration of the providers: what the configuration manager      *)
(* keeps (active provider, keys, models) and what the provider registry    *)
(* and the providers keep of the same, how clients change them over the    *)
(* WebSocket and over HTTP, how the environment sets them when the daemon  *)
(* starts, and with which credential the runs then call a provider.        *)
(***************************************************************************)
EXTENDS CopilotAuth

CONSTANTS
  Providers,   \* the registry's providers
  DirectKeys,  \* keys that are no OAuth token
  Urls,        \* base URLs, which Ollama takes in the place of a key
  Models,      \* names of models; a default is another
  Envs,        \* environments: the keys by provider that the daemon may start with
  Handlers,    \* HTTP requests for a switch that may be under way at a time
  MaxChanges,  \* bound: changes of configuration in a behaviour, sign-ins included
  MaxRestarts  \* bound: restarts

ASSUME ConfigAssumption ==
  /\ "copilot" \in Providers
  /\ DirectKeys \cap (Accounts \cup Urls) = {} /\ Urls \cap Accounts = {}
  /\ None \notin DirectKeys \cup Urls \cup Models \cup Providers \cup Runs \cup Handlers
  /\ MaxChanges \in Nat /\ MaxRestarts \in Nat

Default == "default model"
Local == "ollama-local"
AllKeys == Accounts \cup DirectKeys \cup Urls \cup {None}

\* The keys a client or the environment may give to a provider.
KeysFor(p) ==
  CASE p = "copilot" -> Accounts \cup DirectKeys \cup {None}
    [] p = "ollama"  -> Urls \cup {None}
    [] OTHER         -> DirectKeys \cup {None}

ASSUME EnvAssumption ==
  /\ Local \notin Accounts
  /\ \A e \in Envs : e \in [Providers -> AllKeys] /\ \A p \in Providers : e[p] \in KeysFor(p)

VARIABLES
  active,      \* ConfigManager.activeProvider
  given,       \* ConfigManager.providers: the key and the model of each
  regActive,   \* Registry.active
  config,      \* the providers' config: the key and the model of each
  env,         \* the keys in the environment
  switching,   \* handler -> the provider it has yet to tell the registry
  alone,       \* history: handler -> no other switch came since its own began
  stream,      \* run -> where Copilot's Stream is, with the key it has read
  bearer,      \* the last request to a model carried: a key, an API token, an OAuth token
  changes, restarts,
  touched      \* history: providers that config.set has configured

configVars == <<active, given, regActive, config, env, touched>>
switchVars == <<switching, alone>>
useVars == <<stream, bearer>>
vars == <<authVars, configVars, switchVars, useVars, changes, restarts>>

Setting == [key: AllKeys \cup {Local}, model: Models \cup {None, Default}]
Idle == [pc |-> "idle", key |-> None]

TypeOK ==
  /\ AuthTypeOK
  /\ active \in Providers /\ regActive \in Providers
  /\ given \in [Providers -> Setting] /\ config \in [Providers -> Setting]
  /\ env \in [Providers -> AllKeys]
  /\ switching \in [Handlers -> Providers \cup {None}]
  /\ alone \in [Handlers -> BOOLEAN]
  /\ stream \in [Runs -> [pc: {"idle", "resolve", "wait"}, key: AllKeys]]
  /\ bearer \in {"none", "key", "api", "oauth"}
  /\ changes \in 0 .. MaxChanges /\ restarts \in 0 .. MaxRestarts
  /\ touched \subseteq Providers

-----------------------------------------------------------------------------
(***************************************************************************)
(* The providers' Configure and Configured.                                *)
(***************************************************************************)
WithDefault(m) == IF m = None THEN Default ELSE m

\* Claude, Gemini, OpenRouter and Azure, and Copilot but for its OAuth token.
Kept(k, m) == [key |-> k, model |-> WithDefault(m)]

\* Ollama needs no key: one that is a URL, or none, becomes a sentinel.
OllamaKept(k, m) ==
  [key |-> IF k \in Urls \cup {None} THEN Local ELSE k, model |-> WithDefault(m)]

Keeps(p, k, m) == IF p = "ollama" THEN OllamaKept(k, m) ELSE Kept(k, m)

\* Fault: any key is taken for a sign-in.
CopilotConfigureAnyKey(k) == SetOAuthToken(k)

\* Copilot takes a key that is an OAuth token for a sign-in.
CopilotConfigure(k) ==
  IF k \in Accounts THEN SetOAuthToken(k) ELSE UNCHANGED <<oauth, api>>

\* Registry.Configure.
Configure(p, k, m) ==
  /\ config' = [config EXCEPT ![p] = Keeps(p, k, m)]
  /\ IF p = "copilot" THEN CopilotConfigure(k) ELSE UNCHANGED <<oauth, api>>

Configured(p) ==
  CASE p = "copilot" -> config[p].key # None \/ IsAuthenticated
    [] p = "ollama"  -> TRUE
    [] OTHER         -> config[p].key # None

-----------------------------------------------------------------------------
(***************************************************************************)
(* The daemon's start.                                                     *)
(***************************************************************************)

\* What main configures: the keys of the environment, Ollama in any case.
FromEnv(e) ==
  [p \in Providers |->
    IF e[p] # None \/ p = "ollama" THEN Keeps(p, e[p], None)
    ELSE [key |-> None, model |-> Default]]
EnvToken(e) == IF e["copilot"] \in Accounts THEN e["copilot"] ELSE None

Init ==
  /\ env \in Envs
  /\ AuthInit(EnvToken(env))
  /\ active = "copilot" /\ regActive = "copilot"
  /\ given = [p \in Providers |-> [key |-> None, model |-> None]]
  /\ config = FromEnv(env)
  /\ switching = [h \in Handlers |-> None] /\ alone = [h \in Handlers |-> FALSE]
  /\ stream = [r \in Runs |-> Idle] /\ bearer = "none"
  /\ changes = 0 /\ restarts = 0 /\ touched = {}

\* The daemon dies at any step and starts again: of all that clients set, only
\* the token file is left.
Restart ==
  /\ restarts < MaxRestarts /\ restarts' = restarts + 1
  /\ AuthRestart(EnvToken(env))
  /\ active' = "copilot" /\ regActive' = "copilot"
  /\ given' = [p \in Providers |-> [key |-> None, model |-> None]]
  /\ config' = FromEnv(env)
  /\ switching' = [h \in Handlers |-> None] /\ alone' = [h \in Handlers |-> FALSE]
  /\ stream' = [r \in Runs |-> Idle] /\ bearer' = "none"
  /\ touched' = {}
  /\ UNCHANGED <<env, changes>>

-----------------------------------------------------------------------------
(***************************************************************************)
(* What clients change: config.set and provider.switch, over the WebSocket *)
(* or by POST to /api/config and /api/provider/switch.  SetConfig holds    *)
(* the manager's lock until the registry is configured.                    *)
(***************************************************************************)
Change == changes < MaxChanges /\ changes' = changes + 1

authRest == <<file, flow, poll, saving, exchange>>

SetKey(p, k) ==
  /\ Change
  /\ given' = [given EXCEPT ![p].key = k]
  /\ Configure(p, k, given[p].model)
  /\ touched' = touched \cup {p}
  /\ UNCHANGED <<authRest, active, regActive, env, switchVars, useVars, restarts>>

\* Fault: the key is left out where the model is set.
SetModelOnly(p, m) ==
  /\ Change
  /\ given' = [given EXCEPT ![p].model = m]
  /\ Configure(p, None, m)
  /\ touched' = touched \cup {p}
  /\ UNCHANGED <<authRest, active, regActive, env, switchVars, useVars, restarts>>

\* The key that goes with the model is the manager's, which has none when the
\* provider got its key from the environment.
SetModel(p, m) ==
  /\ Change
  /\ given' = [given EXCEPT ![p].model = m]
  /\ Configure(p, given[p].key, m)
  /\ touched' = touched \cup {p}
  /\ UNCHANGED <<authRest, active, regActive, env, switchVars, useVars, restarts>>

Disturb(h) == [g \in Handlers |-> IF g = h THEN \A x \in Handlers : switching[x] = None ELSE FALSE]

\* provider.switch over the WebSocket does not tell the registry.
WsSwitch(p) ==
  /\ Change
  /\ active' = p
  /\ alone' = Disturb(None)
  /\ UNCHANGED <<authVars, given, regActive, config, env, touched, switching, useVars, restarts>>

\* Over HTTP, the registry is told after the manager's lock is released.
HttpSwitch(h, p) ==
  /\ Change /\ switching[h] = None
  /\ active' = p
  /\ switching' = [switching EXCEPT ![h] = p]
  /\ alone' = Disturb(h)
  /\ UNCHANGED <<authVars, given, regActive, config, env, touched, useVars, restarts>>

\* Fault: the registry is told of the switch only where it has the provider
\* configured.
SetActiveIfConfigured(h) ==
  /\ switching[h] # None
  /\ regActive' = IF Configured(switching[h]) THEN switching[h] ELSE regActive
  /\ switching' = [switching EXCEPT ![h] = None] /\ alone' = [alone EXCEPT ![h] = FALSE]
  /\ UNCHANGED <<authVars, active, given, config, env, touched, useVars, changes, restarts>>

SetActive(h) ==
  /\ switching[h] # None
  /\ regActive' = switching[h]
  /\ switching' = [switching EXCEPT ![h] = None] /\ alone' = [alone EXCEPT ![h] = FALSE]
  /\ UNCHANGED <<authVars, active, given, config, env, touched, useVars, changes, restarts>>

SignIn(a) ==
  /\ Change
  /\ PollSuccess(a)
  /\ UNCHANGED <<configVars, switchVars, useVars, restarts>>

-----------------------------------------------------------------------------
(***************************************************************************)
(* Runs.  A task takes the manager's active provider, a subagent the       *)
(* registry's; one that is not configured is refused.                      *)
(***************************************************************************)
CarryKey(k) == bearer' = IF k \in Accounts THEN "oauth" ELSE "key"
CarryToken == bearer' = "api"

Start(r, sub) ==
  LET p == IF sub THEN regActive ELSE active IN
  /\ stream[r].pc = "idle"
  /\ Configured(p)
  /\ IF p = "copilot"
     THEN stream' = [stream EXCEPT ![r] = [pc |-> "resolve", key |-> config[p].key]] /\ UNCHANGED bearer
     ELSE CarryKey(config[p].key) /\ UNCHANGED stream
  /\ UNCHANGED <<authVars, configVars, switchVars, changes, restarts>>

Ends(r) == stream' = [stream EXCEPT ![r] = Idle]

\* resolveToken, where there is a sign-in or not.
ResolveKey(r) ==
  /\ stream[r].pc = "resolve" /\ ~IsAuthenticated
  /\ Ends(r)
  /\ IF stream[r].key # None THEN CarryKey(stream[r].key) ELSE UNCHANGED bearer
  /\ UNCHANGED <<authVars, configVars, switchVars, changes, restarts>>

ResolveCached(r) ==
  /\ stream[r].pc = "resolve" /\ IsAuthenticated /\ Usable(api)
  /\ Ends(r) /\ CarryToken
  /\ UNCHANGED <<authVars, configVars, switchVars, changes, restarts>>

ResolveRefresh(r) ==
  /\ stream[r].pc = "resolve"
  /\ GetValidToken(r)
  /\ stream' = [stream EXCEPT ![r].pc = "wait"]
  /\ UNCHANGED <<configVars, switchVars, bearer, changes, restarts>>

Refreshed(r) ==
  /\ ExchangeDone(r)
  /\ Ends(r) /\ CarryToken
  /\ UNCHANGED <<configVars, switchVars, changes, restarts>>

\* Fault: any key will do when the refresh has failed.
RefreshFailedAnyKey(r) ==
  /\ ExchangeError(r)
  /\ Ends(r)
  /\ IF stream[r].key # None THEN CarryKey(stream[r].key) ELSE UNCHANGED bearer
  /\ UNCHANGED <<configVars, switchVars, changes, restarts>>

\* The refresh has failed: a key that is no OAuth token is used instead.
RefreshFailed(r) ==
  /\ ExchangeError(r)
  /\ Ends(r)
  /\ IF stream[r].key \notin Accounts \cup {None}
     THEN CarryKey(stream[r].key) ELSE UNCHANGED bearer
  /\ UNCHANGED <<configVars, switchVars, changes, restarts>>

Auth == AuthStep /\ UNCHANGED <<configVars, switchVars, useVars, changes, restarts>>

Next ==
  \/ \E p \in Providers :
       \/ \E k \in KeysFor(p) : SetKey(p, k)
       \/ \E m \in Models : SetModel(p, m)
       \/ WsSwitch(p)
       \/ \E h \in Handlers : HttpSwitch(h, p)
  \/ \E h \in Handlers : SetActive(h)
  \/ \E a \in Accounts : SignIn(a)
  \/ \E r \in Runs :
       \/ \E sub \in BOOLEAN : Start(r, sub)
       \/ ResolveKey(r) \/ ResolveCached(r) \/ ResolveRefresh(r) \/ Refreshed(r) \/ RefreshFailed(r)
  \/ Auth
  \/ Restart

Spec == Init /\ [][Next]_vars

\* Time passes, and every exchange ends: the client of CopilotAuth has a
\* timeout.  Nothing says that users do anything.
FairSpec ==
  /\ Spec
  /\ WF_vars(Auth /\ Expire)
  /\ \A c \in Callers : WF_vars(Auth /\ ExchangeStart(c))
  /\ WF_vars(Auth /\ (ExchangeDone(Poller) \/ ExchangeError(Poller)))
  /\ \A r \in Runs : WF_vars(Refreshed(r) \/ RefreshFailed(r))

-----------------------------------------------------------------------------
(***************************************************************************)
(* Properties.                                                             *)
(***************************************************************************)

\* A provider that config.set has configured has what the manager has for it,
\* key and model, whatever came in which order, so that what config.current
\* says of it is so (SetConfig, Snapshot).  For a provider whose key is from
\* the environment this takes effect with the first config.set, which may
\* take the key away.
SettingsReachTheProvider ==
  \A p \in touched : /\ config[p] = Keeps(p, given[p].key, given[p].model)
                     /\ given[p].key # None => Configured(p)

\* A switch over HTTP that met no other leaves manager and registry with the
\* same active provider (HandleProviderSwitch tells them one after the other).
LoneSwitchAgrees ==
  [][\A h \in Handlers : (switching[h] # None /\ switching'[h] = None /\ alone[h])
                           => active' = regActive']_vars

\* The GitHub OAuth token is only ever sent to be exchanged: no request to a
\* model carries it, whatever fails or changes between the look at the
\* sign-in, the look at the API token, and the exchange (resolveToken).
NoOAuthTokenOnTheWire == bearer # "oauth"

\* A sign-in that is saved lasts: Copilot stays configured, whatever config.set
\* does to its key and whenever the daemon restarts (SaveToken, LoadToken).
SignInLasts == file \in Accounts => Configured("copilot")

\* When the account changes while an exchange is under way, or by the device
\* flow, an API token of the former account may be left; it is handed out
\* until it is about to expire, and no longer: in the end only the present
\* account's is (PollForToken, ExchangeToken, SetOAuthToken).
FormerAccountFades == <>[](oauth # None => Handout = oauth)
=============================================================================
