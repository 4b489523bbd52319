----------------------- MODULE ProviderConfig_proofs -----------------------
(***************************************************************************)
(* Proofs about the configuration of the providers, for any providers,     *)
(* accounts, keys and runs, and any number of changes and restarts.        *)
(***************************************************************************)
EXTENDS ProviderConfig, TLAPS

(***************************************************************************)
(* Keys.                                                                   *)
(***************************************************************************)

\* The keys a provider may keep.
HeldKeys(p) == IF p = "ollama" THEN {Local} ELSE KeysFor(p)

LEMMA KeyKinds ==
  /\ \A p : KeysFor(p) \subseteq AllKeys /\ None \in KeysFor(p)
  /\ \A p : p # "copilot" => KeysFor(p) \cap Accounts = {} /\ HeldKeys(p) \cap Accounts = {}
  /\ HeldKeys("copilot") \subseteq AllKeys
  /\ None \notin Accounts /\ Accounts \subseteq AllKeys
  BY ConfigAssumption, EnvAssumption, CallersAssumption
  DEF ConfigAssumption, EnvAssumption, CallersAssumption, KeysFor, HeldKeys, AllKeys

LEMMA KeepsHeld ==
  ASSUME NEW p \in Providers, NEW k \in KeysFor(p), NEW m \in Models \cup {None, Default}
  PROVE  /\ Keeps(p, k, m) \in Setting /\ Keeps(p, k, m).key \in HeldKeys(p)
         /\ p # "ollama" => Keeps(p, k, m).key = k
<1>1. WithDefault(m) \in Models \cup {None, Default}
  BY DEF WithDefault
<1>2. CASE p = "ollama"
  <2>1. k \in Urls \cup {None}
    BY <1>2 DEF KeysFor
  <2>2. Keeps(p, k, m) = [key |-> Local, model |-> WithDefault(m)]
    BY <1>2, <2>1 DEF Keeps, OllamaKept
  <2>3. QED BY <1>1, <1>2, <2>2 DEF Setting, HeldKeys
<1>3. CASE p # "ollama"
  <2>1. Keeps(p, k, m) = [key |-> k, model |-> WithDefault(m)]
    BY <1>3 DEF Keeps, Kept
  <2>2. QED BY <1>1, <1>3, <2>1, KeyKinds DEF Setting, HeldKeys
<1>4. QED BY <1>2, <1>3

(***************************************************************************)
(* Type correctness.  What is kept for a provider is a key that it may be  *)
(* given: of the providers, Copilot alone keeps an OAuth token.            *)
(***************************************************************************)
Keyed ==
  \A p \in Providers : given[p].key \in KeysFor(p) /\ config[p].key \in HeldKeys(p)

RestType ==
  /\ active \in Providers /\ regActive \in Providers
  /\ env \in Envs
  /\ env \in [Providers -> AllKeys]
  /\ switching \in [Handlers -> Providers \cup {None}]
  /\ alone \in [Handlers -> BOOLEAN]
  /\ changes \in 0 .. MaxChanges /\ restarts \in 0 .. MaxRestarts

RunType ==
  /\ stream \in [Runs -> [pc: {"idle", "resolve", "wait"}, key: AllKeys]]
  /\ bearer \in {"none", "key", "api", "oauth"}

GivenType ==
  /\ given \in [Providers -> Setting] /\ config \in [Providers -> Setting]
  /\ touched \subseteq Providers
  /\ Keyed

TypeInv == AuthTypeOK /\ RestType /\ RunType /\ GivenType

LEMMA TypeInvOK == TypeInv => TypeOK
  BY DEF TypeInv, RestType, RunType, GivenType, TypeOK

\* What the daemon configures when it starts.
LEMMA StartType ==
  ASSUME NEW e \in Envs
  PROVE  /\ FromEnv(e) \in [Providers -> Setting]
         /\ \A p \in Providers : FromEnv(e)[p].key \in HeldKeys(p)
         /\ EnvToken(e) \in Accounts \cup {None}
         /\ FromEnv(e)["copilot"].key \in Accounts => EnvToken(e) = FromEnv(e)["copilot"].key
<1>1. "copilot" \in Providers /\ \A p \in Providers : e[p] \in KeysFor(p)
  BY ConfigAssumption, EnvAssumption DEF ConfigAssumption, EnvAssumption
<1>2. ASSUME NEW p \in Providers
      PROVE  /\ FromEnv(e)[p] \in Setting /\ FromEnv(e)[p].key \in HeldKeys(p)
             /\ p # "ollama" => FromEnv(e)[p].key = e[p]
  <2>1. CASE e[p] # None \/ p = "ollama"
    <3>1. FromEnv(e)[p] = Keeps(p, e[p], None)
      BY <2>1 DEF FromEnv
    <3>2. QED BY <1>1, <3>1, KeepsHeld DEF HeldKeys
  <2>2. CASE e[p] = None /\ p # "ollama"
    <3>1. FromEnv(e)[p] = [key |-> None, model |-> Default]
      BY <2>2 DEF FromEnv
    <3>2. QED BY <2>2, <3>1, KeyKinds DEF Setting, HeldKeys, AllKeys
  <2>3. QED BY <2>1, <2>2
<1>3. FromEnv(e) = [p \in Providers |-> FromEnv(e)[p]]
  BY DEF FromEnv
<1> DEFINE f == FromEnv(e)
<1> HIDE DEF f
<1>4. f \in [Providers -> Setting] /\ \A p \in Providers : f[p].key \in HeldKeys(p)
  BY <1>2, <1>3 DEF f
<1>5. f["copilot"].key = e["copilot"]
  BY <1>1, <1>2 DEF f
<1>6. QED BY <1>4, <1>5 DEF EnvToken, f

LEMMA NothingGiven ==
  ASSUME given = [p \in Providers |-> [key |-> None, model |-> None]]
  PROVE  given \in [Providers -> Setting] /\ \A p \in Providers : given[p].key \in KeysFor(p)
  BY KeyKinds DEF Setting, AllKeys

LEMMA InitType == Init => TypeInv
<1> SUFFICES ASSUME Init PROVE TypeInv
  OBVIOUS
<1>1. env \in Envs /\ "copilot" \in Providers
  BY ConfigAssumption DEF Init, ConfigAssumption
<1>2. AuthTypeOK
  BY <1>1, StartType DEF Init, AuthInit, AuthTypeOK
<1>3. RestType
  BY <1>1, ConfigAssumption, EnvAssumption DEF Init, RestType, ConfigAssumption, EnvAssumption
<1>4. RunType
  BY KeyKinds DEF Init, RunType, Idle, AllKeys
<1>5. GivenType
  BY <1>1, StartType, NothingGiven DEF Init, GivenType, Keyed
<1>6. QED BY <1>2, <1>3, <1>4, <1>5 DEF TypeInv

\* A client sets a key or a model.
Sets(p, k) ==
  /\ k \in KeysFor(p)
  /\ \E m \in Models \cup {None, Default} :
       /\ Configure(p, k, m)
       /\ given' = [given EXCEPT ![p] = [key |-> k, model |-> m]]
  /\ touched' = touched \cup {p}
  /\ UNCHANGED <<authRest, active, regActive, env, switchVars, useVars, restarts>>
  /\ changes' \in 0 .. MaxChanges

LEMMA SetsKey ==
  ASSUME TypeInv, NEW p \in Providers, NEW k \in KeysFor(p), SetKey(p, k)
  PROVE  Sets(p, k)
<1>1. given[p] \in Setting
  BY DEF TypeInv, GivenType
<1>2. given' = [given EXCEPT ![p] = [key |-> k, model |-> given[p].model]]
  <2>1. [given[p] EXCEPT !.key = k] = [key |-> k, model |-> given[p].model]
    BY <1>1 DEF Setting
  <2>2. given' = [given EXCEPT ![p] = [given[p] EXCEPT !.key = k]]
    BY DEF SetKey
  <2>3. QED BY <2>1, <2>2
<1>3. given[p].model \in Models \cup {None, Default}
  BY <1>1 DEF Setting
<1>4. changes' \in 0 .. MaxChanges
  BY ConfigAssumption DEF SetKey, Change, TypeInv, RestType, ConfigAssumption
<1>5. QED BY <1>2, <1>3, <1>4 DEF SetKey, Sets

LEMMA SetsModel ==
  ASSUME TypeInv, NEW p \in Providers, NEW m \in Models, SetModel(p, m)
  PROVE  Sets(p, given[p].key)
<1>1. given[p] \in Setting /\ given[p].key \in KeysFor(p)
  BY DEF TypeInv, GivenType, Keyed
<1>2. given' = [given EXCEPT ![p] = [key |-> given[p].key, model |-> m]]
  <2>1. [given[p] EXCEPT !.model = m] = [key |-> given[p].key, model |-> m]
    BY <1>1 DEF Setting
  <2>2. given' = [given EXCEPT ![p] = [given[p] EXCEPT !.model = m]]
    BY DEF SetModel
  <2>3. QED BY <2>1, <2>2
<1>3. changes' \in 0 .. MaxChanges
  BY ConfigAssumption DEF SetModel, Change, TypeInv, RestType, ConfigAssumption
<1>4. QED BY <1>1, <1>2, <1>3 DEF SetModel, Sets

LEMMA SetsType ==
  ASSUME TypeInv, NEW p \in Providers, NEW k, Sets(p, k)
  PROVE  TypeInv'
<1>1. PICK m \in Models \cup {None, Default} :
        /\ Configure(p, k, m)
        /\ given' = [given EXCEPT ![p] = [key |-> k, model |-> m]]
  BY DEF Sets
<1>2. k \in KeysFor(p) /\ k \in AllKeys
  BY KeyKinds DEF Sets
<1>3. [key |-> k, model |-> m] \in Setting
  BY <1>2 DEF Setting
<1>4. Keeps(p, k, m) \in Setting /\ Keeps(p, k, m).key \in HeldKeys(p)
  BY <1>2, KeepsHeld
<1>5. config' = [config EXCEPT ![p] = Keeps(p, k, m)]
  BY <1>1 DEF Configure
<1>6. GivenType'
  <2>1. given' \in [Providers -> Setting] /\ config' \in [Providers -> Setting]
    BY <1>1, <1>3, <1>4, <1>5 DEF TypeInv, GivenType
  <2>2. ASSUME NEW q \in Providers PROVE given'[q].key \in KeysFor(q) /\ config'[q].key \in HeldKeys(q)
    <3>1. CASE q = p
      BY <1>1, <1>2, <1>4, <1>5, <3>1 DEF TypeInv, GivenType
    <3>2. CASE q # p
      BY <1>1, <1>5, <3>2 DEF TypeInv, GivenType, Keyed
    <3>3. QED BY <3>1, <3>2
  <2>3. QED BY <2>1, <2>2 DEF Sets, TypeInv, GivenType, Keyed
<1>7. oauth' \in Accounts \cup {None} /\ api' \in ApiToken \cup {None}
  BY <1>1 DEF Configure, CopilotConfigure, SetOAuthToken, TypeInv, AuthTypeOK
<1>8. AuthTypeOK'
  BY <1>7 DEF Sets, authRest, TypeInv, AuthTypeOK
<1>9. RestType' /\ RunType'
  BY DEF Sets, TypeInv, RestType, RunType, switchVars, useVars
<1>10. QED BY <1>6, <1>8, <1>9 DEF TypeInv

\* The steps of CopilotAuth.
LEMMA AuthType ==
  ASSUME AuthTypeOK,
         \/ AuthStep \/ \E a \in Accounts : PollSuccess(a)
         \/ \E c \in Callers : GetValidToken(c) \/ ExchangeDone(c) \/ ExchangeError(c)
  PROVE  AuthTypeOK'
<1>0. Poller \in Callers
  BY DEF Callers
<1> USE DEF AuthTypeOK
<1>1. CASE StartDeviceFlow \/ PollFailed \/ SaveRead
  BY <1>1 DEF StartDeviceFlow, PollFailed, SaveRead
<1>2. CASE SaveOpen
  BY <1>0, <1>2 DEF SaveOpen
<1>3. CASE SaveWrite
  BY <1>0, <1>3 DEF SaveWrite
<1>4. CASE Expire
  <2>1. api \in ApiToken
    BY <1>4 DEF Expire
  <2>2. [api EXCEPT !.fresh = FALSE] \in ApiToken
    BY <2>1 DEF ApiToken
  <2>3. QED BY <1>4, <2>2 DEF Expire
<1>5. ASSUME NEW c \in Callers, ExchangeStart(c) PROVE AuthTypeOK'
  BY <1>5 DEF ExchangeStart
<1>6. ASSUME NEW a \in Accounts, PollSuccess(a) PROVE AuthTypeOK'
  BY <1>6 DEF PollSuccess
<1>7. ASSUME NEW c \in Callers, GetValidToken(c) PROVE AuthTypeOK'
  BY <1>7 DEF GetValidToken
<1>8. ASSUME NEW c \in Callers, ExchangeDone(c) PROVE AuthTypeOK'
  <2>1. [acct |-> exchange[c], fresh |-> TRUE] \in ApiToken
    BY <1>8 DEF ExchangeDone, ApiToken
  <2>2. poll' \in {"idle", "read", "open", "write", "exchange"}
    BY <1>8 DEF ExchangeDone, Leave
  <2>3. exchange' \in [Callers -> {"idle", "start"} \cup Accounts]
    BY <1>8 DEF ExchangeDone
  <2>4. QED BY <1>8, <2>1, <2>2, <2>3 DEF ExchangeDone
<1>9. ASSUME NEW c \in Callers, ExchangeError(c) PROVE AuthTypeOK'
  BY <1>9 DEF ExchangeError, Leave
<1>10. QED
  BY <1>0, <1>1, <1>2, <1>3, <1>4, <1>5, <1>6, <1>7, <1>8, <1>9 DEF AuthStep

LEMMA SwitchType ==
  ASSUME TypeInv,
         \/ \E p \in Providers : WsSwitch(p) \/ \E h \in Handlers : HttpSwitch(h, p)
         \/ \E h \in Handlers : SetActive(h)
  PROVE  TypeInv'
<1>1. \A h : Disturb(h) \in [Handlers -> BOOLEAN]
  <2>1. ASSUME NEW h, NEW g \in Handlers
        PROVE  (IF g = h THEN \A x \in Handlers : switching[x] = None ELSE FALSE) \in BOOLEAN
    OBVIOUS
  <2>2. QED BY <2>1 DEF Disturb
<1>2. Change => changes' \in 0 .. MaxChanges
  BY ConfigAssumption DEF Change, TypeInv, RestType, ConfigAssumption
<1>3. RestType'
  <2>1. CASE \E p \in Providers : WsSwitch(p)
    BY <1>1, <1>2, <2>1 DEF WsSwitch, TypeInv, RestType
  <2>2. ASSUME NEW p \in Providers, NEW h \in Handlers, HttpSwitch(h, p) PROVE RestType'
    BY <1>1, <1>2, <2>2 DEF HttpSwitch, TypeInv, RestType
  <2>3. ASSUME NEW h \in Handlers, SetActive(h) PROVE RestType'
    <3>1. switching[h] \in Providers
      BY <2>3 DEF SetActive, TypeInv, RestType
    <3>2. QED BY <2>3, <3>1 DEF SetActive, TypeInv, RestType
  <2>4. QED BY <2>1, <2>2, <2>3
<1>4. UNCHANGED <<authVars, given, config, touched, useVars>>
  BY DEF WsSwitch, HttpSwitch, SetActive
<1>5. QED
  BY <1>3, <1>4 DEF TypeInv, AuthTypeOK, RunType, GivenType, Keyed, authVars, useVars

LEMMA RunsType ==
  ASSUME TypeInv, NEW r \in Runs,
         \/ \E sub \in BOOLEAN : Start(r, sub)
         \/ ResolveKey(r) \/ ResolveCached(r) \/ ResolveRefresh(r) \/ Refreshed(r) \/ RefreshFailed(r)
  PROVE  TypeInv'
<1>1. r \in Callers
  BY DEF Callers
<1>2. AuthTypeOK'
  <2>1. CASE UNCHANGED authVars
    BY <2>1 DEF authVars, TypeInv, AuthTypeOK
  <2>2. CASE ResolveRefresh(r) \/ Refreshed(r) \/ RefreshFailed(r)
    BY <1>1, <2>2, AuthType DEF ResolveRefresh, Refreshed, RefreshFailed, TypeInv
  <2>3. QED BY <2>1, <2>2 DEF Start, ResolveKey, ResolveCached
<1>3. RunType'
  <2> USE DEF RunType
  <2>1. ASSUME NEW sub \in BOOLEAN, Start(r, sub) PROVE RunType'
    <3>1. config["copilot"].key \in AllKeys
      BY KeyKinds, ConfigAssumption DEF ConfigAssumption, TypeInv, GivenType, Keyed
    <3>2. QED BY <2>1, <3>1 DEF Start, CarryKey, TypeInv
  <2>2. Ends(r) => stream' \in [Runs -> [pc: {"idle", "resolve", "wait"}, key: AllKeys]]
    BY KeyKinds DEF Ends, Idle, TypeInv, AllKeys
  <2>3. CASE ResolveKey(r) \/ ResolveCached(r) \/ Refreshed(r) \/ RefreshFailed(r)
    BY <2>2, <2>3 DEF ResolveKey, ResolveCached, Refreshed, RefreshFailed, CarryKey, CarryToken, TypeInv
  <2>4. CASE ResolveRefresh(r)
    BY <2>4 DEF ResolveRefresh, TypeInv
  <2>5. QED BY <2>1, <2>3, <2>4
<1>4. UNCHANGED <<configVars, switchVars, changes, restarts>>
  BY DEF Start, ResolveKey, ResolveCached, ResolveRefresh, Refreshed, RefreshFailed
<1>5. QED
  BY <1>2, <1>3, <1>4 DEF TypeInv, RestType, GivenType, Keyed, configVars, switchVars

LEMMA RestartType == ASSUME TypeInv, Restart PROVE TypeInv'
<1>1. env \in Envs /\ "copilot" \in Providers /\ env' = env
  BY ConfigAssumption DEF TypeInv, RestType, Restart, ConfigAssumption
<1>2. AuthTypeOK'
  BY <1>1, StartType DEF Restart, AuthRestart, LoadToken, TypeInv, AuthTypeOK
<1>3. RestType'
  BY <1>1, ConfigAssumption DEF Restart, TypeInv, RestType, ConfigAssumption
<1>4. RunType'
  BY KeyKinds DEF Restart, RunType, Idle, AllKeys
<1>5. GivenType'
  <2>1. given' \in [Providers -> Setting] /\ \A p \in Providers : given'[p].key \in KeysFor(p)
    BY KeyKinds DEF Restart, Setting, AllKeys
  <2>2. QED BY <1>1, <2>1, StartType DEF Restart, GivenType, Keyed
<1>6. QED BY <1>2, <1>3, <1>4, <1>5 DEF TypeInv

\* The cases of a step, as the proofs take them.
LEMMA StepKinds ==
  ASSUME TypeInv, [Next]_vars
  PROVE  \/ \E p \in Providers, k \in AllKeys : Sets(p, k)
         \/ \E p \in Providers : WsSwitch(p) \/ \E h \in Handlers : HttpSwitch(h, p)
         \/ \E h \in Handlers : SetActive(h)
         \/ \E a \in Accounts : SignIn(a)
         \/ \E r \in Runs :
              \/ \E sub \in BOOLEAN : Start(r, sub)
              \/ ResolveKey(r) \/ ResolveCached(r) \/ ResolveRefresh(r)
              \/ Refreshed(r) \/ RefreshFailed(r)
         \/ Auth
         \/ Restart
         \/ UNCHANGED vars
<1>1. ASSUME NEW p \in Providers, NEW k \in KeysFor(p), SetKey(p, k)
      PROVE  Sets(p, k) /\ k \in AllKeys
  BY <1>1, SetsKey, KeyKinds
<1>2. ASSUME NEW p \in Providers, NEW m \in Models, SetModel(p, m)
      PROVE  Sets(p, given[p].key) /\ given[p].key \in AllKeys
  BY <1>2, SetsModel, KeyKinds DEF Sets
<1>3. QED BY <1>1, <1>2 DEF Next

LEMMA NextType == TypeInv /\ [Next]_vars => TypeInv'
<1> SUFFICES ASSUME TypeInv, [Next]_vars PROVE TypeInv'
  OBVIOUS
<1>1. CASE \E a \in Accounts : SignIn(a)
  <2>1. AuthTypeOK' /\ UNCHANGED <<configVars, switchVars, useVars, restarts>> /\ Change
    BY <1>1, AuthType DEF SignIn, TypeInv
  <2>2. changes' \in 0 .. MaxChanges
    BY <2>1, ConfigAssumption DEF Change, TypeInv, RestType, ConfigAssumption
  <2>3. QED BY <2>1, <2>2 DEF TypeInv, RestType, RunType, GivenType, Keyed, configVars, switchVars, useVars
<1>2. CASE Auth
  <2>1. AuthTypeOK' /\ UNCHANGED <<configVars, switchVars, useVars, changes, restarts>>
    BY <1>2, AuthType DEF Auth, TypeInv
  <2>2. QED BY <2>1 DEF TypeInv, RestType, RunType, GivenType, Keyed, configVars, switchVars, useVars
<1>3. CASE UNCHANGED vars
  BY <1>3 DEF vars, TypeInv, AuthTypeOK, RestType, RunType, GivenType, Keyed,
              authVars, configVars, switchVars, useVars
<1>4. QED
  BY <1>1, <1>2, <1>3, StepKinds, SetsType, SwitchType, RunsType, RestartType

LEMMA TypeInvariance == Spec => []TypeInv
  BY InitType, NextType, PTL DEF Spec

\* Every variable keeps its type.
THEOREM TypeCorrect == Spec => []TypeOK
  BY TypeInvariance, TypeInvOK, PTL

(***************************************************************************)
(* OAuth tokens.  Whoever still holds one, the file, the handler that      *)
(* saves it, the configuration of Copilot or a run that has read it from   *)
(* there, Copilot is signed in: nothing signs it out.                      *)
(***************************************************************************)
TokenHeld ==
  \/ config["copilot"].key \in Accounts
  \/ file \in Accounts \/ saving \in Accounts
  \/ \E r \in Runs : stream[r].key \in Accounts

TokenInv == bearer # "oauth" /\ (TokenHeld => IsAuthenticated)

LEMMA SetsTokens ==
  ASSUME TypeInv, TokenInv, NEW p \in Providers, NEW k \in AllKeys, Sets(p, k)
  PROVE  TokenInv'
<1>1. PICK m \in Models \cup {None, Default} : Configure(p, k, m)
  BY DEF Sets
<1>2. k \in KeysFor(p) /\ UNCHANGED <<file, saving, stream, bearer>>
  BY DEF Sets, authRest, useVars
<1>3. config' = [config EXCEPT ![p] = Keeps(p, k, m)]
  BY <1>1 DEF Configure
<1>4. config \in [Providers -> Setting] /\ "copilot" \in Providers
  BY ConfigAssumption DEF ConfigAssumption, TypeInv, GivenType
<1>5. CASE p = "copilot"
  <2>1. config'["copilot"].key = k
    BY <1>2, <1>3, <1>4, <1>5, KeepsHeld
  <2>2. oauth' = IF k \in Accounts THEN k ELSE oauth
    BY <1>1, <1>5 DEF Configure, CopilotConfigure, SetOAuthToken
  <2>3. QED BY <1>2, <2>1, <2>2, KeyKinds DEF TokenInv, TokenHeld, IsAuthenticated
<1>6. CASE p # "copilot"
  <2>1. oauth' = oauth
    BY <1>1, <1>6 DEF Configure
  <2>2. config'["copilot"] = config["copilot"]
    BY <1>3, <1>4, <1>6
  <2>3. QED BY <1>2, <2>1, <2>2 DEF TokenInv, TokenHeld, IsAuthenticated
<1>7. QED BY <1>5, <1>6

\* The sign-in's own steps, the refresh of a run's among them, sign nobody out.
LEMMA AuthTokens ==
  ASSUME AuthTypeOK,
         \/ AuthStep \/ \E a \in Accounts : PollSuccess(a)
         \/ \E c \in Callers : GetValidToken(c) \/ ExchangeDone(c) \/ ExchangeError(c)
  PROVE  /\ IsAuthenticated => IsAuthenticated'
         /\ (file' \in Accounts \/ saving' \in Accounts)
              => file \in Accounts \/ saving \in Accounts \/ IsAuthenticated'
<1>1. oauth' = oauth \/ oauth' \in Accounts
  BY DEF AuthStep, StartDeviceFlow, PollFailed, SaveRead, SaveOpen, SaveWrite, Expire, ExchangeStart,
         PollSuccess, GetValidToken, ExchangeDone, ExchangeError
<1>2. /\ file' \in Accounts => file' \in {file, saving}
      /\ saving' = saving \/ (saving' = oauth /\ oauth' = oauth)
  BY TornAssumption
  DEF TornAssumption,
      AuthStep, StartDeviceFlow, PollFailed, SaveRead, SaveOpen, SaveWrite, Expire, ExchangeStart,
      PollSuccess, GetValidToken, ExchangeDone, ExchangeError
<1>3. QED BY <1>1, <1>2, KeyKinds DEF IsAuthenticated

LEMMA RunTokens ==
  ASSUME TypeInv, TokenInv, NEW r \in Runs,
         \/ \E sub \in BOOLEAN : Start(r, sub)
         \/ ResolveKey(r) \/ ResolveCached(r) \/ ResolveRefresh(r) \/ Refreshed(r) \/ RefreshFailed(r)
  PROVE  TokenInv'
<1>1. stream \in [Runs -> [pc: {"idle", "resolve", "wait"}, key: AllKeys]]
  BY DEF TypeInv, RunType
<1>2. /\ config' = config
      /\ IsAuthenticated => IsAuthenticated'
      /\ file' = file /\ saving' = saving
  BY DEF Start, ResolveKey, ResolveCached, ResolveRefresh, Refreshed, RefreshFailed,
         GetValidToken, ExchangeDone, ExchangeError, configVars, authVars, IsAuthenticated
<1>3. bearer' # "oauth"
  <2>1. ASSUME NEW sub \in BOOLEAN, Start(r, sub) PROVE bearer' # "oauth"
    <3>1. ASSUME NEW p \in Providers, p # "copilot" PROVE config[p].key \notin Accounts
      BY <3>1, KeyKinds DEF TypeInv, GivenType, Keyed
    <3>2. (IF sub THEN regActive ELSE active) \in Providers
      BY DEF TypeInv, RestType
    <3>3. QED BY <2>1, <3>1, <3>2 DEF Start, CarryKey, TokenInv
  <2>2. CASE ResolveKey(r)
    BY <2>2 DEF ResolveKey, CarryKey, TokenInv, TokenHeld
  <2>3. CASE ResolveCached(r) \/ ResolveRefresh(r) \/ Refreshed(r) \/ RefreshFailed(r)
    BY <2>3 DEF ResolveCached, ResolveRefresh, Refreshed, RefreshFailed, CarryKey, CarryToken, TokenInv
  <2>4. QED BY <2>1, <2>2, <2>3
<1>4. ASSUME NEW q \in Runs
      PROVE  stream'[q].key \in {stream[q].key, config["copilot"].key, None}
  BY <1>1 DEF Start, ResolveKey, ResolveCached, ResolveRefresh, Refreshed, RefreshFailed, Ends, Idle
<1>5. QED BY <1>2, <1>3, <1>4, KeyKinds DEF TokenInv, TokenHeld

LEMMA RestartTokens == ASSUME TypeInv, TokenInv, Restart PROVE TokenInv'
<1>1. env \in Envs
  BY DEF TypeInv, RestType
<1>2. /\ config' = FromEnv(env) /\ oauth' = LoadToken(EnvToken(env))
      /\ file' = file /\ saving' = None /\ bearer' = "none"
      /\ \A r \in Runs : stream'[r].key = None
  BY DEF Restart, AuthRestart, Idle
<1>3. config'["copilot"].key \in Accounts => oauth' \in Accounts
  BY <1>1, <1>2, StartType DEF LoadToken
<1>4. file' \in Accounts => oauth' \in Accounts
  BY <1>2 DEF LoadToken
<1>5. QED BY <1>2, <1>3, <1>4, KeyKinds DEF TokenInv, TokenHeld, IsAuthenticated

LEMMA InitTokens == Init => TokenInv
<1> SUFFICES ASSUME Init PROVE TokenInv
  OBVIOUS
<1>1. config["copilot"].key \in Accounts => oauth \in Accounts
  BY StartType DEF Init, AuthInit
<1>2. file = None /\ saving = None /\ bearer = "none" /\ \A r \in Runs : stream[r].key = None
  BY DEF Init, AuthInit, Idle
<1>3. QED BY <1>1, <1>2, KeyKinds DEF TokenInv, TokenHeld, IsAuthenticated

LEMMA NextTokens == TypeInv /\ TokenInv /\ [Next]_vars => TokenInv'
<1> SUFFICES ASSUME TypeInv, TokenInv, [Next]_vars PROVE TokenInv'
  OBVIOUS
<1>1. CASE \/ \E p \in Providers : WsSwitch(p) \/ \E h \in Handlers : HttpSwitch(h, p)
           \/ \E h \in Handlers : SetActive(h)
           \/ UNCHANGED vars
  <2>1. UNCHANGED <<authVars, config, useVars>>
    BY <1>1 DEF WsSwitch, HttpSwitch, SetActive, vars, configVars
  <2>2. QED BY <2>1 DEF authVars, useVars, TokenInv, TokenHeld, IsAuthenticated
<1>2. CASE Auth \/ \E a \in Accounts : SignIn(a)
  <2>1. UNCHANGED <<config, useVars>>
    BY <1>2 DEF Auth, SignIn, configVars
  <2>2. /\ IsAuthenticated => IsAuthenticated'
        /\ (file' \in Accounts \/ saving' \in Accounts)
             => file \in Accounts \/ saving \in Accounts \/ IsAuthenticated'
    BY <1>2, AuthTokens DEF Auth, SignIn, TypeInv
  <2>3. QED BY <2>1, <2>2 DEF useVars, TokenInv, TokenHeld
<1>3. QED
  BY <1>1, <1>2, StepKinds, SetsTokens, RunTokens, RestartTokens

LEMMA TokenInvariance == Spec => []TokenInv
  BY InitTokens, NextTokens, TypeInvariance, PTL DEF Spec

\* No request to a model carries the GitHub OAuth token.
THEOREM TokenStaysHome == Spec => []NoOAuthTokenOnTheWire
<1>1. TokenInv => NoOAuthTokenOnTheWire
  BY DEF TokenInv, NoOAuthTokenOnTheWire
<1>2. QED BY <1>1, TokenInvariance, PTL

\* Once a sign-in is in the file, Copilot is configured, after any restart.
THEOREM SignedIn == Spec => []SignInLasts
<1>1. TokenInv => SignInLasts
  BY DEF TokenInv, TokenHeld, SignInLasts, Configured
<1>2. QED BY <1>1, TokenInvariance, PTL

(***************************************************************************)
(* What config.set sets is what the provider has.                          *)
(***************************************************************************)
Reached(p) == config[p] = Keeps(p, given[p].key, given[p].model)
ReachedInv == \A p \in touched : Reached(p)

LEMMA ReachedIsEnough == TypeInv /\ ReachedInv => SettingsReachTheProvider
<1> SUFFICES ASSUME TypeInv, ReachedInv, NEW p \in touched, given[p].key # None
             PROVE  Reached(p) /\ Configured(p)
  BY DEF SettingsReachTheProvider, ReachedInv, Reached
<1>1. p \in Providers /\ given[p] \in Setting /\ given[p].key \in KeysFor(p)
  BY DEF TypeInv, GivenType, Keyed
<1>2. given[p].model \in Models \cup {None, Default}
  BY <1>1 DEF Setting
<1>3. p # "ollama" => config[p].key = given[p].key
  BY <1>1, <1>2, KeepsHeld DEF ReachedInv, Reached
<1>4. CASE p = "copilot"
  BY <1>3, <1>4 DEF Configured, ReachedInv
<1>5. CASE p # "copilot"
  BY <1>3, <1>5 DEF Configured, ReachedInv
<1>6. QED BY <1>4, <1>5

LEMMA NextReached == TypeInv /\ ReachedInv /\ [Next]_vars => ReachedInv'
<1> SUFFICES ASSUME TypeInv, ReachedInv, [Next]_vars PROVE ReachedInv'
  OBVIOUS
<1>1. ASSUME NEW p \in Providers, NEW k \in AllKeys, Sets(p, k) PROVE ReachedInv'
  <2>1. PICK m \in Models \cup {None, Default} :
          /\ config' = [config EXCEPT ![p] = Keeps(p, k, m)]
          /\ given' = [given EXCEPT ![p] = [key |-> k, model |-> m]]
    BY <1>1 DEF Sets, Configure
  <2>2. /\ given \in [Providers -> Setting] /\ config \in [Providers -> Setting]
        /\ touched \subseteq Providers /\ touched' = touched \cup {p}
    BY <1>1 DEF Sets, TypeInv, GivenType
  <2>3. ASSUME NEW q \in touched' PROVE Reached(q)'
    <3>1. CASE q = p
      BY <2>1, <2>2, <3>1 DEF Reached, Keeps, OllamaKept, Kept
    <3>2. CASE q # p
      <4>1. q \in touched /\ config'[q] = config[q] /\ given'[q] = given[q]
        BY <2>1, <2>2, <2>3, <3>2
      <4>2. QED BY <4>1 DEF ReachedInv, Reached, Keeps, OllamaKept, Kept
    <3>3. QED BY <3>1, <3>2
  <2>4. QED BY <2>3 DEF ReachedInv
<1>2. CASE Restart
  BY <1>2 DEF Restart, ReachedInv
<1>3. ASSUME UNCHANGED <<config, given, touched>> PROVE ReachedInv'
  BY <1>3 DEF ReachedInv, Reached, Keeps, OllamaKept, Kept
<1>4. QED
  BY <1>1, <1>2, <1>3, StepKinds
  DEF WsSwitch, HttpSwitch, SetActive, SignIn, Start, ResolveKey, ResolveCached, ResolveRefresh,
      Refreshed, RefreshFailed, Auth, vars, configVars

\* A provider that config.set has configured has what the manager has for it.
THEOREM SettingsReach == Spec => []SettingsReachTheProvider
<1>1. Init => ReachedInv
  BY DEF Init, ReachedInv
<1>2. QED BY <1>1, NextReached, ReachedIsEnough, TypeInvariance, PTL DEF Spec

(***************************************************************************)
(* Switches.                                                               *)
(***************************************************************************)

\* As long as a switch over HTTP has met no other, the manager's provider is
\* the one that the registry is about to be told.
LoneInv == \A h \in Handlers : (alone[h] /\ switching[h] # None) => active = switching[h]

\* What a step does to the switches that are under way.
LEMMA SwitchSteps ==
  ASSUME TypeInv, [Next]_vars
  PROVE  \/ UNCHANGED <<active, regActive, switching, alone>>
         \/ (switching' = switching /\ \A h \in Handlers : ~alone'[h])
         \/ \E h \in Handlers, p \in Providers : HttpSwitch(h, p)
         \/ \E h \in Handlers : SetActive(h)
         \/ (active' = regActive' /\ \A h \in Handlers : switching'[h] = None)
<1>1. ASSUME NEW p \in Providers, WsSwitch(p)
      PROVE  switching' = switching /\ \A h \in Handlers : ~alone'[h]
  BY <1>1, ConfigAssumption DEF WsSwitch, Disturb, ConfigAssumption
<1>2. Restart => active' = regActive' /\ \A h \in Handlers : switching'[h] = None
  BY DEF Restart
<1>3. QED
  BY <1>1, <1>2, StepKinds
  DEF Sets, SignIn, Start, ResolveKey, ResolveCached, ResolveRefresh,
      Refreshed, RefreshFailed, Auth, vars, configVars, switchVars

LEMMA NextLone == TypeInv /\ LoneInv /\ [Next]_vars => LoneInv'
<1> SUFFICES ASSUME TypeInv, LoneInv, [Next]_vars PROVE LoneInv'
  OBVIOUS
<1>1. switching \in [Handlers -> Providers \cup {None}] /\ alone \in [Handlers -> BOOLEAN]
  BY DEF TypeInv, RestType
<1>2. ASSUME NEW h \in Handlers, NEW p \in Providers, HttpSwitch(h, p) PROVE LoneInv'
  <2>1. /\ active' = p /\ switching'[h] = p
        /\ \A g \in Handlers : g # h => ~alone'[g]
    BY <1>1, <1>2 DEF HttpSwitch, Disturb
  <2>2. QED BY <2>1 DEF LoneInv
<1>3. ASSUME NEW h \in Handlers, SetActive(h) PROVE LoneInv'
  <2>1. /\ active' = active /\ ~alone'[h]
        /\ \A g \in Handlers : g # h => alone'[g] = alone[g] /\ switching'[g] = switching[g]
    BY <1>1, <1>3 DEF SetActive
  <2>2. QED BY <2>1 DEF LoneInv
<1>4. QED BY <1>2, <1>3, SwitchSteps DEF LoneInv

\* A switch over HTTP that met no other leaves manager and registry agreed.
THEOREM LoneSwitch == Spec => LoneSwitchAgrees
<1>1. Init => LoneInv
  BY DEF Init, LoneInv
<1>2. TypeInv /\ LoneInv /\ [Next]_vars
        => [\A h \in Handlers : (switching[h] # None /\ switching'[h] = None /\ alone[h])
                                  => active' = regActive']_vars
  <2> SUFFICES ASSUME TypeInv, LoneInv, [Next]_vars, NEW h \in Handlers,
                      switching[h] # None, switching'[h] = None, alone[h]
               PROVE  active' = regActive'
    OBVIOUS
  <2>1. switching \in [Handlers -> Providers \cup {None}]
    BY DEF TypeInv, RestType
  <2>2. ASSUME NEW g \in Handlers, NEW p \in Providers, HttpSwitch(g, p) PROVE FALSE
    <3>1. g # h
      BY <2>2 DEF HttpSwitch
    <3>2. QED BY <2>1, <2>2, <3>1 DEF HttpSwitch
  <2>3. ASSUME NEW g \in Handlers, SetActive(g) PROVE active' = regActive'
    <3>1. CASE g = h
      BY <2>3, <3>1 DEF SetActive, LoneInv
    <3>2. CASE g # h
      BY <2>1, <2>3, <3>2 DEF SetActive
    <3>3. QED BY <3>1, <3>2
  <2>4. QED BY <2>2, <2>3, SwitchSteps
<1>3. QED BY <1>1, <1>2, NextLone, TypeInvariance, PTL DEF Spec, LoneSwitchAgrees
=============================================================================
