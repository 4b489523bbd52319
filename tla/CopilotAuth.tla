----------------------------- MODULE CopilotAuth -----------------------------
(***************************************************************************)
(* The GitHub sign-in of the Copilot provider: the device flow that yields *)
(* an OAuth token for an account, the file it is kept in, and its exchange *)
(* for the short-lived API token that requests carry.                      *)
(*                                                                         *)
(* A lock covers each read and each write, and none of the HTTP requests   *)
(* between them.  An API token carries the account whose OAuth token it    *)
(* was exchanged for.                                                      *)
(***************************************************************************)
EXTENDS Integers, FiniteSets

CONSTANTS
  Accounts,   \* GitHub accounts; stands for their OAuth tokens (gho_...), too
  Runs,       \* runs that call Stream of the Copilot provider
  Poller,     \* the handler of /api/auth/copilot/poll
  None

Callers == Runs \cup {Poller}

ASSUME CallersAssumption == Poller \notin Runs /\ None \notin Accounts

\* What the token file may hold: no file is None, a file cut by a crash or a
\* full disk is Torn.
Torn == "torn"
ASSUME TornAssumption == Torn \notin Accounts \cup {None}

VARIABLES
  oauth,      \* CopilotAuth.oauthToken
  api,        \* CopilotAuth.apiToken: None, or its account and whether it is fresh
  file,       \* copilot_token.json
  flow,       \* a device code is with the user
  poll,       \* the poll handler: idle, read, open, write, exchange
  saving,     \* the token that SaveToken has read
  exchange    \* the ExchangeToken calls: idle, start, or the account in flight

authVars == <<oauth, api, file, flow, poll, saving, exchange>>

ApiToken == [acct: Accounts, fresh: BOOLEAN]

AuthTypeOK ==
  /\ oauth \in Accounts \cup {None}
  /\ api \in ApiToken \cup {None}
  /\ file \in Accounts \cup {None, Torn}
  /\ flow \in BOOLEAN
  /\ poll \in {"idle", "read", "open", "write", "exchange"}
  /\ saving \in Accounts \cup {None}
  /\ exchange \in [Callers -> {"idle", "start"} \cup Accounts]

\* Nobody has signed in before; the environment may hold a token.
AuthInit(t) ==
  /\ oauth = t /\ api = None /\ file = None
  /\ flow = FALSE /\ poll = "idle" /\ saving = None
  /\ exchange = [c \in Callers |-> "idle"]

IsAuthenticated == oauth # None

-----------------------------------------------------------------------------
(***************************************************************************)
(* The device flow.                                                        *)
(***************************************************************************)
StartDeviceFlow ==
  /\ ~flow
  /\ flow' = TRUE
  /\ UNCHANGED <<oauth, api, file, poll, saving, exchange>>

\* GitHub says that the user has authorised the device.  The API token stays
\* what it was.
PollSuccess(a) ==
  /\ flow /\ poll = "idle"
  /\ oauth' = a
  /\ flow' = FALSE /\ poll' = "read"
  /\ UNCHANGED <<api, file, saving, exchange>>

\* Pending or slow_down leaves everything; an error ends the flow.
PollFailed ==
  /\ flow /\ poll = "idle"
  /\ flow' = FALSE
  /\ UNCHANGED <<oauth, api, file, poll, saving, exchange>>

\* SaveToken reads the token, which may be another by now, and replaces the
\* file in place; its error is ignored.
SaveRead ==
  /\ poll = "read"
  /\ saving' = oauth /\ poll' = "open"
  /\ UNCHANGED <<oauth, api, file, flow, exchange>>

SaveOpen ==
  /\ poll = "open"
  /\ \/ file' = Torn /\ poll' = "write" /\ UNCHANGED exchange
     \/ UNCHANGED file /\ poll' = "exchange" /\ exchange' = [exchange EXCEPT ![Poller] = "start"]
  /\ UNCHANGED <<oauth, api, flow, saving>>

SaveWrite ==
  /\ poll = "write"
  /\ \/ file' = saving
     \/ UNCHANGED file
  /\ poll' = "exchange" /\ exchange' = [exchange EXCEPT ![Poller] = "start"]
  /\ UNCHANGED <<oauth, api, flow, saving>>

-----------------------------------------------------------------------------
(***************************************************************************)
(* The API token.                                                          *)
(***************************************************************************)
ExchangeStart(c) ==
  /\ exchange[c] = "start" /\ oauth # None
  /\ exchange' = [exchange EXCEPT ![c] = oauth]
  /\ UNCHANGED <<oauth, api, file, flow, poll, saving>>

\* The handler ends with its exchange.
Leave(c) == poll' = IF c = Poller THEN "idle" ELSE poll

\* The answer is stored, whatever the OAuth token is by now.
ExchangeDone(c) ==
  /\ exchange[c] \in Accounts
  /\ api' = [acct |-> exchange[c], fresh |-> TRUE]
  /\ exchange' = [exchange EXCEPT ![c] = "idle"]
  /\ Leave(c)
  /\ UNCHANGED <<oauth, file, flow, saving>>

ExchangeError(c) ==
  /\ exchange[c] \in Accounts
  /\ exchange' = [exchange EXCEPT ![c] = "idle"]
  /\ Leave(c)
  /\ UNCHANGED <<oauth, api, file, flow, saving>>

\* Fault: a token is used as long as there is one.
UsableAtAnyAge(t) == t # None

\* GetValidToken hands out the token it has until five minutes before its end.
Usable(t) == t # None /\ t.fresh

\* The account a call of GetValidToken by now ends up with.
Handout == IF Usable(api) THEN api.acct ELSE oauth

GetValidToken(c) ==
  /\ oauth # None /\ ~Usable(api) /\ exchange[c] = "idle"
  /\ exchange' = [exchange EXCEPT ![c] = "start"]
  /\ UNCHANGED <<oauth, api, file, flow, poll, saving>>

SetOAuthToken(a) == oauth' = a /\ api' = None

\* Time passes.
Expire ==
  /\ api # None /\ api.fresh
  /\ api' = [api EXCEPT !.fresh = FALSE]
  /\ UNCHANGED <<oauth, file, flow, poll, saving, exchange>>

\* Fault: the file is not read.
LoadNothing(t) == t

\* LoadToken at the start of the daemon, where the environment has given the
\* token t, or None: the file, if it is whole, goes first.
LoadToken(t) == IF file \in Accounts THEN file ELSE t

\* A crash and a new start.  The device code is with the user.
AuthRestart(t) ==
  /\ oauth' = LoadToken(t) /\ api' = None
  /\ poll' = "idle" /\ saving' = None
  /\ exchange' = [c \in Callers |-> "idle"]
  /\ UNCHANGED <<file, flow>>

AuthStep ==
  \/ StartDeviceFlow \/ PollFailed \/ SaveRead \/ SaveOpen \/ SaveWrite \/ Expire
  \/ \E c \in Callers : ExchangeStart(c)
  \/ ExchangeDone(Poller) \/ ExchangeError(Poller)
=============================================================================
