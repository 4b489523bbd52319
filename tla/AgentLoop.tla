------------------------------ MODULE AgentLoop ------------------------------
(***************************************************************************)
(* The conversation of one session: the engine's loop of model requests    *)
(* and tool calls, the context manager that keeps what the model is sent   *)
(* within a token budget, by trimming and by compaction, and the persisted *)
(* history from which a later run of the session restores its context.     *)
(*                                                                         *)
(* At most one run of the session is under way (TaskLifecycle is about     *)
(* what happens when there are more), but clients may clear or delete the  *)
(* session, or cancel the run, at any step, and the daemon may restart.    *)
(***************************************************************************)
EXTENDS Integers, Sequences, SequencesExt

CONSTANTS
  MaxRounds,      \* maxToolRounds: rounds of tool calls in a run
  MaxTokens,      \* Manager.maxTokens
  Reserve,        \* systemPromptReserve
  Threshold,      \* the tokens above which compaction is called for: 80%
  ProtectRecent,  \* compactionProtectRecent: messages compaction leaves alone
  SummarySize,    \* tokens of a summary with its preamble
  TextSizes,      \* sizes, in tokens, of a prompt and of a reply
  ResultSizes,    \* sizes, in tokens, of a tool's result
  MaxCalls,       \* bound: tool calls in one reply
  MaxRuns         \* bound: runs of the session in a behaviour

ASSUME SizeAssumption ==
  /\ SummarySize \in Nat \ {0}
  /\ TextSizes \subseteq Nat \ {0} /\ ResultSizes \subseteq Nat \ {0}
ASSUME BudgetAssumption ==
  /\ MaxTokens \in Nat /\ Reserve \in 0 .. MaxTokens /\ Threshold \in 0 .. MaxTokens
  /\ ProtectRecent \in Nat \ {0}
ASSUME BoundAssumption ==
  /\ MaxRounds \in Nat \ {0} /\ MaxCalls \in Nat /\ MaxRuns \in Nat

\* A message counts at least one token (estimateTokens).  In `call' a reply
\* has the number of its tool calls, a result the number of the call it is
\* the answer to.
Roles == {"summary", "user", "assistant", "tool"}
Message == [role: Roles, size: Nat \ {0}, call: 0 .. MaxCalls]

User(n) == [role |-> "user", size |-> n, call |-> 0]
Reply(n, calls) == [role |-> "assistant", size |-> n, call |-> calls]
Result(n, c) == [role |-> "tool", size |-> n, call |-> c]
Summary == [role |-> "summary", size |-> SummarySize, call |-> 0]

VARIABLES
  messages,   \* Manager.messages
  used,       \* Manager.usedTokens
  history,    \* Session.Messages
  exists,     \* whether the session is in the store
  sessState,  \* Session.State
  pc,         \* where runLoop is
  round,      \* its round
  reply,      \* the reply whose tool calls are being executed
  call,       \* the next of them
  ctxDone,    \* the context of the run is done
  runs,       \* runs so far
  cut,        \* history: a run ended, or lost its session, between the calls of a reply
  wiped       \* history: the session was cleared or deleted during a run

loopVars == <<pc, round, reply, call, ctxDone>>
mgrVars == <<messages, used>>
sessVars == <<history, exists, sessState>>
vars == <<mgrVars, sessVars, loopVars, runs, cut, wiped>>

TypeOK ==
  /\ messages \in Seq(Message)
  /\ used \in Nat
  /\ history \in Seq(Message)
  /\ exists \in BOOLEAN
  /\ sessState \in {"active", "completed", "canceled", "failed"}
  /\ pc \in {"idle", "compact", "check", "request", "collect", "tools", "done"}
  /\ round \in 0 .. MaxRounds
  /\ reply \in Message
  /\ call \in 1 .. MaxCalls + 1
  /\ ctxDone \in BOOLEAN
  /\ runs \in 0 .. MaxRuns
  /\ cut \in BOOLEAN
  /\ wiped \in BOOLEAN

Init ==
  /\ messages = <<>> /\ used = 0
  /\ history = <<>> /\ exists = FALSE /\ sessState = "active"
  /\ pc = "idle" /\ round = 0 /\ reply = Reply(1, 0) /\ call = 1 /\ ctxDone = FALSE
  /\ runs = 0 /\ cut = FALSE /\ wiped = FALSE

-----------------------------------------------------------------------------
(***************************************************************************)
(* The context manager.                                                    *)
(***************************************************************************)

\* The tokens of the first k messages of s, for each k.
Sums(s) ==
  LET sum[k \in 0 .. Len(s)] == IF k = 0 THEN 0 ELSE sum[k - 1] + s[k].size
  IN sum
Total(s) == Sums(s)[Len(s)]
Newest(s, n) == SubSeq(s, Len(s) - n + 1, Len(s))

Budget == MaxTokens - Reserve

\* The manager m with message x added.  The oldest messages go, one by one,
\* while it is over the budget b and has more than two.
Add(m, x, b) ==
  LET s == Append(m.messages, x)
      Left(k) == m.used + x.size - Sums(s)[k]
      dropped == CHOOSE k \in 0 .. Len(s) :
        /\ Left(k) <= b \/ Len(s) - k <= 2
        /\ \A j \in 0 .. k - 1 : Left(j) > b /\ Len(s) - j > 2
  IN [messages |-> Newest(s, Len(s) - dropped), used |-> Left(dropped)]

\* Fault: the system prompt has no part in the budget.
AddMessageNoReserve(m, x) == Add(m, x, MaxTokens)

AddMessage(m, x) == Add(m, x, Budget)

Manager == [messages |-> messages, used |-> used]
SetManager(m) == messages' = m.messages /\ used' = m.used

-----------------------------------------------------------------------------
(***************************************************************************)
(* The session, as the run and the clients' handlers change it.  An        *)
(* operation on a session that is not in the store is an error the engine  *)
(* ignores.                                                                *)
(***************************************************************************)

Persist(x) == history' = IF exists THEN Append(history, x) ELSE history
UpdateState(st) == sessState' = IF exists THEN st ELSE sessState

\* A reply that has calls without a result yet.
Outstanding == pc = "tools"

ClearMessages ==
  /\ exists
  /\ history' = <<>> /\ sessState' = "active"
  /\ wiped' = (pc # "idle") /\ cut' = FALSE
  /\ UNCHANGED <<mgrVars, exists, loopVars, runs>>

Delete ==
  /\ exists
  /\ history' = <<>> /\ exists' = FALSE
  /\ wiped' = (pc # "idle") /\ cut' = FALSE
  /\ UNCHANGED <<mgrVars, sessState, loopVars, runs>>

-----------------------------------------------------------------------------
(***************************************************************************)
(* Engine.Start and runLoop.                                               *)
(***************************************************************************)

Begin ==
  /\ pc = "idle" /\ runs < MaxRuns
  /\ runs' = runs + 1
  /\ pc' = "compact" /\ round' = 0 /\ ctxDone' = FALSE
  /\ UNCHANGED <<reply, call>>

EmptyManager == [messages |-> <<>>, used |-> 0]

\* The manager given the messages of h, for each beginning of h.
Restored(h) ==
  LET m[k \in 0 .. Len(h)] == IF k = 0 THEN EmptyManager ELSE AddMessage(m[k - 1], h[k])
  IN m

\* A session with messages is resumed: its history is the context.
Resume(n) ==
  /\ exists /\ history # <<>>
  /\ SetManager(AddMessage(Restored(history)[Len(history)], User(n)))
  /\ Persist(User(n)) /\ UpdateState("active")
  /\ Begin
  /\ UNCHANGED <<exists, cut, wiped>>

\* Any other is created, or created anew.
Create(n) ==
  /\ history = <<>>
  /\ SetManager(AddMessage(EmptyManager, User(n)))
  /\ history' = <<User(n)>> /\ exists' = TRUE /\ sessState' = "active"
  /\ Begin
  /\ wiped' = FALSE /\ cut' = FALSE

\* The loop returns, with the state it gives the session.
Finish(st) ==
  /\ UpdateState(st)
  /\ pc' = "idle"
  /\ cut' = (cut \/ Outstanding)
  /\ UNCHANGED <<exists, round, reply, call, ctxDone, runs, wiped>>

ShouldCompact == used + Reserve > Threshold

\* Compact leaves a short conversation alone, and any if the model gives no
\* summary; the loop goes on all the same.
SkipCompact ==
  /\ pc = "compact"
  /\ pc' = "check"
  /\ UNCHANGED <<mgrVars, sessVars, round, reply, call, ctxDone, runs, cut, wiped>>

\* Faults: Compact keeps the oldest messages; it leaves the count as it was.
CompactKeepsOldest ==
  /\ pc = "compact" /\ ShouldCompact /\ Len(messages) > ProtectRecent
  /\ messages' = <<Summary>> \o SubSeq(messages, 1, ProtectRecent)
  /\ used' = Total(messages')
  /\ pc' = "check"
  /\ UNCHANGED <<sessVars, round, reply, call, ctxDone, runs, cut, wiped>>

CompactKeepsCount ==
  /\ pc = "compact" /\ ShouldCompact /\ Len(messages) > ProtectRecent
  /\ messages' = <<Summary>> \o Newest(messages, ProtectRecent)
  /\ used' = used + SummarySize
  /\ pc' = "check"
  /\ UNCHANGED <<sessVars, round, reply, call, ctxDone, runs, cut, wiped>>

Compact ==
  /\ pc = "compact" /\ ShouldCompact /\ Len(messages) > ProtectRecent
  /\ messages' = <<Summary>> \o Newest(messages, ProtectRecent)
  /\ used' = Total(messages')
  /\ pc' = "check"
  /\ UNCHANGED <<sessVars, round, reply, call, ctxDone, runs, cut, wiped>>

\* The looks at ctx.Done(): between rounds, during a reply, between calls.
Canceled ==
  /\ pc \in {"check", "collect", "tools"} /\ ctxDone
  /\ Finish("canceled")
  /\ UNCHANGED <<mgrVars, history>>

Check ==
  /\ pc = "check" /\ ~ctxDone
  /\ pc' = "request"
  /\ UNCHANGED <<mgrVars, sessVars, round, reply, call, ctxDone, runs, cut, wiped>>

\* Provider.Stream is given Manager.Messages.
Stream ==
  /\ pc = "request"
  /\ pc' = "collect"
  /\ UNCHANGED <<mgrVars, sessVars, round, reply, call, ctxDone, runs, cut, wiped>>

\* It returns an error, for a cancelled context among other causes.
ProviderError ==
  /\ pc = "request"
  /\ Finish("failed")
  /\ UNCHANGED <<mgrVars, history>>

\* The stream ends with a reply that has tool calls, or has none and ends
\* the run.
Collect(n, calls) ==
  /\ pc = "collect" /\ ~ctxDone
  /\ SetManager(AddMessage(Manager, Reply(n, calls)))
  /\ Persist(Reply(n, calls))

ToolCalls(n, calls) ==
  /\ calls > 0
  /\ Collect(n, calls)
  /\ reply' = Reply(n, calls) /\ call' = 1
  /\ pc' = "tools"
  /\ UNCHANGED <<exists, sessState, round, ctxDone, runs, cut, wiped>>

Done(n) ==
  /\ Collect(n, 0)
  /\ pc' = "done"
  /\ UNCHANGED <<exists, sessState, round, reply, call, ctxDone, runs, cut, wiped>>

\* Fault: one round too many.
NextRoundOffByOne ==
  /\ round' = round + 1
  /\ IF round + 1 <= MaxRounds
     THEN pc' = "compact"
     ELSE pc' = "done"

\* After the last round the run ends as it does after a reply without calls.
NextRound ==
  /\ round' = round + 1
  /\ IF round + 1 < MaxRounds
     THEN pc' = "compact"
     ELSE pc' = "done"

Complete ==
  /\ pc = "done"
  /\ Finish("completed")
  /\ UNCHANGED <<mgrVars, history>>

\* Faults: of several calls the loop answers the first; a tool without
\* output is left out of the session.
ToolResultFirstOnly(n) ==
  /\ pc = "tools" /\ ~ctxDone
  /\ SetManager(AddMessage(Manager, Result(n, call)))
  /\ Persist(Result(n, call))
  /\ NextRound /\ UNCHANGED call
  /\ UNCHANGED <<exists, sessState, reply, ctxDone, runs, cut, wiped>>

ToolResultNotPersisted(n) ==
  /\ pc = "tools" /\ ~ctxDone
  /\ SetManager(AddMessage(Manager, Result(n, call)))
  /\ IF n = 1 THEN UNCHANGED history ELSE Persist(Result(n, call))
  /\ IF call < reply.call
     THEN call' = call + 1 /\ UNCHANGED <<pc, round>>
     ELSE NextRound /\ UNCHANGED call
  /\ UNCHANGED <<exists, sessState, reply, ctxDone, runs, cut, wiped>>

\* Dispatch returns: an error is a result like any other.
ToolResult(n) ==
  /\ pc = "tools" /\ ~ctxDone
  /\ SetManager(AddMessage(Manager, Result(n, call)))
  /\ Persist(Result(n, call))
  /\ IF call < reply.call
     THEN call' = call + 1 /\ UNCHANGED <<pc, round>>
     ELSE NextRound /\ UNCHANGED call
  /\ UNCHANGED <<exists, sessState, reply, ctxDone, runs, cut, wiped>>

\* Engine.Cancel cancels the run's context.
Cancel ==
  /\ pc # "idle" /\ ~ctxDone
  /\ ctxDone' = TRUE
  /\ UNCHANGED <<mgrVars, sessVars, pc, round, reply, call, runs, cut, wiped>>

\* The daemon stops in the run, and starts again.
Restart ==
  /\ pc # "idle"
  /\ pc' = "idle" /\ ctxDone' = FALSE
  /\ SetManager(EmptyManager)
  /\ cut' = (cut \/ Outstanding)
  /\ UNCHANGED <<sessVars, round, reply, call, runs, wiped>>

Start == \E n \in TextSizes : Resume(n) \/ Create(n)

Next ==
  \/ Start
  \/ SkipCompact \/ Compact
  \/ Canceled \/ Check
  \/ Stream \/ ProviderError
  \/ \E n \in TextSizes, calls \in 1 .. MaxCalls : ToolCalls(n, calls)
  \/ \E n \in TextSizes : Done(n)
  \/ Complete
  \/ \E n \in ResultSizes : ToolResult(n)
  \/ Cancel
  \/ ClearMessages \/ Delete
  \/ Restart

Spec == Init /\ [][Next]_vars

-----------------------------------------------------------------------------
(***************************************************************************)
(* Properties.                                                             *)
(***************************************************************************)

\* The running count of tokens, kept by additions and subtractions while
\* messages come and go, is the sum over the messages that are there.
UsedIsTheSum == used = Total(messages)

\* What a request sends is over the budget by a fresh summary at most, or
\* because the two messages that are never trimmed are too large.
RequestFits ==
  pc = "request" => used <= Budget + SummarySize \/ Len(messages) <= 2

\* The model is sent the newest part of the persisted history, in order and
\* without gaps, behind a summary of the rest if there is one: trimming and
\* compaction, in the run and when a later run restores the context, drop
\* from the front only, and what a restart would restore is what was sent.
ContextEndsTheHistory ==
  pc # "idle" /\ ~wiped =>
    \/ IsSuffix(messages, history)
    \/ messages[1] = Summary /\ IsSuffix(Tail(messages), history)

\* Calls that are open after message x, when n were before it.
Open(n, x) ==
  CASE x.role = "assistant" -> x.call
  []   x.role = "tool" -> n - 1
  []   OTHER -> 0

\* Calls of the reply last before position p that have no result up to p.
Unanswered(h) ==
  LET left[p \in 0 .. Len(h)] == IF p = 0 THEN 0 ELSE Open(left[p - 1], h[p])
  IN left

\* In the persisted history a reply's calls are answered each, in order and
\* before anything else; only a run that was cancelled, or died with the
\* daemon, leaves calls open, and what follows them is a prompt.
HistoryAnswersCalls ==
  ~wiped => LET left == Unanswered(history) IN
    \A p \in 1 .. Len(history) :
      /\ history[p].role = "assistant" => left[p - 1] = 0
      /\ history[p].role = "tool" => left[p] >= 0
      /\ history[p].role = "user" /\ left[p - 1] > 0 => cut

\* A session that is called completed has no call open: resuming it sends
\* the model a conversation it can go on with.
CompletedIsAnswered ==
  pc = "idle" /\ exists /\ sessState = "completed" /\ ~wiped =>
    Unanswered(history)[Len(history)] = 0
=============================================================================
