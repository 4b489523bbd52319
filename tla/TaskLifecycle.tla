---------------------------- MODULE TaskLifecycle ----------------------------
(***************************************************************************)
(* A task from task.start to task.complete: the TaskManager's table, the   *)
(* engine's own table, the agent loop, and the goroutines that carry the   *)
(* loop's events over two bounded channels to the WebSocket client.        *)
(*                                                                         *)
(* A task ID may be used again once the manager no longer calls it         *)
(* running, while code of the earlier use still executes and addresses     *)
(* both tables by ID.  A run is one accepted StartTask call; it owns one   *)
(* managedTask, one taskState, one loop, one forwarder, one streamer.      *)
(* Runs are numbered in the order in which the manager accepts them.       *)
(***************************************************************************)
EXTENDS Integers, Sequences, FiniteSets

CONSTANTS
  TaskIds,
  StartIds,   \* the IDs clients pass to task.start
  MaxRuns,    \* bound: accepted StartTask calls in a behaviour
  Conns,      \* bound: WebSocket connections in a behaviour
  Leaving,    \* bound: the connections that may be lost
  None,
  RetryId,    \* the ID task.retry starts, for each ID that is retried
  ChCap,      \* capacity of the engine's channel (64 in the code)
  OutCap,     \* capacity of the manager's channel (32 in the code)
  MaxUnits    \* bound: units of work, a chunk or a tool call, of one loop

Runs == 1 .. MaxRuns
NoEntry == 0  \* in info: the ID had no entry when CompletionInfo was read
TaskStates == {"running", "completed", "failed", "canceled"}
EventKinds == {"progress", "error", "done"}

ASSUME NoneAssumption ==
  /\ None \notin Int /\ None \notin TaskStates /\ None \notin EventKinds
  /\ None \notin Conns /\ None \notin TaskIds /\ None # "active"
ASSUME IdAssumption == StartIds \subseteq TaskIds
ASSUME RetryAssumption ==
  DOMAIN RetryId \subseteq TaskIds /\ \A i \in DOMAIN RetryId : RetryId[i] \in TaskIds
ASSUME CapAssumption == ChCap \in Nat \ {0} /\ OutCap \in Nat \ {0}
ASSUME BoundAssumption == MaxRuns \in Nat /\ MaxUnits \in Nat

VARIABLES
  closed,      \* connections whose c.closed channel is closed
  runId,       \* runId[r]: the task ID the run was started under
  owner,       \* owner[r]: the connection that streams its events
  tmTask,      \* tmTask[i]: the run in TaskManager.tasks under ID i
  tmState,     \* tmState[r]: managedTask.state
  credit,      \* credit[q][r]: events of run r counted in the totals of q
  engTask,     \* engTask[i]: the run in Engine.tasks under ID i
  engState,    \* engState[r]: taskState.info.State
  sessState,   \* sessState[i]: Session.State of the session of task i
  caller,      \* where the goroutine inside StartTask is
  cancelCall,  \* cancelCall[r]: the CancelTask of r has yet to call Runner.Cancel
  ctxDone,     \* ctxDone[r]: the loop's context is done
  loop,        \* where runLoop is
  unit,        \* units of work the loop has done
  outcome,     \* the state a finishing loop reports
  ch,          \* the engine's event channel
  fwd,         \* where the manager's forwarding goroutine is
  hand,        \* the event the forwarder holds
  outCh,       \* the manager's event channel
  stream,      \* where the client's streaming goroutine is
  sent, got,   \* events emitted by the loop, and written to the client
  info         \* info[r]: the run whose CompletionInfo went into task.complete

clientVars == <<closed, runId, owner, stream, got, info>>
tmVars == <<tmTask, tmState, credit, caller, cancelCall, fwd, hand, outCh>>
engVars == <<engTask, engState, sessState, ctxDone, loop, unit, outcome, ch, sent>>
vars == <<clientVars, tmVars, engVars>>

Outcomes == TaskStates \ {"running"}

\* Places of the loop after it has emitted its last event.
Ended == {"settle", "record", "return", "exited"}

TypeOK ==
  /\ closed \subseteq Conns
  /\ runId \in [Runs -> TaskIds \cup {None}]
  /\ owner \in [Runs -> Conns \cup {None}]
  /\ tmTask \in [TaskIds -> Runs \cup {None}]
  /\ tmState \in [Runs -> TaskStates \cup {None}]
  /\ credit \in [Runs -> [Runs -> Nat]]
  /\ engTask \in [TaskIds -> Runs \cup {None}]
  /\ engState \in [Runs -> TaskStates \cup {None}]
  /\ sessState \in [TaskIds -> Outcomes \cup {"active", None}]
  /\ caller \in [Runs -> {"idle", "resolve", "guard", "insert", "undo", "rejected", "started"}]
  /\ cancelCall \in [Runs -> BOOLEAN]
  /\ ctxDone \in [Runs -> BOOLEAN]
  /\ loop \in [Runs -> {"idle", "check", "work", "last"} \cup Ended]
  /\ unit \in [Runs -> 0 .. MaxUnits]
  /\ outcome \in [Runs -> Outcomes \cup {None}]
  /\ ch \in [Runs -> Seq(EventKinds)]
  /\ fwd \in [Runs -> {"idle", "recv", "send", "mark", "exited"}]
  /\ hand \in [Runs -> EventKinds \cup {None}]
  /\ outCh \in [Runs -> Seq(EventKinds)]
  /\ stream \in [Runs -> {"idle", "reading", "complete", "exited"}]
  /\ sent \in [Runs -> Nat]
  /\ got \in [Runs -> Nat]
  /\ info \in [Runs -> Runs \cup {NoEntry, None}]

Init ==
  /\ closed = {}
  /\ runId = [r \in Runs |-> None]
  /\ owner = [r \in Runs |-> None]
  /\ tmTask = [i \in TaskIds |-> None]
  /\ tmState = [r \in Runs |-> None]
  /\ credit = [q \in Runs |-> [r \in Runs |-> 0]]
  /\ engTask = [i \in TaskIds |-> None]
  /\ engState = [r \in Runs |-> None]
  /\ sessState = [i \in TaskIds |-> None]
  /\ caller = [r \in Runs |-> "idle"]
  /\ cancelCall = [r \in Runs |-> FALSE]
  /\ ctxDone = [r \in Runs |-> FALSE]
  /\ loop = [r \in Runs |-> "idle"]
  /\ unit = [r \in Runs |-> 0]
  /\ outcome = [r \in Runs |-> None]
  /\ ch = [r \in Runs |-> <<>>]
  /\ fwd = [r \in Runs |-> "idle"]
  /\ hand = [r \in Runs |-> None]
  /\ outCh = [r \in Runs |-> <<>>]
  /\ stream = [r \in Runs |-> "idle"]
  /\ sent = [r \in Runs |-> 0]
  /\ got = [r \in Runs |-> 0]
  /\ info = [r \in Runs |-> None]

-----------------------------------------------------------------------------
(***************************************************************************)
(* StartTask, on the goroutine that dispatches the client's message.       *)
(***************************************************************************)

Running(i) == tmTask[i] # None /\ tmState[tmTask[i]] = "running"

\* The locked part of StartTask: a finished entry under the ID makes room.
Register(i, c, r) ==
  /\ c \notin closed
  /\ caller[r] = "idle"
  /\ \A q \in 1 .. r - 1 : caller[q] # "idle"
  /\ ~Running(i)
  /\ tmTask' = [tmTask EXCEPT ![i] = r]
  /\ tmState' = [tmState EXCEPT ![r] = "running"]
  /\ runId' = [runId EXCEPT ![r] = i]
  /\ owner' = [owner EXCEPT ![r] = c]
  /\ caller' = [caller EXCEPT ![r] = "resolve"]
  /\ UNCHANGED <<closed, stream, got, info, credit, cancelCall, fwd, hand, outCh, engVars>>

StartTask(i, c, r) == i \in StartIds /\ Register(i, c, r)

\* task.retry: only of a failed or canceled task, under a derived ID.
RetryTask(i, c, r) ==
  /\ tmTask[i] # None
  /\ tmState[tmTask[i]] \in {"failed", "canceled"}
  /\ Register(RetryId[i], c, r)

\* Engine.Start: the provider is unknown or has no key.
ProviderMissing(r) ==
  /\ caller[r] = "resolve"
  /\ caller' = [caller EXCEPT ![r] = "undo"]
  /\ UNCHANGED <<clientVars, tmTask, tmState, credit, cancelCall, fwd, hand, outCh, engVars>>

\* Engine.Start: the session is created or resumed before the guard is read.
OpenSession(r) ==
  /\ caller[r] = "resolve"
  /\ sessState' = [sessState EXCEPT ![runId[r]] = "active"]
  /\ caller' = [caller EXCEPT ![r] = "guard"]
  /\ UNCHANGED <<clientVars, tmTask, tmState, credit, cancelCall, fwd, hand, outCh,
                 engTask, engState, ctxDone, loop, unit, outcome, ch, sent>>

EngineBusy(i) == engTask[i] # None /\ engState[engTask[i]] = "running"

\* Engine.Start: the guard is read under one lock, the entry made under another.
Guard(r) ==
  /\ caller[r] = "guard"
  /\ caller' = [caller EXCEPT ![r] = IF EngineBusy(runId[r]) THEN "undo" ELSE "insert"]
  /\ UNCHANGED <<clientVars, tmTask, tmState, credit, cancelCall, fwd, hand, outCh, engVars>>

Launch(r) ==
  /\ caller[r] = "insert"
  /\ engTask' = [engTask EXCEPT ![runId[r]] = r]
  /\ engState' = [engState EXCEPT ![r] = "running"]
  /\ loop' = [loop EXCEPT ![r] = "check"]
  /\ fwd' = [fwd EXCEPT ![r] = "recv"]
  /\ stream' = [stream EXCEPT ![r] = "reading"]
  /\ caller' = [caller EXCEPT ![r] = "started"]
  /\ UNCHANGED <<closed, runId, owner, got, info, tmTask, tmState, credit, cancelCall,
                 hand, outCh, sessState, ctxDone, unit, outcome, ch, sent>>

\* StartTask after a failed Runner.Start: whatever entry the ID has is deleted.
Unregister(r) ==
  /\ caller[r] = "undo"
  /\ tmTask' = [tmTask EXCEPT ![runId[r]] = None]
  /\ ctxDone' = [ctxDone EXCEPT ![r] = TRUE]
  /\ caller' = [caller EXCEPT ![r] = "rejected"]
  /\ UNCHANGED <<clientVars, tmState, credit, cancelCall, fwd, hand, outCh,
                 engTask, engState, sessState, loop, unit, outcome, ch, sent>>

CallerStep(r) ==
  ProviderMissing(r) \/ OpenSession(r) \/ Guard(r) \/ Launch(r) \/ Unregister(r)

-----------------------------------------------------------------------------
(***************************************************************************)
(* CancelTask.                                                             *)
(***************************************************************************)

CancelTask(i) ==
  /\ Running(i)
  /\ LET r == tmTask[i] IN
       /\ tmState' = [tmState EXCEPT ![r] = "canceled"]
       /\ ctxDone' = [ctxDone EXCEPT ![r] = TRUE]
       /\ cancelCall' = [cancelCall EXCEPT ![r] = TRUE]
  /\ UNCHANGED <<clientVars, tmTask, credit, caller, fwd, hand, outCh,
                 engTask, engState, sessState, loop, unit, outcome, ch, sent>>

\* CancelTask goes on, outside the lock, to cancel whatever run the engine
\* has under the ID by now.
RunnerCancel(r) ==
  /\ cancelCall[r]
  /\ cancelCall' = [cancelCall EXCEPT ![r] = FALSE]
  /\ LET q == engTask[runId[r]] IN
       IF q = None
       THEN UNCHANGED <<engState, ctxDone>>
       ELSE /\ engState' = [engState EXCEPT ![q] = "canceled"]
            /\ ctxDone' = [ctxDone EXCEPT ![q] = TRUE]
  /\ UNCHANGED <<clientVars, tmTask, tmState, credit, caller, fwd, hand, outCh,
                 engTask, sessState, loop, unit, outcome, ch, sent>>

-----------------------------------------------------------------------------
(***************************************************************************)
(* runLoop.  A unit of work is a streamed chunk or a tool call; the        *)
(* context is checked before each.                                         *)
(***************************************************************************)

\* A send on the engine's channel blocks while the channel is full.
Emit(r, kind) ==
  /\ Len(ch[r]) < ChCap
  /\ ch' = [ch EXCEPT ![r] = Append(@, kind)]
  /\ sent' = [sent EXCEPT ![r] = @ + 1]

\* The last event of a loop, and the state the loop is about to report.
EmitLast(r, kind, state) ==
  /\ Emit(r, kind)
  /\ outcome' = [outcome EXCEPT ![r] = state]
  /\ loop' = [loop EXCEPT ![r] = "settle"]
  /\ UNCHANGED <<clientVars, tmVars, engTask, engState, sessState, ctxDone, unit>>

\* Fault: one unit too many.
LoopContinueLate(r) ==
  /\ loop[r] = "check"
  /\ unit[r] <= MaxUnits
  /\ ~ctxDone[r]
  /\ loop' = [loop EXCEPT ![r] = "work"]
  /\ UNCHANGED <<clientVars, tmVars, engTask, engState, sessState, ctxDone, unit, outcome, ch, sent>>

LoopContinue(r) ==
  /\ loop[r] = "check"
  /\ unit[r] < MaxUnits
  /\ ~ctxDone[r]
  /\ loop' = [loop EXCEPT ![r] = "work"]
  /\ UNCHANGED <<clientVars, tmVars, engTask, engState, sessState, ctxDone, unit, outcome, ch, sent>>

LoopCanceled(r) ==
  /\ loop[r] = "check"
  /\ unit[r] < MaxUnits
  /\ ctxDone[r]
  /\ EmitLast(r, "error", "canceled")

LoopProgress(r) ==
  /\ loop[r] = "work"
  /\ Emit(r, "progress")
  /\ unit' = [unit EXCEPT ![r] = @ + 1]
  /\ loop' = [loop EXCEPT ![r] = "check"]
  /\ UNCHANGED <<clientVars, tmVars, engTask, engState, sessState, ctxDone, outcome>>

\* The provider's error, which is also how a cancel shows inside Stream.
LoopFail(r) ==
  /\ loop[r] = "work"
  /\ EmitLast(r, "error", "failed")

LoopDone(r) ==
  /\ loop[r] = "work"
  /\ EmitLast(r, "done", "completed")

\* Fault: the done event goes first.
LoopExhaustedDoneFirst(r) ==
  /\ loop[r] = "check"
  /\ unit[r] = MaxUnits
  /\ Emit(r, "done")
  /\ loop' = [loop EXCEPT ![r] = "last"]
  /\ UNCHANGED <<clientVars, tmVars, engTask, engState, sessState, ctxDone, unit, outcome>>

\* The rounds are used up: an error, then the done event.
LoopExhausted(r) ==
  /\ loop[r] = "check"
  /\ unit[r] = MaxUnits
  /\ Emit(r, "error")
  /\ loop' = [loop EXCEPT ![r] = "last"]
  /\ UNCHANGED <<clientVars, tmVars, engTask, engState, sessState, ctxDone, unit, outcome>>

LoopLast(r) ==
  /\ loop[r] = "last"
  /\ EmitLast(r, "done", "completed")

\* Fault: the state is left to the deferred function.
LoopSettleDropped(r) ==
  /\ loop[r] = "settle"
  /\ loop' = [loop EXCEPT ![r] = "record"]
  /\ UNCHANGED <<clientVars, tmVars, engTask, engState, sessState, ctxDone, unit, outcome, ch, sent>>

\* setTaskState changes the entry the ID has now.
LoopSettle(r) ==
  /\ loop[r] = "settle"
  /\ LET q == engTask[runId[r]] IN
       engState' = IF q = None THEN engState ELSE [engState EXCEPT ![q] = outcome[r]]
  /\ loop' = [loop EXCEPT ![r] = "record"]
  /\ UNCHANGED <<clientVars, tmVars, engTask, sessState, ctxDone, unit, outcome, ch, sent>>

LoopRecord(r) ==
  /\ loop[r] = "record"
  /\ sessState' = [sessState EXCEPT ![runId[r]] = outcome[r]]
  /\ loop' = [loop EXCEPT ![r] = "return"]
  /\ UNCHANGED <<clientVars, tmVars, engTask, engState, ctxDone, unit, outcome, ch, sent>>

\* The deferred calls: no entry stays running, then the channel is closed.
LoopReturn(r) ==
  /\ loop[r] = "return"
  /\ LET q == engTask[runId[r]] IN
       engState' = IF EngineBusy(runId[r]) THEN [engState EXCEPT ![q] = "failed"] ELSE engState
  /\ loop' = [loop EXCEPT ![r] = "exited"]
  /\ UNCHANGED <<clientVars, tmVars, engTask, sessState, ctxDone, unit, outcome, ch, sent>>

LoopStep(r) ==
  \/ LoopContinue(r)
  \/ LoopCanceled(r)
  \/ LoopProgress(r)
  \/ LoopFail(r)
  \/ LoopDone(r)
  \/ LoopExhausted(r)
  \/ LoopLast(r)
  \/ LoopSettle(r)
  \/ LoopRecord(r)
  \/ LoopReturn(r)

\* Fault: no deferred close.
ChNeverClosed(r) == FALSE

ChClosed(r) == loop[r] = "exited"

-----------------------------------------------------------------------------
(***************************************************************************)
(* The manager's forwarding goroutine.                                     *)
(***************************************************************************)

\* trackEvent adds to the totals of the entry the ID has now.
FwdRecv(r) ==
  /\ fwd[r] = "recv"
  /\ ch[r] # <<>>
  /\ ch' = [ch EXCEPT ![r] = Tail(@)]
  /\ hand' = [hand EXCEPT ![r] = Head(ch[r])]
  /\ LET q == tmTask[runId[r]] IN
       credit' = IF q # None /\ Head(ch[r]) = "progress"
                 THEN [credit EXCEPT ![q][r] = @ + 1] ELSE credit
  /\ fwd' = [fwd EXCEPT ![r] = "send"]
  /\ UNCHANGED <<clientVars, tmTask, tmState, caller, cancelCall, outCh,
                 engTask, engState, sessState, ctxDone, loop, unit, outcome, sent>>

\* Fault: an error event is taken for the end of the task.
FwdSendErrorEnds(r) ==
  /\ fwd[r] = "send"
  /\ Len(outCh[r]) < OutCap
  /\ outCh' = [outCh EXCEPT ![r] = Append(@, hand[r])]
  /\ hand' = [hand EXCEPT ![r] = None]
  /\ fwd' = [fwd EXCEPT ![r] = IF hand[r] \in {"done", "error"} THEN "mark" ELSE "recv"]
  /\ UNCHANGED <<clientVars, tmTask, tmState, credit, caller, cancelCall, engVars>>

FwdSend(r) ==
  /\ fwd[r] = "send"
  /\ Len(outCh[r]) < OutCap
  /\ outCh' = [outCh EXCEPT ![r] = Append(@, hand[r])]
  /\ hand' = [hand EXCEPT ![r] = None]
  /\ fwd' = [fwd EXCEPT ![r] = IF hand[r] = "done" THEN "mark" ELSE "recv"]
  /\ UNCHANGED <<clientVars, tmTask, tmState, credit, caller, cancelCall, engVars>>

\* After done: completed, whatever the state was; then cancel() and close.
FwdMark(r) ==
  /\ fwd[r] = "mark"
  /\ tmState' = [tmState EXCEPT ![r] = "completed"]
  /\ ctxDone' = [ctxDone EXCEPT ![r] = TRUE]
  /\ fwd' = [fwd EXCEPT ![r] = "exited"]
  /\ UNCHANGED <<clientVars, tmTask, credit, caller, cancelCall, hand, outCh,
                 engTask, engState, sessState, loop, unit, outcome, ch, sent>>

\* Fault: a channel closed without a done event leaves the state alone.
FwdEofKeepsState(r) ==
  /\ fwd[r] = "recv"
  /\ ch[r] = <<>>
  /\ ChClosed(r)
  /\ ctxDone' = [ctxDone EXCEPT ![r] = TRUE]
  /\ fwd' = [fwd EXCEPT ![r] = "exited"]
  /\ UNCHANGED <<clientVars, tmTask, tmState, credit, caller, cancelCall, hand, outCh,
                 engTask, engState, sessState, loop, unit, outcome, ch, sent>>

\* The engine's channel is closed and no done event came.
FwdEof(r) ==
  /\ fwd[r] = "recv"
  /\ ch[r] = <<>>
  /\ ChClosed(r)
  /\ tmState' = [tmState EXCEPT ![r] = IF @ = "running" THEN "completed" ELSE @]
  /\ ctxDone' = [ctxDone EXCEPT ![r] = TRUE]
  /\ fwd' = [fwd EXCEPT ![r] = "exited"]
  /\ UNCHANGED <<clientVars, tmTask, credit, caller, cancelCall, hand, outCh,
                 engTask, engState, sessState, loop, unit, outcome, ch, sent>>

FwdStep(r) == FwdRecv(r) \/ FwdSend(r) \/ FwdMark(r) \/ FwdEof(r)

OutClosed(r) == fwd[r] = "exited"

-----------------------------------------------------------------------------
(***************************************************************************)
(* The goroutine that streams a run's events to its client.                *)
(***************************************************************************)

\* A select with both cases ready takes either, so an event may still be
\* taken after the disconnect; the write then fails and the goroutine ends.
StreamEvent(r) ==
  /\ stream[r] = "reading"
  /\ outCh[r] # <<>>
  /\ outCh' = [outCh EXCEPT ![r] = Tail(@)]
  /\ IF owner[r] \in closed
     THEN /\ stream' = [stream EXCEPT ![r] = "exited"]
          /\ UNCHANGED got
     ELSE /\ stream' = [stream EXCEPT ![r] = IF Head(outCh[r]) = "done" THEN "complete" ELSE @]
          /\ got' = [got EXCEPT ![r] = @ + 1]
  /\ UNCHANGED <<closed, runId, owner, info, tmTask, tmState, credit, caller, cancelCall,
                 fwd, hand, engVars>>

\* task.complete carries the CompletionInfo of the entry the ID has now.
StreamComplete(r) ==
  /\ stream[r] = "complete"
  /\ LET q == tmTask[runId[r]] IN
       info' = [info EXCEPT ![r] = IF owner[r] \in closed THEN @
                                   ELSE IF q = None THEN NoEntry ELSE q]
  /\ stream' = [stream EXCEPT ![r] = "exited"]
  /\ UNCHANGED <<closed, runId, owner, got, tmVars, engVars>>

\* outCh is closed, or the client has gone: nothing more is read.
StreamQuit(r) ==
  /\ stream[r] = "reading"
  /\ owner[r] \in closed \/ (outCh[r] = <<>> /\ OutClosed(r))
  /\ stream' = [stream EXCEPT ![r] = "exited"]
  /\ UNCHANGED <<closed, runId, owner, got, info, tmVars, engVars>>

StreamStep(r) == StreamEvent(r) \/ StreamComplete(r) \/ StreamQuit(r)

Disconnect(c) ==
  /\ c \in Leaving \ closed
  /\ closed' = closed \cup {c}
  /\ UNCHANGED <<runId, owner, stream, got, info, tmVars, engVars>>

-----------------------------------------------------------------------------

Next ==
  \/ \E i \in TaskIds, c \in Conns, r \in Runs : StartTask(i, c, r)
  \/ \E i \in DOMAIN RetryId, c \in Conns, r \in Runs : RetryTask(i, c, r)
  \/ \E i \in TaskIds : CancelTask(i)
  \/ \E c \in Conns : Disconnect(c)
  \/ \E r \in Runs : CallerStep(r)
  \/ \E r \in Runs : RunnerCancel(r)
  \/ \E r \in Runs : LoopStep(r)
  \/ \E r \in Runs : FwdStep(r)
  \/ \E r \in Runs : StreamStep(r)

Spec == Init /\ [][Next]_vars

\* Goroutines that can run do run.  A unit of work ends because the HTTP client
\* and every tool have a timeout.  What clients do is not fair.
Fairness ==
  \A r \in Runs :
    /\ WF_vars(CallerStep(r))
    /\ WF_vars(RunnerCancel(r))
    /\ WF_vars(LoopStep(r))
    /\ WF_vars(FwdStep(r))
    /\ WF_vars(StreamStep(r))

FairSpec == Spec /\ Fairness

-----------------------------------------------------------------------------
(***************************************************************************)
(* Properties.                                                             *)
(***************************************************************************)

\* A task the manager reports completed has no agent at work any more: every
\* event is emitted, no tool runs.  The manager learns it only through the
\* channel (taskmanager.go:110-128).
CompletedMeansFinished ==
  \A r \in Runs : tmState[r] = "completed" => loop[r] \in Ended

\* When task.complete goes out, the client holds every event of the run, and
\* totals read from the run's own entry count all of its progress events
\* (trackEvent before the forward, done as the last event).
CompleteCoversTheRun ==
  \A r \in Runs :
    info[r] # None => /\ got[r] = sent[r]
                      /\ info[r] = r => credit[r][r] = unit[r]

\* A run whose goroutines are gone does not keep its ID busy, in either table
\* (taskmanager.go:124, engine.go:203).
FinishedRunFreesItsId ==
  \A r \in Runs :
    loop[r] = "exited" /\ fwd[r] = "exited" =>
      /\ tmState[r] # "running"
      /\ engTask[runId[r]] = r => engState[r] # "running"

Pending(r) == caller[r] \in {"resolve", "guard", "insert", "undo"} \/ loop[r] \notin {"idle", "exited"}

\* When nothing works under an ID any more its session is not left active, even
\* when a start was rejected after it had marked the session active.
IdleSessionIsClosed ==
  \A i \in TaskIds :
    (\A r \in Runs : runId[r] = i => ~Pending(r)) => sessState[i] # "active"

\* What a client sees of a run: EventStream.
Events == INSTANCE EventStream WITH
  ended <- [r \in Runs |-> loop[r] \in Ended],
  announced <- [r \in Runs |-> info[r] # None]

ImplementsEventStream == Events!Spec

\* While its client stays, a launched run comes to an end, and with it its
\* forwarder and streamer.
RunEndsWhileClientStays ==
  \A r \in Runs :
    (loop[r] # "idle") ~>
      \/ owner[r] \in closed
      \/ (loop[r] = "exited" /\ fwd[r] = "exited" /\ stream[r] = "exited")

\* A launched run comes to an end even if its client goes away: the comment at
\* server.go:457 and UX_MOCKUPS.md:177.
RunEnds == \A r \in Runs : (loop[r] # "idle") ~> (loop[r] = "exited")

\* A task whose loop failed can be retried: API_PROTOCOL.md:99.
FailedTaskCanBeRetried ==
  \A r \in Runs :
    outcome[r] = "failed" /\ loop[r] = "exited" /\ fwd[r] = "exited" =>
      tmState[r] \in {"failed", "canceled"}

\* A loop at work is canceled only by a cancel of its own task run: the reuse
\* of finished IDs that taskmanager.go:52 allows.
CancelHitsItsOwnRun ==
  \A r \in Runs : loop[r] = "work" /\ ctxDone[r] => tmState[r] = "canceled"
==============================================================================
