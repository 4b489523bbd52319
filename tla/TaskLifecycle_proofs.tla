------------------------ MODULE TaskLifecycle_proofs -------------------------
(***************************************************************************)
(* Theorems about TaskLifecycle, for every number of runs, task IDs and    *)
(* connections and all channel capacities.                                 *)
(***************************************************************************)
EXTENDS TaskLifecycle, TLAPS

\* What the places of a run's goroutines say about each other: they exist
\* together, and the forwarder holds an event exactly when it is about to send.
Launched ==
  \A r \in Runs :
    /\ caller[r] # "idle" => runId[r] \in TaskIds
    /\ caller[r] # "started" => /\ loop[r] = "idle"
                                /\ fwd[r] = "idle"
                                /\ stream[r] = "idle"
    /\ fwd[r] = "send" => hand[r] \in EventKinds
    /\ loop[r] = "work" => unit[r] < MaxUnits

TypeInv == TypeOK /\ Launched

LEMMA InitType == Init => TypeInv
BY NoneAssumption, BoundAssumption, CapAssumption
   DEF Init, TypeInv, TypeOK, Launched, Runs, Ended

LEMMA EmitType ==
  ASSUME TypeOK, NEW r \in Runs, NEW kind \in EventKinds, Emit(r, kind)
  PROVE  /\ ch' \in [Runs -> Seq(EventKinds)]
         /\ sent' \in [Runs -> Nat]
<1>1. ch[r] \in Seq(EventKinds) /\ Append(ch[r], kind) \in Seq(EventKinds)
  BY DEF TypeOK
<1>2. QED
  BY <1>1 DEF TypeOK, Emit

LEMMA EmitLastType ==
  ASSUME TypeInv, NEW r \in Runs, NEW kind \in EventKinds, NEW state \in Outcomes,
         EmitLast(r, kind, state), loop[r] # "idle"
  PROVE  TypeInv'
<1>1. ch' \in [Runs -> Seq(EventKinds)] /\ sent' \in [Runs -> Nat]
  BY EmitType DEF EmitLast, TypeInv
<1>2. /\ outcome' = [outcome EXCEPT ![r] = state] /\ loop' = [loop EXCEPT ![r] = "settle"]
      /\ UNCHANGED <<clientVars, tmVars, engTask, engState, sessState, ctxDone, unit>>
  BY DEF EmitLast
<1>3. TypeOK'
  BY <1>1, <1>2 DEF TypeInv, TypeOK, Ended, clientVars, tmVars
<1>4. Launched'
  BY <1>2 DEF TypeInv, TypeOK, Launched, clientVars, tmVars
<1>5. QED
  BY <1>3, <1>4 DEF TypeInv

LEMMA TakeType ==
  ASSUME NEW S, NEW q \in Seq(S), q # <<>>
  PROVE  /\ Head(q) \in S
         /\ Tail(q) \in Seq(S)
OBVIOUS

LEMMA CountUp ==
  ASSUME NEW S, NEW f \in [S -> Nat], NEW s \in S
  PROVE  [f EXCEPT ![s] = @ + 1] \in [S -> Nat]
OBVIOUS

LEMMA CountUpBounded ==
  ASSUME NEW S, NEW n \in Nat, NEW f \in [S -> 0 .. n], NEW s \in S, f[s] < n
  PROVE  [f EXCEPT ![s] = @ + 1] \in [S -> 0 .. n]
OBVIOUS

LEMMA CountUpNested ==
  ASSUME NEW S, NEW f \in [S -> [S -> Nat]], NEW q \in S, NEW s \in S
  PROVE  [f EXCEPT ![q][s] = @ + 1] \in [S -> [S -> Nat]]
OBVIOUS

LEMMA NextType ==
  ASSUME TypeInv, [Next]_vars
  PROVE  TypeInv'
<1> USE NoneAssumption, IdAssumption, RetryAssumption, CapAssumption, BoundAssumption
    DEF TypeInv, TypeOK, Launched, Runs, TaskStates, EventKinds, Outcomes, Ended, NoEntry,
        clientVars, tmVars, engVars
<1>1. ASSUME NEW i \in TaskIds, NEW c \in Conns, NEW r \in Runs, Register(i, c, r)
      PROVE  TypeInv'
  <2>1. /\ tmTask' = [tmTask EXCEPT ![i] = r] /\ tmState' = [tmState EXCEPT ![r] = "running"]
        /\ runId' = [runId EXCEPT ![r] = i] /\ owner' = [owner EXCEPT ![r] = c]
        /\ caller[r] = "idle" /\ caller' = [caller EXCEPT ![r] = "resolve"]
        /\ UNCHANGED <<closed, stream, got, info, credit, cancelCall, fwd, hand, outCh, engVars>>
    BY <1>1 DEF Register
  <2>2. TypeOK'
    BY <2>1
  <2>3. Launched'
    BY <2>1
  <2>4. QED
    BY <2>2, <2>3
<1>2. ASSUME NEW i \in TaskIds, CancelTask(i)
      PROVE  TypeInv'
  BY <1>2 DEF CancelTask, Running
<1>3. ASSUME NEW c \in Conns, Disconnect(c)
      PROVE  TypeInv'
  BY <1>3 DEF Disconnect
<1>4. ASSUME NEW r \in Runs, CallerStep(r)
      PROVE  TypeInv'
  <2>1. CASE ProviderMissing(r)
    BY <2>1 DEF ProviderMissing
  <2>2. CASE OpenSession(r)
    BY <2>2 DEF OpenSession
  <2>3. CASE Guard(r)
    BY <2>3 DEF Guard
  <2>4. CASE Launch(r)
    <3>1. /\ engTask' \in [TaskIds -> Runs \cup {None}]
          /\ engState' \in [Runs -> TaskStates \cup {None}]
      BY <2>4 DEF Launch
    <3>2. /\ loop' = [loop EXCEPT ![r] = "check"] /\ fwd' = [fwd EXCEPT ![r] = "recv"]
          /\ stream' = [stream EXCEPT ![r] = "reading"]
          /\ caller[r] = "insert" /\ caller' = [caller EXCEPT ![r] = "started"]
          /\ UNCHANGED <<closed, runId, owner, got, info, tmTask, tmState, credit, cancelCall,
                         hand, outCh, sessState, ctxDone, unit, outcome, ch, sent>>
      BY <2>4 DEF Launch
    <3>3. TypeOK'
      BY <3>1, <3>2
    <3>4. Launched'
      BY <3>2
    <3>5. QED
      BY <3>3, <3>4
  <2>5. CASE Unregister(r)
    BY <2>5 DEF Unregister
  <2>6. QED
    BY <1>4, <2>1, <2>2, <2>3, <2>4, <2>5 DEF CallerStep
<1>5. ASSUME NEW r \in Runs, RunnerCancel(r)
      PROVE  TypeInv'
  <2> DEFINE q == engTask[runId[r]]
  <2>1. /\ engState' = engState \/ engState' = [engState EXCEPT ![q] = "canceled"]
        /\ ctxDone' = ctxDone \/ ctxDone' = [ctxDone EXCEPT ![q] = TRUE]
        /\ cancelCall' = [cancelCall EXCEPT ![r] = FALSE]
    BY <1>5 DEF RunnerCancel
  <2>2. /\ engState' \in [Runs -> TaskStates \cup {None}]
        /\ ctxDone' \in [Runs -> BOOLEAN] /\ cancelCall' \in [Runs -> BOOLEAN]
    <3>1. /\ engState \in [Runs -> TaskStates \cup {None}]
          /\ ctxDone \in [Runs -> BOOLEAN] /\ cancelCall \in [Runs -> BOOLEAN]
      OBVIOUS
    <3> HIDE DEF q, TypeInv, Runs
    <3>2. QED
      BY <2>1, <3>1
  <2>3. UNCHANGED <<clientVars, tmTask, tmState, credit, caller, fwd, hand, outCh,
                    engTask, sessState, loop, unit, outcome, ch, sent>>
    BY <1>5 DEF RunnerCancel
  <2>4. QED
    BY <2>2, <2>3
<1>6. ASSUME NEW r \in Runs, LoopStep(r)
      PROVE  TypeInv'
  <2>1. CASE LoopContinue(r)
    BY <2>1 DEF LoopContinue
  <2>2. CASE LoopCanceled(r)
    BY <2>2, EmitLastType DEF LoopCanceled
  <2>3. CASE LoopProgress(r)
    <3>1. unit' \in [Runs -> 0 .. MaxUnits]
      BY <2>3, CountUpBounded DEF LoopProgress
    <3>2. ch' \in [Runs -> Seq(EventKinds)] /\ sent' \in [Runs -> Nat]
      BY <2>3, EmitType DEF LoopProgress
    <3>3. /\ loop[r] = "work" /\ loop' = [loop EXCEPT ![r] = "check"]
          /\ \A q \in Runs \ {r} : unit'[q] = unit[q]
          /\ UNCHANGED <<clientVars, tmVars, engTask, engState, sessState, ctxDone, outcome>>
      BY <2>3 DEF LoopProgress
    <3>4. TypeOK'
      BY <3>1, <3>2, <3>3
    <3>5. Launched'
      BY <3>3
    <3>6. QED
      BY <3>4, <3>5
  <2>4. CASE LoopFail(r)
    BY <2>4, EmitLastType DEF LoopFail
  <2>5. CASE LoopDone(r)
    BY <2>5, EmitLastType DEF LoopDone
  <2>6. CASE LoopExhausted(r)
    BY <2>6, EmitType DEF LoopExhausted
  <2>7. CASE LoopLast(r)
    BY <2>7, EmitLastType DEF LoopLast
  <2>8. CASE LoopSettle(r)
    <3>1. engState' \in [Runs -> TaskStates \cup {None}]
      BY <2>8 DEF LoopSettle
    <3>2. /\ loop' = [loop EXCEPT ![r] = "record"]
          /\ UNCHANGED <<clientVars, tmVars, engTask, sessState, ctxDone, unit, outcome, ch, sent>>
          /\ loop[r] = "settle"
      BY <2>8 DEF LoopSettle
    <3>3. loop' \in [Runs -> {"idle", "check", "work", "last"} \cup Ended]
      BY <3>2
    <3>4. TypeOK'
      BY <3>1, <3>2, <3>3
    <3>5. Launched'
      BY <3>2
    <3>6. QED
      BY <3>4, <3>5
  <2>9. CASE LoopRecord(r)
    <3>1. /\ sessState' = [sessState EXCEPT ![runId[r]] = outcome[r]]
          /\ loop[r] = "record" /\ loop' = [loop EXCEPT ![r] = "return"]
          /\ UNCHANGED <<clientVars, tmVars, engTask, engState, ctxDone, unit, outcome, ch, sent>>
      BY <2>9 DEF LoopRecord
    <3>2. /\ sessState' \in [TaskIds -> Outcomes \cup {"active", None}]
          /\ loop' \in [Runs -> {"idle", "check", "work", "last"} \cup Ended]
      <4>1. /\ sessState \in [TaskIds -> Outcomes \cup {"active", None}]
            /\ outcome[r] \in Outcomes \cup {None}
            /\ loop \in [Runs -> {"idle", "check", "work", "last"} \cup Ended]
        OBVIOUS
      <4> HIDE DEF TypeInv, Runs, Outcomes
      <4>2. QED
        BY <3>1, <4>1
    <3>3. TypeOK'
      BY <3>1, <3>2
    <3>4. Launched'
      BY <3>1
    <3>5. QED
      BY <3>3, <3>4
  <2>10. CASE LoopReturn(r)
    BY <2>10 DEF LoopReturn
  <2>11. QED
    BY <1>6, <2>1, <2>2, <2>3, <2>4, <2>5, <2>6, <2>7, <2>8, <2>9, <2>10 DEF LoopStep
<1>7. ASSUME NEW r \in Runs, FwdStep(r)
      PROVE  TypeInv'
  <2>1. CASE FwdRecv(r)
    <3>1. /\ Head(ch[r]) \in EventKinds
          /\ Tail(ch[r]) \in Seq(EventKinds)
      BY <2>1, TakeType DEF FwdRecv
    <3>2. /\ ch' \in [Runs -> Seq(EventKinds)]
          /\ hand' \in [Runs -> EventKinds \cup {None}]
          /\ hand'[r] \in EventKinds
      BY <2>1, <3>1 DEF FwdRecv
    <3>3. credit' \in [Runs -> [Runs -> Nat]]
      <4>1. tmTask[runId[r]] \in Runs \cup {None}
        BY <2>1 DEF FwdRecv
      <4>2. \/ credit' = credit
            \/ \E q \in Runs : credit' = [credit EXCEPT ![q][r] = @ + 1]
        BY <2>1, <4>1 DEF FwdRecv
      <4>3. credit \in [Runs -> [Runs -> Nat]]
        OBVIOUS
      <4> HIDE DEF TypeInv, Runs
      <4>4. ASSUME NEW q \in Runs
            PROVE  [credit EXCEPT ![q][r] = @ + 1] \in [Runs -> [Runs -> Nat]]
        BY <4>3, CountUpNested
      <4>5. QED
        BY <4>2, <4>3, <4>4
    <3>4. /\ fwd[r] = "recv"
          /\ fwd' = [fwd EXCEPT ![r] = "send"]
          /\ \A q \in Runs \ {r} : hand'[q] = hand[q]
          /\ UNCHANGED <<clientVars, tmTask, tmState, caller, cancelCall, outCh,
                         engTask, engState, sessState, ctxDone, loop, unit, outcome, sent>>
      BY <2>1 DEF FwdRecv
    <3>5. TypeOK'
      BY <3>2, <3>3, <3>4
    <3>6. Launched'
      BY <3>2, <3>4
    <3>7. QED
      BY <3>5, <3>6
  <2>2. CASE FwdSend(r)
    <3>1. Append(outCh[r], hand[r]) \in Seq(EventKinds)
      <4>1. fwd[r] = "send"
        BY <2>2 DEF FwdSend
      <4>2. outCh[r] \in Seq(EventKinds) /\ hand[r] \in EventKinds
        BY <4>1
      <4> HIDE DEF TypeInv, Runs, EventKinds
      <4>3. QED
        BY <4>2
    <3>2. outCh' \in [Runs -> Seq(EventKinds)]
      BY <2>2, <3>1 DEF FwdSend
    <3>3. /\ hand' = [hand EXCEPT ![r] = None]
          /\ fwd[r] = "send"
          /\ fwd' \in {[fwd EXCEPT ![r] = "mark"], [fwd EXCEPT ![r] = "recv"]}
          /\ UNCHANGED <<clientVars, tmTask, tmState, credit, caller, cancelCall, engVars>>
      BY <2>2 DEF FwdSend
    <3>4. /\ hand' \in [Runs -> EventKinds \cup {None}]
          /\ fwd' \in [Runs -> {"idle", "recv", "send", "mark", "exited"}]
      BY <3>3
    <3>5. TypeOK'
      BY <3>2, <3>3, <3>4
    <3>6. Launched'
      BY <3>3
    <3>7. QED
      BY <3>5, <3>6
  <2>3. CASE FwdMark(r)
    BY <2>3 DEF FwdMark
  <2>4. CASE FwdEof(r)
    BY <2>4 DEF FwdEof
  <2>5. QED
    BY <1>7, <2>1, <2>2, <2>3, <2>4 DEF FwdStep
<1>8. ASSUME NEW r \in Runs, StreamStep(r)
      PROVE  TypeInv'
  <2>1. CASE StreamEvent(r)
    <3>1. Tail(outCh[r]) \in Seq(EventKinds)
      BY <2>1, TakeType DEF StreamEvent
    <3>2. outCh' \in [Runs -> Seq(EventKinds)]
      BY <2>1, <3>1 DEF StreamEvent
    <3>3. /\ stream[r] = "reading"
          /\ stream' \in {[stream EXCEPT ![r] = "reading"], [stream EXCEPT ![r] = "complete"], [stream EXCEPT ![r] = "exited"]}
          /\ UNCHANGED <<closed, runId, owner, info, tmTask, tmState, credit, caller,
                         cancelCall, fwd, hand, engVars>>
      BY <2>1 DEF StreamEvent
    <3>4. got' \in [Runs -> Nat]
      <4>1. got' = got \/ got' = [got EXCEPT ![r] = @ + 1]
        BY <2>1 DEF StreamEvent
      <4>2. got \in [Runs -> Nat]
        OBVIOUS
      <4> HIDE DEF TypeInv, Runs
      <4>3. QED
        BY <4>1, <4>2, CountUp
    <3>5. stream' \in [Runs -> {"idle", "reading", "complete", "exited"}]
      <4>1. stream \in [Runs -> {"idle", "reading", "complete", "exited"}]
        OBVIOUS
      <4> HIDE DEF TypeInv, Runs
      <4>2. QED
        BY <3>3, <4>1
    <3>6. TypeOK'
      BY <3>2, <3>3, <3>4, <3>5
    <3>7. Launched'
      BY <3>3
    <3>8. QED
      BY <3>6, <3>7
  <2>2. CASE StreamComplete(r)
    <3>1. tmTask[runId[r]] \in Runs \cup {None}
      BY <2>2 DEF StreamComplete
    <3>2. info' \in [Runs -> Runs \cup {NoEntry, None}]
      BY <2>2, <3>1 DEF StreamComplete
    <3>3. /\ stream[r] = "complete"
          /\ stream' = [stream EXCEPT ![r] = "exited"]
          /\ UNCHANGED <<closed, runId, owner, got, tmVars, engVars>>
      BY <2>2 DEF StreamComplete
    <3>4. QED
      BY <3>2, <3>3
  <2>3. CASE StreamQuit(r)
    BY <2>3 DEF StreamQuit
  <2>4. QED
    BY <1>8, <2>1, <2>2, <2>3 DEF StreamStep
<1>9. CASE UNCHANGED vars
  BY <1>9 DEF vars
<1>10. QED
  BY <1>1, <1>2, <1>3, <1>4, <1>5, <1>6, <1>7, <1>8, <1>9
     DEF Next, StartTask, RetryTask

\* Every state the tasks reach has the types of TypeOK.
THEOREM TypeCorrect == Spec => []TypeOK
<1>1. TypeInv => TypeOK
  BY DEF TypeInv
<1>2. QED
  BY <1>1, InitType, NextType, PTL DEF Spec

LEMMA TypeInvariant == Spec => []TypeInv
BY InitType, NextType, PTL DEF Spec

-----------------------------------------------------------------------------
(***************************************************************************)
(* CompletedMeansFinished.  The manager learns that a run is completed     *)
(* from a done event or a closed channel, so the invariant follows the     *)
(* done event from the loop to the manager: wherever it is, the loop has   *)
(* ended.                                                                  *)
(***************************************************************************)

DoneMeansEnded ==
  \A r \in Runs :
    /\ \A k \in 1 .. Len(ch[r]) : ch[r][k] = "done" => loop[r] \in Ended
    /\ hand[r] = "done" => loop[r] \in Ended
    /\ fwd[r] = "mark" => loop[r] \in Ended
    /\ tmState[r] = "completed" => loop[r] \in Ended

\* What appending to and taking from a channel does to its elements.
LEMMA AppendElements ==
  ASSUME NEW S, NEW q \in Seq(S), NEW e \in S, NEW k \in 1 .. Len(Append(q, e))
  PROVE  \/ k \in 1 .. Len(q) /\ Append(q, e)[k] = q[k]
         \/ Append(q, e)[k] = e
OBVIOUS

LEMMA TailElements ==
  ASSUME NEW S, NEW q \in Seq(S), q # <<>>
  PROVE  /\ 1 \in 1 .. Len(q) /\ Head(q) = q[1]
         /\ \A k \in 1 .. Len(Tail(q)) : k + 1 \in 1 .. Len(q) /\ Tail(q)[k] = q[k + 1]
OBVIOUS

\* What a step of the loop of r does to the state the arguments below look at.
\* It ends the loop once, with a state it has chosen, and says done at the end only.
LoopFrame(r) ==
  /\ UNCHANGED <<fwd, hand, tmState, engTask, runId>>
  /\ \A q \in Runs \ {r} : loop'[q] = loop[q] /\ outcome'[q] = outcome[q] /\ ch'[q] = ch[q]
  /\ loop[r] \in Ended => loop'[r] \in Ended
  /\ outcome'[r] = outcome[r] \/ outcome'[r] \in Outcomes
  /\ loop'[r] \in Ended => loop[r] \in Ended \/ outcome'[r] \in Outcomes
  /\ loop'[r] \in Ended \ {"settle"} => loop[r] \in Ended \ {"settle"} \/ LoopSettle(r)
  /\ \/ ch'[r] = ch[r]
     \/ \E kind \in EventKinds : /\ ch'[r] = Append(ch[r], kind)
                                 /\ kind = "done" => loop'[r] \in Ended

LEMMA EmitLastFrame ==
  ASSUME TypeInv, NEW r \in Runs, NEW kind \in EventKinds, NEW state \in Outcomes,
         EmitLast(r, kind, state), loop[r] \notin Ended
  PROVE  LoopFrame(r)
<1>1. /\ loop' = [loop EXCEPT ![r] = "settle"] /\ loop \in [Runs -> {"idle", "check", "work", "last"} \cup Ended]
      /\ outcome' = [outcome EXCEPT ![r] = state] /\ outcome \in [Runs -> Outcomes \cup {None}]
      /\ ch' = [ch EXCEPT ![r] = Append(@, kind)] /\ ch \in [Runs -> Seq(EventKinds)]
      /\ UNCHANGED <<fwd, hand, tmState, engTask, runId>>
  BY DEF EmitLast, Emit, TypeInv, TypeOK, clientVars, tmVars
<1>2. QED
  BY <1>1 DEF LoopFrame, Ended

LEMMA LoopStepFrame ==
  ASSUME TypeInv, NEW r \in Runs, LoopStep(r)
  PROVE  LoopFrame(r)
<1>1. /\ loop \in [Runs -> {"idle", "check", "work", "last"} \cup Ended]
      /\ ch \in [Runs -> Seq(EventKinds)]
  BY DEF TypeInv, TypeOK
<1>2. {"canceled", "failed", "completed"} \subseteq Outcomes /\ {"progress", "error", "done"} \subseteq EventKinds
  BY DEF Outcomes, TaskStates, EventKinds
<1>3. CASE LoopContinue(r)
  BY <1>1, <1>3 DEF LoopContinue, LoopFrame, Ended, clientVars, tmVars
<1>4. CASE LoopCanceled(r)
  BY <1>2, <1>4, EmitLastFrame DEF LoopCanceled, Ended
<1>5. CASE LoopProgress(r)
  BY <1>1, <1>2, <1>5 DEF LoopProgress, Emit, LoopFrame, Ended, clientVars, tmVars
<1>6. CASE LoopFail(r)
  BY <1>2, <1>6, EmitLastFrame DEF LoopFail, Ended
<1>7. CASE LoopDone(r)
  BY <1>2, <1>7, EmitLastFrame DEF LoopDone, Ended
<1>8. CASE LoopExhausted(r)
  BY <1>1, <1>2, <1>8 DEF LoopExhausted, Emit, LoopFrame, Ended, clientVars, tmVars
<1>9. CASE LoopLast(r)
  BY <1>2, <1>9, EmitLastFrame DEF LoopLast, Ended
<1>10. CASE LoopSettle(r)
  BY <1>1, <1>10 DEF LoopSettle, LoopFrame, Ended, clientVars, tmVars
<1>11. CASE LoopRecord(r)
  BY <1>1, <1>11 DEF LoopRecord, LoopFrame, Ended, clientVars, tmVars
<1>12. CASE LoopReturn(r)
  BY <1>1, <1>12 DEF LoopReturn, LoopFrame, Ended, clientVars, tmVars
<1>13. QED
  BY <1>3, <1>4, <1>5, <1>6, <1>7, <1>8, <1>9, <1>10, <1>11, <1>12 DEF LoopStep

\* A step of the loop: it emits nothing but done at its end, and stays ended.
LEMMA LoopKeepsDone ==
  ASSUME TypeInv, DoneMeansEnded, NEW r \in Runs, LoopStep(r)
  PROVE  DoneMeansEnded'
<1>1. UNCHANGED <<fwd, hand, tmState>>
  BY LoopStepFrame DEF LoopFrame
<1>2. \A q \in Runs \ {r} : loop'[q] = loop[q] /\ ch'[q] = ch[q]
  BY LoopStepFrame DEF LoopFrame
<1>3. loop[r] \in Ended => loop'[r] \in Ended
  BY LoopStepFrame DEF LoopFrame
<1>4. \/ ch'[r] = ch[r]
      \/ \E kind \in EventKinds : /\ ch'[r] = Append(ch[r], kind)
                                  /\ kind = "done" => loop'[r] \in Ended
  BY LoopStepFrame DEF LoopFrame
<1>5. ch[r] \in Seq(EventKinds)
  BY DEF TypeInv, TypeOK
<1>6. ASSUME NEW k \in 1 .. Len(ch'[r]), ch'[r][k] = "done"
      PROVE  loop'[r] \in Ended
  <2>1. CASE ch'[r] = ch[r]
    BY <1>3, <1>6, <2>1 DEF DoneMeansEnded
  <2>2. ASSUME NEW kind \in EventKinds, ch'[r] = Append(ch[r], kind),
               kind = "done" => loop'[r] \in Ended
        PROVE  loop'[r] \in Ended
    BY <1>3, <1>5, <1>6, <2>2, AppendElements DEF DoneMeansEnded
  <2>3. QED
    BY <1>4, <2>1, <2>2
<1>7. QED
  BY <1>1, <1>2, <1>3, <1>6 DEF DoneMeansEnded

\* A step of the forwarder: it carries done on, and marks only what has ended.
LEMMA FwdKeepsDone ==
  ASSUME TypeInv, DoneMeansEnded, NEW r \in Runs, FwdStep(r)
  PROVE  DoneMeansEnded'
<1> USE DEF TypeInv, TypeOK, DoneMeansEnded, engVars, Ended
<1>1. CASE FwdRecv(r)
  <2>1. ch[r] \in Seq(EventKinds) /\ ch[r] # <<>>
    BY <1>1 DEF FwdRecv
  <2>2. hand'[r] = ch[r][1] /\ 1 \in 1 .. Len(ch[r])
    BY <1>1, <2>1, TailElements DEF FwdRecv
  <2>3. /\ ch'[r] = Tail(ch[r])
        /\ \A q \in Runs \ {r} : ch'[q] = ch[q] /\ hand'[q] = hand[q]
        /\ UNCHANGED <<loop, tmState>>
        /\ \A q \in Runs : fwd'[q] = "mark" => fwd[q] = "mark"
    BY <1>1 DEF FwdRecv
  <2>4. \A k \in 1 .. Len(ch'[r]) : ch'[r][k] = "done" => loop[r] \in Ended
    BY <2>1, <2>3, TailElements
  <2>5. hand'[r] = "done" => loop[r] \in Ended
    BY <2>2
  <2>6. ASSUME NEW q \in Runs
        PROVE  /\ \A k \in 1 .. Len(ch'[q]) : ch'[q][k] = "done" => loop'[q] \in Ended
               /\ hand'[q] = "done" => loop'[q] \in Ended
               /\ fwd'[q] = "mark" => loop'[q] \in Ended
               /\ tmState'[q] = "completed" => loop'[q] \in Ended
    <3> HIDE DEF TypeInv, TypeOK, Ended
    <3>1. CASE q = r
      BY <2>3, <2>4, <2>5, <3>1
    <3>2. CASE q # r
      BY <2>3, <3>2
    <3>3. QED
      BY <3>1, <3>2
  <2>7. QED
    BY <2>6
<1>2. CASE FwdSend(r)
  <2>1. /\ hand' = [hand EXCEPT ![r] = None]
        /\ fwd[r] = "send" /\ fwd' = [fwd EXCEPT ![r] = IF hand[r] = "done" THEN "mark" ELSE "recv"]
        /\ UNCHANGED <<loop, ch, tmState>>
    BY <1>2 DEF FwdSend
  <2>2. QED
    BY <2>1, NoneAssumption DEF EventKinds
<1>3. CASE FwdMark(r)
  BY <1>3 DEF FwdMark
<1>4. CASE FwdEof(r)
  BY <1>4 DEF FwdEof, ChClosed
<1>5. QED
  BY <1>1, <1>2, <1>3, <1>4 DEF FwdStep

LEMMA NextDone ==
  ASSUME TypeInv, DoneMeansEnded, [Next]_vars
  PROVE  DoneMeansEnded'
<1> USE NoneAssumption DEF TypeInv, TypeOK, Launched, DoneMeansEnded, clientVars, tmVars, engVars, Ended
<1>1. ASSUME NEW i \in TaskIds, NEW c \in Conns, NEW r \in Runs, Register(i, c, r)
      PROVE  DoneMeansEnded'
  BY <1>1 DEF Register
<1>2. ASSUME NEW i \in TaskIds, CancelTask(i)
      PROVE  DoneMeansEnded'
  BY <1>2 DEF CancelTask
<1>3. ASSUME NEW c \in Conns, Disconnect(c)
      PROVE  DoneMeansEnded'
  BY <1>3 DEF Disconnect
<1>4. ASSUME NEW r \in Runs, CallerStep(r)
      PROVE  DoneMeansEnded'
  <2>1. CASE Launch(r)
    <3>1. /\ loop[r] = "idle" /\ fwd[r] = "idle"
          /\ loop' = [loop EXCEPT ![r] = "check"] /\ fwd' = [fwd EXCEPT ![r] = "recv"]
          /\ UNCHANGED <<ch, hand, tmState>>
      BY <2>1 DEF Launch
    <3>2. \A q \in Runs : /\ loop[q] \in Ended => loop'[q] \in Ended
                          /\ fwd'[q] = "mark" => fwd[q] = "mark"
      BY <3>1
    <3>3. QED
      BY <3>1, <3>2
  <2>2. CASE ~Launch(r)
    <3>1. UNCHANGED <<loop, ch, fwd, hand, tmState>>
      BY <1>4, <2>2 DEF CallerStep, ProviderMissing, OpenSession, Guard, Unregister
    <3>2. QED
      BY <3>1
  <2>3. QED
    BY <2>1, <2>2
<1>5. ASSUME NEW r \in Runs, RunnerCancel(r)
      PROVE  DoneMeansEnded'
  BY <1>5 DEF RunnerCancel
<1>6. ASSUME NEW r \in Runs, StreamStep(r)
      PROVE  DoneMeansEnded'
  <2>1. UNCHANGED <<loop, ch, fwd, hand, tmState>>
    BY <1>6 DEF StreamStep, StreamEvent, StreamComplete, StreamQuit
  <2>2. QED
    BY <2>1
<1>7. CASE UNCHANGED vars
  BY <1>7 DEF vars
<1>8. QED
  BY <1>1, <1>2, <1>3, <1>4, <1>5, <1>6, <1>7, LoopKeepsDone, FwdKeepsDone, RetryAssumption
     DEF Next, StartTask, RetryTask

\* A task the manager calls completed has no agent at work.
THEOREM CompletedFinished == Spec => []CompletedMeansFinished
<1>1. Init => DoneMeansEnded
  BY NoneAssumption DEF Init, DoneMeansEnded, TaskStates, EventKinds
<1>2. DoneMeansEnded => CompletedMeansFinished
  BY DEF DoneMeansEnded, CompletedMeansFinished
<1>3. QED
  BY <1>1, <1>2, NextDone, TypeInvariant, PTL DEF Spec

-----------------------------------------------------------------------------
(***************************************************************************)
(* FinishedRunFreesItsId.  In the engine's table a run that has reported   *)
(* its state is not running as long as the entry is its own; a report of   *)
(* another run under the same ID cannot make it running again.             *)
(***************************************************************************)

Settled ==
  \A r \in Runs :
    /\ fwd[r] = "exited" => tmState[r] # "running"
    /\ loop[r] \in Ended => outcome[r] \in Outcomes
    /\ loop[r] \in Ended \ {"settle"} /\ engTask[runId[r]] = r => engState[r] # "running"

\* Cancel and the loop's report write a finished state, whichever entry they find.
LEMMA CancelRevivesNone ==
  ASSUME TypeInv, NEW r \in Runs, RunnerCancel(r), NEW q \in Runs, engState'[q] = "running"
  PROVE  engState[q] = "running"
<1>1. engState \in [Runs -> TaskStates \cup {None}]
  BY DEF TypeInv, TypeOK
<1>2. \/ engState' = engState
      \/ engState' = [engState EXCEPT ![engTask[runId[r]]] = "canceled"]
  BY DEF RunnerCancel
<1>3. QED
  BY <1>1, <1>2

LEMMA SettleRevivesNone ==
  ASSUME TypeInv, Settled, NEW r \in Runs, LoopSettle(r), NEW q \in Runs, engState'[q] = "running"
  PROVE  engState[q] = "running"
<1>1. engState \in [Runs -> TaskStates \cup {None}]
  BY DEF TypeInv, TypeOK
<1>2. outcome[r] \in Outcomes
  BY DEF LoopSettle, Settled, Ended
<1>3. \/ engState' = engState
      \/ engState' = [engState EXCEPT ![engTask[runId[r]]] = outcome[r]]
  BY DEF LoopSettle
<1>4. QED
  BY <1>1, <1>2, <1>3 DEF Outcomes

\* A report changes no entry but the one it finds, and that not to running.
LEMMA LoopKeepsSettled ==
  ASSUME TypeInv, Settled, NEW r \in Runs, LoopStep(r)
  PROVE  Settled'
<1>1. UNCHANGED <<fwd, tmState, engTask, runId>>
  BY LoopStepFrame DEF LoopFrame
<1>2. \A q \in Runs \ {r} : loop'[q] = loop[q] /\ outcome'[q] = outcome[q]
  BY LoopStepFrame DEF LoopFrame
<1>3. loop'[r] \in Ended => outcome'[r] \in Outcomes
  BY LoopStepFrame DEF LoopFrame, Settled
<1>4. \A q \in Runs : engState'[q] = "running" => engState[q] = "running"
  <2>1. CASE LoopSettle(r)
    BY <2>1, SettleRevivesNone
  <2>2. CASE LoopReturn(r)
    <3>1. engState \in [Runs -> TaskStates \cup {None}]
      BY DEF TypeInv, TypeOK
    <3>2. \/ engState' = engState
          \/ engState' = [engState EXCEPT ![engTask[runId[r]]] = "failed"]
      BY <2>2 DEF LoopReturn
    <3>3. QED
      BY <3>1, <3>2
  <2>3. CASE ~LoopSettle(r) /\ ~LoopReturn(r)
    <3>1. UNCHANGED engState
      BY <2>3 DEF LoopStep, LoopContinue, LoopCanceled, LoopProgress, LoopFail, LoopDone,
         LoopExhausted, LoopLast, LoopRecord, EmitLast
    <3>2. QED
      BY <3>1
  <2>4. QED
    BY <2>1, <2>2, <2>3
<1>5. \/ loop'[r] \notin Ended \ {"settle"}
      \/ loop[r] \in Ended \ {"settle"}
      \/ loop[r] = "settle" /\ LoopSettle(r)
  BY LoopStepFrame DEF LoopFrame, LoopSettle
<1>6. ASSUME loop[r] = "settle", LoopSettle(r), engTask[runId[r]] = r
      PROVE  engState'[r] # "running"
  <2>1. engState' = [engState EXCEPT ![r] = outcome[r]] /\ engState \in [Runs -> TaskStates \cup {None}]
    BY <1>6, NoneAssumption DEF LoopSettle, Runs, TypeInv, TypeOK
  <2>2. outcome[r] # "running"
    BY <1>6 DEF Settled, Ended, Outcomes
  <2>3. QED
    BY <2>1, <2>2
<1>7. ASSUME NEW q \in Runs
      PROVE  /\ fwd'[q] = "exited" => tmState'[q] # "running"
             /\ loop'[q] \in Ended => outcome'[q] \in Outcomes
             /\ loop'[q] \in Ended \ {"settle"} /\ engTask'[runId'[q]] = q =>
                  engState'[q] # "running"
  BY <1>1, <1>2, <1>3, <1>4, <1>5, <1>6 DEF Settled
<1>8. QED
  BY <1>7 DEF Settled

LEMMA NextSettled ==
  ASSUME TypeInv, Settled, [Next]_vars
  PROVE  Settled'
<1> USE NoneAssumption DEF TypeInv, TypeOK, Launched, Settled, clientVars, tmVars, engVars, Ended, Runs
<1>1. ASSUME NEW i \in TaskIds, NEW c \in Conns, NEW r \in Runs, Register(i, c, r)
      PROVE  Settled'
  <2>1. /\ tmState' = [tmState EXCEPT ![r] = "running"] /\ runId' = [runId EXCEPT ![r] = i]
        /\ caller[r] = "idle"
        /\ UNCHANGED <<fwd, loop, outcome, engTask, engState>>
    BY <1>1 DEF Register
  <2>2. loop[r] = "idle" /\ fwd[r] = "idle"
    BY <2>1
  <2>3. QED
    BY <2>1, <2>2
<1>2. ASSUME NEW i \in TaskIds, CancelTask(i)
      PROVE  Settled'
  BY <1>2 DEF CancelTask
<1>3. ASSUME NEW c \in Conns, Disconnect(c)
      PROVE  Settled'
  BY <1>3 DEF Disconnect
<1>4. ASSUME NEW r \in Runs, CallerStep(r)
      PROVE  Settled'
  <2>1. CASE Launch(r)
    <3>1. /\ loop' = [loop EXCEPT ![r] = "check"] /\ fwd' = [fwd EXCEPT ![r] = "recv"]
          /\ engTask' = [engTask EXCEPT ![runId[r]] = r]
          /\ engState' = [engState EXCEPT ![r] = "running"]
          /\ UNCHANGED <<tmState, outcome, runId>>
      BY <2>1 DEF Launch
    <3>2. ASSUME NEW q \in Runs, q # r
          PROVE  /\ fwd'[q] = fwd[q] /\ loop'[q] = loop[q] /\ engState'[q] = engState[q]
                 /\ engTask'[runId'[q]] = q => engTask[runId[q]] = q
      BY <3>1, <3>2
    <3>3. fwd'[r] = "recv" /\ loop'[r] = "check"
      BY <3>1
    <3>4. QED
      BY <3>1, <3>2, <3>3
  <2>2. CASE ~Launch(r)
    <3>1. UNCHANGED <<fwd, tmState, loop, outcome, engTask, engState, runId>>
      BY <1>4, <2>2 DEF CallerStep, ProviderMissing, OpenSession, Guard, Unregister
    <3>2. QED
      BY <3>1
  <2>3. QED
    BY <2>1, <2>2
<1>5. ASSUME NEW r \in Runs, RunnerCancel(r)
      PROVE  Settled'
  <2>1. UNCHANGED <<fwd, tmState, loop, outcome, engTask, runId>>
    BY <1>5 DEF RunnerCancel
  <2>2. \A q \in Runs : engState'[q] = "running" => engState[q] = "running"
    BY <1>5, CancelRevivesNone
  <2> HIDE DEF TypeInv, TypeOK, Launched
  <2>3. QED
    BY <2>1, <2>2
<1>6. ASSUME NEW r \in Runs, FwdStep(r)
      PROVE  Settled'
  <2>1. CASE FwdRecv(r)
    BY <2>1 DEF FwdRecv
  <2>2. CASE FwdSend(r)
    BY <2>2 DEF FwdSend
  <2>3. CASE FwdMark(r)
    BY <2>3 DEF FwdMark
  <2>4. CASE FwdEof(r)
    BY <2>4 DEF FwdEof
  <2>5. QED
    BY <1>6, <2>1, <2>2, <2>3, <2>4 DEF FwdStep
<1>7. ASSUME NEW r \in Runs, StreamStep(r)
      PROVE  Settled'
  BY <1>7 DEF StreamStep, StreamEvent, StreamComplete, StreamQuit
<1>8. CASE UNCHANGED vars
  BY <1>8 DEF vars
<1>9. QED
  BY <1>1, <1>2, <1>3, <1>4, <1>5, <1>6, <1>7, <1>8, LoopKeepsSettled, RetryAssumption
     DEF Next, StartTask, RetryTask

\* A run whose goroutines are gone keeps its ID busy in neither table.
THEOREM FinishedFreesId == Spec => []FinishedRunFreesItsId
<1>1. Init => Settled
  BY NoneAssumption DEF Init, Settled, Ended, TaskStates
<1>2. Settled => FinishedRunFreesItsId
  BY DEF Settled, FinishedRunFreesItsId, Ended
<1>3. QED
  BY <1>1, <1>2, NextSettled, TypeInvariant, PTL DEF Spec

-----------------------------------------------------------------------------
(***************************************************************************)
(* IdleSessionIsClosed.  A session that is active has a run that is to     *)
(* record its outcome in it: the one that opened it, or, where the guard   *)
(* has refused that one, the one the guard found running.                  *)
(***************************************************************************)
WillRecord(r) ==
  \/ caller[r] \in {"guard", "insert"}
  \/ loop[r] \in {"check", "work", "last", "settle", "record"}

ActiveInv ==
  /\ \A i \in TaskIds : engTask[i] # None => /\ runId[engTask[i]] = i
                                             /\ loop[engTask[i]] # "idle"
  /\ \A i \in TaskIds : sessState[i] = "active" => \E r \in Runs : runId[r] = i /\ WillRecord(r)

\* The entries of the engine's table are of launched runs, which keep their ID.
LEMMA SameTable ==
  ASSUME TypeInv, ActiveInv, UNCHANGED engTask,
         \A r \in Runs : caller[r] # "idle" => runId'[r] = runId[r],
         \A r \in Runs : loop[r] # "idle" => loop'[r] # "idle"
  PROVE  \A i \in TaskIds : engTask'[i] # None => /\ runId'[engTask'[i]] = i
                                                 /\ loop'[engTask'[i]] # "idle"
<1> SUFFICES ASSUME NEW i \in TaskIds, engTask[i] # None
             PROVE  runId'[engTask[i]] = i /\ loop'[engTask[i]] # "idle"
  OBVIOUS
<1>1. engTask[i] \in Runs
  BY DEF TypeInv, TypeOK
<1>2. caller[engTask[i]] # "idle"
  BY <1>1 DEF ActiveInv, TypeInv, Launched
<1>3. QED
  BY <1>1, <1>2 DEF ActiveInv

\* A step that activates no session, and after which who was to record still is.
LEMMA SameSessions ==
  ASSUME ActiveInv, UNCHANGED sessState,
         \A r \in Runs : WillRecord(r) => runId'[r] = runId[r] /\ WillRecord(r)'
  PROVE  \A i \in TaskIds : sessState'[i] = "active" => \E r \in Runs : runId'[r] = i /\ WillRecord(r)'
<1> SUFFICES ASSUME NEW i \in TaskIds, sessState[i] = "active"
             PROVE  \E r \in Runs : runId'[r] = i /\ WillRecord(r)'
  OBVIOUS
<1>1. PICK r \in Runs : runId[r] = i /\ WillRecord(r)
  BY DEF ActiveInv
<1>2. QED
  BY <1>1

LEMMA LoopKeepsActive ==
  ASSUME TypeInv, Settled, ActiveInv, NEW r \in Runs, LoopStep(r)
  PROVE  ActiveInv'
<1>1. loop \in [Runs -> {"idle", "check", "work", "last"} \cup Ended]
  BY DEF TypeInv, TypeOK
<1>2. UNCHANGED <<caller, runId, engTask>>
  BY DEF LoopStep, LoopContinue, LoopCanceled, LoopProgress, LoopFail, LoopDone, LoopExhausted,
         LoopLast, LoopSettle, LoopRecord, LoopReturn, EmitLast, clientVars, tmVars
<1>3. \E l \in {"check", "work", "last"} \cup Ended : loop' = [loop EXCEPT ![r] = l]
  BY DEF LoopStep, LoopContinue, LoopCanceled, LoopProgress, LoopFail, LoopDone, LoopExhausted,
         LoopLast, LoopSettle, LoopRecord, LoopReturn, EmitLast, Ended
<1>4. \A q \in Runs : loop[q] # "idle" => loop'[q] # "idle"
  BY <1>1, <1>3 DEF Ended
<1>5. CASE LoopRecord(r)
  <2>1. outcome[r] # "active"
    BY <1>5 DEF LoopRecord, Settled, Ended, Outcomes, TaskStates
  <2>2. sessState' = [sessState EXCEPT ![runId[r]] = outcome[r]] /\ loop' = [loop EXCEPT ![r] = "return"]
    BY <1>5 DEF LoopRecord
  <2>3. ASSUME NEW i \in TaskIds, sessState'[i] = "active"
        PROVE  \E q \in Runs : runId'[q] = i /\ WillRecord(q)'
    <3>1. sessState \in [TaskIds -> Outcomes \cup {"active", None}]
      BY DEF TypeInv, TypeOK
    <3>2. runId[r] # i /\ sessState[i] = "active"
      BY <2>1, <2>2, <2>3, <3>1
    <3>3. PICK q \in Runs : runId[q] = i /\ WillRecord(q)
      BY <3>2 DEF ActiveInv
    <3>4. q # r /\ loop'[q] = loop[q]
      BY <1>1, <2>2, <3>2, <3>3
    <3>5. QED
      BY <1>2, <3>3, <3>4 DEF WillRecord
  <2>4. QED
    BY <1>2, <1>4, <2>3, SameTable DEF ActiveInv
<1>6. CASE ~LoopRecord(r)
  <2>1. UNCHANGED sessState
    BY <1>6 DEF LoopStep, LoopContinue, LoopCanceled, LoopProgress, LoopFail, LoopDone, LoopExhausted,
           LoopLast, LoopSettle, LoopReturn, EmitLast
  <2>2. \/ loop[r] = "return" /\ loop' = [loop EXCEPT ![r] = "exited"]
        \/ \E l \in {"check", "work", "last", "settle", "record"} : loop' = [loop EXCEPT ![r] = l]
    BY <1>6 DEF LoopStep, LoopContinue, LoopCanceled, LoopProgress, LoopFail, LoopDone, LoopExhausted,
           LoopLast, LoopSettle, LoopReturn, EmitLast
  <2>3. \A q \in Runs : WillRecord(q) => WillRecord(q)'
    BY <1>1, <1>2, <2>2 DEF WillRecord
  <2>4. QED
    BY <1>2, <1>4, <2>1, <2>3, SameTable, SameSessions DEF ActiveInv
<1>7. QED
  BY <1>5, <1>6

LEMMA CallerKeepsActive ==
  ASSUME TypeInv, Settled, ActiveInv, NEW r \in Runs, CallerStep(r)
  PROVE  ActiveInv'
<1> USE NoneAssumption
<1>1. /\ loop \in [Runs -> {"idle", "check", "work", "last"} \cup Ended]
      /\ caller \in [Runs -> {"idle", "resolve", "guard", "insert", "undo", "rejected", "started"}]
      /\ engTask \in [TaskIds -> Runs \cup {None}]
      /\ sessState \in [TaskIds -> Outcomes \cup {"active", None}]
  BY DEF TypeInv, TypeOK
<1>2. runId' = runId /\ caller[r] # "idle" /\ runId[r] \in TaskIds
  BY DEF CallerStep, ProviderMissing, OpenSession, Guard, Launch, Unregister, clientVars, TypeInv, Launched
<1>3. CASE ProviderMissing(r) \/ Unregister(r)
  <2>1. \A q \in Runs : WillRecord(q) => WillRecord(q)'
    BY <1>1, <1>3 DEF ProviderMissing, Unregister, WillRecord, engVars
  <2>2. UNCHANGED <<loop, engTask, sessState>>
    BY <1>3 DEF ProviderMissing, Unregister, engVars
  <2>3. QED
    BY <1>2, <2>1, <2>2, SameTable, SameSessions DEF ActiveInv
<1>4. CASE OpenSession(r)
  <2>1. /\ UNCHANGED <<loop, engTask>>
        /\ caller' = [caller EXCEPT ![r] = "guard"]
        /\ sessState' = [sessState EXCEPT ![runId[r]] = "active"]
        /\ caller[r] = "resolve"
    BY <1>4 DEF OpenSession
  <2>2. \A q \in Runs : WillRecord(q) => WillRecord(q)'
    BY <1>1, <2>1 DEF WillRecord
  <2>3. WillRecord(r)'
    BY <1>1, <2>1 DEF WillRecord
  <2>4. \A i \in TaskIds : sessState'[i] = "active" => \E q \in Runs : runId'[q] = i /\ WillRecord(q)'
    <3>1. ASSUME NEW i \in TaskIds, sessState'[i] = "active", i # runId[r]
          PROVE  \E q \in Runs : runId'[q] = i /\ WillRecord(q)'
      BY <1>1, <1>2, <2>1, <2>2, <3>1 DEF ActiveInv
    <3>2. QED
      BY <1>2, <2>3, <3>1
  <2>5. QED
    BY <1>2, <2>1, <2>4, SameTable DEF ActiveInv
<1>5. CASE Guard(r)
  <2>1. UNCHANGED <<loop, engTask, sessState>> /\ caller[r] = "guard"
    BY <1>5 DEF Guard, engVars
  <2>2. CASE EngineBusy(runId[r])
    <3>0. PICK q \in Runs : q = engTask[runId[r]]
      BY <1>1, <1>2, <2>2 DEF EngineBusy
    <3>1. /\ q \in Runs /\ runId[q] = runId[r]
          /\ engState[q] = "running" /\ loop[q] # "idle"
      BY <1>1, <1>2, <2>2, <3>0 DEF EngineBusy, ActiveInv
    <3>2. loop[q] \in {"check", "work", "last", "settle", "record"}
      BY <1>1, <3>0, <3>1 DEF Settled, Ended
    <3>3. WillRecord(q)' /\ runId'[q] = runId[r]
      BY <1>2, <2>1, <3>1, <3>2 DEF WillRecord
    <3>4. \A p \in Runs \ {r} : WillRecord(p) => WillRecord(p)'
      BY <1>1, <1>5, <2>1 DEF Guard, WillRecord
    <3>5. \A i \in TaskIds : sessState'[i] = "active" => \E p \in Runs : runId'[p] = i /\ WillRecord(p)'
      <4>1. ASSUME NEW i \in TaskIds, sessState'[i] = "active", i # runId[r]
            PROVE  \E p \in Runs : runId'[p] = i /\ WillRecord(p)'
        <5>1. PICK p \in Runs : runId[p] = i /\ WillRecord(p)
          BY <2>1, <4>1 DEF ActiveInv
        <5>2. QED
          BY <1>2, <3>4, <4>1, <5>1
      <4>2. ASSUME sessState'[runId[r]] = "active"
            PROVE  \E p \in Runs : runId'[p] = runId[r] /\ WillRecord(p)'
        BY <3>1, <3>3
      <4>3. QED
        BY <4>1, <4>2
    <3>6. QED
      BY <1>2, <2>1, <3>5, SameTable DEF ActiveInv
  <2>3. CASE ~EngineBusy(runId[r])
    <3>1. caller' = [caller EXCEPT ![r] = "insert"]
      BY <1>5, <2>3 DEF Guard
    <3>2. \A q \in Runs : WillRecord(q) => WillRecord(q)'
      BY <1>1, <2>1, <3>1 DEF WillRecord
    <3>3. QED
      BY <1>2, <2>1, <3>2, SameTable, SameSessions DEF ActiveInv
  <2>4. QED
    BY <2>2, <2>3
<1>6. CASE Launch(r)
  <2>1. /\ loop' = [loop EXCEPT ![r] = "check"] /\ caller' = [caller EXCEPT ![r] = "started"]
        /\ engTask' = [engTask EXCEPT ![runId[r]] = r] /\ UNCHANGED sessState
    BY <1>6 DEF Launch
  <2>2. \A q \in Runs : WillRecord(q) => WillRecord(q)'
    BY <1>1, <2>1 DEF WillRecord
  <2>3. ASSUME NEW i \in TaskIds, engTask'[i] # None
        PROVE  runId'[engTask'[i]] = i /\ loop'[engTask'[i]] # "idle"
    <3>1. CASE i = runId[r]
      BY <1>1, <1>2, <2>1, <3>1
    <3>2. CASE i # runId[r]
      BY <1>1, <1>2, <2>1, <2>3, <3>2 DEF ActiveInv
    <3>3. QED
      BY <3>1, <3>2
  <2>4. QED
    BY <1>2, <2>1, <2>2, <2>3, SameSessions DEF ActiveInv
<1>7. QED
  BY <1>3, <1>4, <1>5, <1>6 DEF CallerStep

LEMMA NextActive ==
  ASSUME TypeInv, Settled, ActiveInv, [Next]_vars
  PROVE  ActiveInv'
<1>1. ASSUME NEW i \in TaskIds, NEW c \in Conns, NEW r \in Runs, Register(i, c, r)
      PROVE  ActiveInv'
  <2>1. /\ runId' = [runId EXCEPT ![r] = i] /\ caller[r] = "idle"
        /\ caller' = [caller EXCEPT ![r] = "resolve"]
        /\ UNCHANGED <<loop, engTask, sessState>>
    BY <1>1 DEF Register, engVars
  <2>2. loop[r] = "idle" /\ ~WillRecord(r)
    BY <2>1 DEF TypeInv, Launched, WillRecord
  <2>3. \A q \in Runs : q # r => runId'[q] = runId[q] /\ caller'[q] = caller[q]
    BY <2>1 DEF TypeInv, TypeOK
  <2>4. QED
    BY <2>1, <2>2, <2>3, SameTable, SameSessions DEF ActiveInv, WillRecord
<1>2. ASSUME UNCHANGED <<runId, caller, loop, engTask, sessState>>
      PROVE  ActiveInv'
  <2>1. \A r \in Runs : WillRecord(r) => WillRecord(r)'
    BY <1>2 DEF WillRecord
  <2>2. QED
    BY <1>2, <2>1, SameTable, SameSessions DEF ActiveInv
<1>3. ASSUME NEW r \in Runs, FwdStep(r) \/ StreamStep(r) \/ RunnerCancel(r)
      PROVE  ActiveInv'
  BY <1>2, <1>3
     DEF FwdStep, FwdRecv, FwdSend, FwdMark, FwdEof, StreamStep, StreamEvent, StreamComplete, StreamQuit,
         RunnerCancel, clientVars, tmVars, engVars
<1>4. QED
  BY <1>1, <1>2, <1>3, LoopKeepsActive, CallerKeepsActive, RetryAssumption
     DEF Next, StartTask, RetryTask, CancelTask, Disconnect, vars, clientVars, tmVars, engVars

\* A session without a run under its ID is not left active.
THEOREM IdleClosed == Spec => []IdleSessionIsClosed
<1>1. Init => Settled /\ ActiveInv
  BY NoneAssumption DEF Init, Settled, ActiveInv, Ended, TaskStates
<1>2. TypeInv /\ ActiveInv => IdleSessionIsClosed
  <2> SUFFICES ASSUME TypeInv, ActiveInv, NEW i \in TaskIds, sessState[i] = "active"
               PROVE  \E r \in Runs : runId[r] = i /\ Pending(r)
    BY DEF IdleSessionIsClosed
  <2>1. PICK r \in Runs : runId[r] = i /\ WillRecord(r)
    BY DEF ActiveInv
  <2>2. Pending(r)
    BY <2>1 DEF WillRecord, Pending
  <2>3. QED
    BY <2>1, <2>2
<1>3. QED
  BY <1>1, <1>2, NextSettled, NextActive, TypeInvariant, PTL DEF Spec

-----------------------------------------------------------------------------
(***************************************************************************)
(* CompleteCoversTheRun.  The events of a run are numbered by sent.  Those *)
(* that the forwarder has taken, and of them those that the client got,    *)
(* are the first; the progress is the first unit[r]; done is the last, and *)
(* nothing is behind it anywhere on the way.                               *)
(***************************************************************************)
Taken(r) == sent[r] - Len(ch[r])
InHand(r) == IF fwd[r] = "send" THEN 1 ELSE 0

Numbered(r) ==
  /\ Len(ch[r]) <= sent[r] /\ unit[r] <= sent[r]
  /\ loop[r] \in {"check", "work"} => unit[r] = sent[r]
  /\ \A k \in 1 .. Len(ch[r]) : (ch[r][k] = "progress") <=> (Taken(r) + k <= unit[r])

DoneIsLast(r) ==
  /\ \A k \in 1 .. Len(ch[r]) : ch[r][k] = "done" => k = Len(ch[r])
  /\ (fwd[r] = "send" /\ hand[r] = "done") => Len(ch[r]) = 0
  /\ \A k \in 1 .. Len(outCh[r]) : outCh[r][k] = "done" =>
       k = Len(outCh[r]) /\ fwd[r] # "send" /\ Len(ch[r]) = 0 /\ loop[r] \in Ended

Drained(r) == loop[r] \in Ended /\ Len(ch[r]) = 0 /\ got[r] = sent[r]

Written(r) ==
  /\ stream[r] = "reading" => got[r] = Taken(r) - InHand(r) - Len(outCh[r])
  /\ stream[r] \in {"reading", "complete"} => info[r] = None
  /\ (stream[r] = "complete" \/ info[r] # None) => Drained(r)

Credited(r) ==
  /\ (caller[r] # "idle" /\ tmTask[runId[r]] = r) =>
       credit[r][r] = IF Taken(r) <= unit[r] THEN Taken(r) ELSE unit[r]
  /\ info[r] = r => credit[r][r] = unit[r]

Unstarted(r) ==
  caller[r] # "started" =>
    /\ sent[r] = 0 /\ unit[r] = 0 /\ got[r] = 0 /\ credit[r][r] = 0
    /\ Len(ch[r]) = 0 /\ Len(outCh[r]) = 0 /\ info[r] = None

Pipe(r) == Numbered(r) /\ DoneIsLast(r) /\ Written(r) /\ Credited(r) /\ Unstarted(r)

\* What the predicates above look at, but for the loop and the caller.
Still(r) ==
  /\ sent'[r] = sent[r] /\ unit'[r] = unit[r] /\ got'[r] = got[r] /\ info'[r] = info[r]
  /\ ch'[r] = ch[r] /\ outCh'[r] = outCh[r] /\ fwd'[r] = fwd[r] /\ hand'[r] = hand[r]
  /\ stream'[r] = stream[r] /\ credit'[r][r] = credit[r][r]

\* No step but Register makes an entry under a run's ID its own.
Owned(r) ==
  (caller'[r] # "idle" /\ tmTask'[runId'[r]] = r) => (caller[r] # "idle" /\ tmTask[runId[r]] = r)

LEMMA StillPipe ==
  ASSUME NEW r \in Runs, Pipe(r), Still(r), Owned(r),
         caller'[r] = "started" <=> caller[r] = "started",
         loop[r] \in Ended => loop'[r] \in Ended,
         loop'[r] \in {"check", "work"} => loop[r] \in {"check", "work"}
  PROVE  Pipe(r)'
<1>1. Numbered(r)'
  BY DEF Pipe, Still, Numbered, Taken
<1>2. DoneIsLast(r)'
  BY DEF Pipe, Still, DoneIsLast
<1>3. Written(r)'
  BY DEF Pipe, Still, Written, Drained, Taken, InHand
<1>4. Credited(r)'
  BY DEF Pipe, Still, Owned, Credited, Taken
<1>5. Unstarted(r)'
  BY DEF Pipe, Still, Unstarted
<1>6. QED
  BY <1>1, <1>2, <1>3, <1>4, <1>5 DEF Pipe

\* The types of one run's counters and channels.
LEMMA PipeTypes ==
  ASSUME TypeInv, NEW r \in Runs
  PROVE  /\ ch[r] \in Seq(EventKinds) /\ outCh[r] \in Seq(EventKinds)
         /\ sent[r] \in Nat /\ unit[r] \in Nat /\ got[r] \in Nat /\ credit[r][r] \in Nat
         /\ Len(ch[r]) \in Nat /\ Len(outCh[r]) \in Nat
<1>1. /\ ch[r] \in Seq(EventKinds) /\ outCh[r] \in Seq(EventKinds)
      /\ sent[r] \in Nat /\ unit[r] \in 0 .. MaxUnits /\ got[r] \in Nat
  BY DEF TypeInv, TypeOK
<1>2. credit[r][r] \in Nat
  BY DEF TypeInv, TypeOK
<1>3. QED
  BY <1>1, <1>2, BoundAssumption

LEMMA AppendLength ==
  ASSUME NEW S, NEW q \in Seq(S), NEW e \in S
  PROVE  /\ Len(Append(q, e)) = Len(q) + 1
         /\ Append(q, e)[Len(q) + 1] = e
         /\ \A k \in 1 .. Len(q) : Append(q, e)[k] = q[k]
OBVIOUS

LEMMA TailLength ==
  ASSUME NEW S, NEW q \in Seq(S), q # <<>>
  PROVE  Len(Tail(q)) = Len(q) - 1 /\ Len(q) \in Nat \ {0} /\ Head(q) = q[1]
OBVIOUS

\* The loop emits its next event: progress, and the unit with it, or another
\* event, after which there is no progress.
LEMMA EmitPipe ==
  ASSUME TypeInv, DoneMeansEnded, NEW r \in Runs, Pipe(r), NEW kind \in EventKinds,
         loop[r] \notin Ended, caller'[r] = caller[r], Owned(r), loop[r] # "idle",
         ch'[r] = Append(ch[r], kind), sent'[r] = sent[r] + 1,
         \/ kind = "progress" /\ unit[r] = sent[r] /\ unit'[r] = unit[r] + 1
         \/ kind # "progress" /\ unit'[r] = unit[r] /\ loop'[r] \notin {"check", "work"},
         kind = "done" => loop'[r] \in Ended,
         got'[r] = got[r], info'[r] = info[r], outCh'[r] = outCh[r], fwd'[r] = fwd[r],
         hand'[r] = hand[r], stream'[r] = stream[r], credit'[r][r] = credit[r][r]
  PROVE  Pipe(r)'
<1>1. /\ ch[r] \in Seq(EventKinds)
      /\ sent[r] \in Nat /\ unit[r] \in Nat /\ got[r] \in Nat /\ credit[r][r] \in Nat
      /\ Len(ch[r]) \in Nat /\ Len(outCh[r]) \in Nat
  BY PipeTypes
<1>2. /\ Len(ch'[r]) = Len(ch[r]) + 1 /\ ch'[r][Len(ch[r]) + 1] = kind
      /\ \A k \in 1 .. Len(ch[r]) : ch'[r][k] = ch[r][k]
  BY <1>1, AppendLength
<1>3. Taken(r)' = Taken(r) /\ Taken(r) <= sent[r] /\ Taken(r) \in Int
  <2>1. \A n, m \in Nat : (n + 1) - (m + 1) = n - m /\ n - m <= n /\ n - m \in Int
    OBVIOUS
  <2>2. Taken(r)' = (sent[r] + 1) - (Len(ch[r]) + 1) /\ Taken(r) = sent[r] - Len(ch[r])
    BY <1>2, Zenon DEF Taken
  <2>3. QED
    BY <1>1, <2>1, <2>2, Zenon
<1>4. Numbered(r)'
  <2>1. Len(ch'[r]) <= sent'[r] /\ unit'[r] <= sent'[r]
    BY <1>1, <1>2 DEF Pipe, Numbered
  <2>2. loop'[r] \in {"check", "work"} => unit'[r] = sent'[r]
    OBVIOUS
  <2>3. ASSUME NEW k \in 1 .. Len(ch'[r])
        PROVE  (ch'[r][k] = "progress") <=> (Taken(r)' + k <= unit'[r])
    <3>1. CASE k = Len(ch[r]) + 1
      <4>1. Taken(r) + k = sent[r] + 1
        BY <1>1, <3>1 DEF Taken
      <4>2. unit[r] <= sent[r]
        BY DEF Pipe, Numbered
      <4>3. QED
        BY <1>1, <1>2, <1>3, <3>1, <4>1, <4>2
    <3>2. CASE k \in 1 .. Len(ch[r])
      <4>1. (ch[r][k] = "progress") <=> (Taken(r) + k <= unit[r])
        BY <3>2, Zenon DEF Pipe, Numbered
      <4>2. Taken(r) + k \in Int /\ Taken(r) + k <= sent[r]
        BY <1>1, <3>2 DEF Taken
      <4>3. (Taken(r) + k <= unit[r]) <=> (Taken(r) + k <= unit'[r])
        BY <1>1, <4>2
      <4>4. QED
        BY <1>2, <1>3, <3>2, <4>1, <4>3, Zenon
    <3>3. QED
      <4>1. k = Len(ch[r]) + 1 \/ k \in 1 .. Len(ch[r])
        BY <1>1, <1>2
      <4>2. QED
        BY <3>1, <3>2, <4>1, Zenon
  <2>4. QED
    BY <2>1, <2>2, <2>3 DEF Numbered
<1>5. DoneIsLast(r)'
  <2>1. \A k \in 1 .. Len(ch[r]) : ch[r][k] # "done"
    BY DEF DoneMeansEnded
  <2>2. ASSUME NEW k \in 1 .. Len(ch'[r]), ch'[r][k] = "done" PROVE k = Len(ch'[r])
    <3>1. k \in 1 .. Len(ch[r]) \/ k = Len(ch[r]) + 1
      BY <1>1, <1>2
    <3>2. QED
      BY <1>2, <2>1, <2>2, <3>1, Zenon
  <2>3. hand[r] # "done"
    BY DEF DoneMeansEnded
  <2>4. \A k \in 1 .. Len(outCh[r]) : outCh[r][k] # "done"
    BY DEF Pipe, DoneIsLast
  <2>5. QED
    BY <2>2, <2>3, <2>4 DEF DoneIsLast
<1>6. Written(r)'
  BY <1>3 DEF Pipe, Written, Drained, InHand
<1>7. Credited(r)'
  <2>1. info[r] # r
    BY NoneAssumption DEF Pipe, Written, Drained, Runs
  <2>2. (kind = "progress" => Taken(r) <= unit[r] /\ Taken(r) <= unit'[r])
    BY <1>1, <1>3
  <2>3. QED
    BY <1>3, <2>1, <2>2 DEF Pipe, Credited, Owned
<1>8. Unstarted(r)'
  BY DEF TypeInv, Launched, Unstarted
<1>9. QED
  BY <1>4, <1>5, <1>6, <1>7, <1>8 DEF Pipe

\* What a step of the loop of r leaves alone.
LEMMA LoopLeaves ==
  ASSUME TypeInv, NEW r \in Runs, LoopStep(r)
  PROVE  /\ UNCHANGED <<caller, tmTask, runId, got, info, outCh, fwd, hand, stream, credit>>
         /\ \A q \in Runs \ {r} : /\ loop'[q] = loop[q] /\ ch'[q] = ch[q]
                                  /\ sent'[q] = sent[q] /\ unit'[q] = unit[q]
<1>1. UNCHANGED <<caller, tmTask, runId, got, info, outCh, fwd, hand, stream, credit>>
  BY DEF LoopStep, LoopContinue, LoopCanceled, LoopProgress, LoopFail, LoopDone, LoopExhausted,
         LoopLast, LoopSettle, LoopRecord, LoopReturn, EmitLast, clientVars, tmVars
<1>2. \A q \in Runs \ {r} : loop'[q] = loop[q] /\ ch'[q] = ch[q]
  BY LoopStepFrame DEF LoopFrame
<1>3. unit' = unit \/ unit' = [unit EXCEPT ![r] = @ + 1]
  BY DEF LoopStep, LoopContinue, LoopCanceled, LoopProgress, LoopFail, LoopDone, LoopExhausted,
         LoopLast, LoopSettle, LoopRecord, LoopReturn, EmitLast
<1>4. sent' = sent \/ sent' = [sent EXCEPT ![r] = @ + 1]
  BY DEF LoopStep, LoopContinue, LoopCanceled, LoopProgress, LoopFail, LoopDone, LoopExhausted,
         LoopLast, LoopSettle, LoopRecord, LoopReturn, EmitLast, Emit
<1>5. \A q \in Runs \ {r} : sent'[q] = sent[q] /\ unit'[q] = unit[q]
  BY <1>3, <1>4 DEF TypeInv, TypeOK
<1>6. QED
  BY <1>1, <1>2, <1>5

LEMMA LoopKeepsPipe ==
  ASSUME TypeInv, DoneMeansEnded, \A q \in Runs : Pipe(q), NEW r \in Runs, LoopStep(r)
  PROVE  \A q \in Runs : Pipe(q)'
<1>1. /\ UNCHANGED <<caller, tmTask, runId, got, info, outCh, fwd, hand, stream, credit>>
      /\ \A q \in Runs \ {r} : /\ loop'[q] = loop[q] /\ ch'[q] = ch[q]
                               /\ sent'[q] = sent[q] /\ unit'[q] = unit[q]
  BY LoopLeaves
<1>2. \A q \in Runs : Owned(q)
  BY <1>1 DEF Owned
<1>3. ASSUME NEW q \in Runs \ {r} PROVE Pipe(q)'
  <2>1. Still(q)
    BY <1>1 DEF Still
  <2>2. QED
    BY <1>1, <1>2, <2>1, StillPipe
<1>4. /\ loop \in [Runs -> {"idle", "check", "work", "last"} \cup Ended]
      /\ ch \in [Runs -> Seq(EventKinds)] /\ sent \in [Runs -> Nat]
      /\ unit \in [Runs -> 0 .. MaxUnits]
  BY DEF TypeInv, TypeOK
<1>5. Pipe(r)'
  <2>1. CASE LoopContinue(r) \/ LoopSettle(r) \/ LoopRecord(r) \/ LoopReturn(r)
    <3>1. UNCHANGED <<sent, unit, ch>>
      BY <2>1 DEF LoopContinue, LoopSettle, LoopRecord, LoopReturn
    <3>2. Still(r)
      BY <1>1, <3>1 DEF Still
    <3>3. /\ loop[r] \in Ended => loop'[r] \in Ended
          /\ loop'[r] \in {"check", "work"} => loop[r] \in {"check", "work"}
      BY <1>4, <2>1 DEF LoopContinue, LoopSettle, LoopRecord, LoopReturn, Ended
    <3>4. QED
      BY <1>1, <1>2, <3>2, <3>3, StillPipe
  <2>2. CASE LoopProgress(r)
    <3>1. /\ loop[r] = "work" /\ "progress" \in EventKinds
          /\ ch'[r] = Append(ch[r], "progress") /\ sent'[r] = sent[r] + 1
          /\ unit'[r] = unit[r] + 1
      BY <1>4, <2>2 DEF LoopProgress, Emit, EventKinds
    <3>2. unit[r] = sent[r] /\ loop[r] \notin Ended
      BY <3>1 DEF Pipe, Numbered, Ended
    <3>3. QED
      BY <1>1, <1>2, <3>1, <3>2, EmitPipe
  <2>3. ASSUME NEW kind \in {"error", "done"}, Emit(r, kind), UNCHANGED unit,
               loop[r] \in {"check", "work", "last"},
               loop'[r] = "settle" \/ (kind = "error" /\ loop'[r] = "last")
        PROVE  Pipe(r)'
    <3>1. /\ ch'[r] = Append(ch[r], kind) /\ sent'[r] = sent[r] + 1
          /\ kind \in EventKinds /\ kind # "progress"
      BY <1>4, <2>3 DEF Emit, EventKinds
    <3>2. /\ loop[r] \notin Ended /\ loop[r] # "idle" /\ loop'[r] \notin {"check", "work"}
          /\ kind = "done" => loop'[r] \in Ended
      BY <2>3 DEF Ended
    <3>3. QED
      BY <1>1, <1>2, <2>3, <3>1, <3>2, EmitPipe
  <2>4. CASE LoopExhausted(r)
    BY <1>4, <2>3, <2>4 DEF LoopExhausted
  <2>5. CASE LoopCanceled(r) \/ LoopFail(r)
    BY <1>4, <2>3, <2>5 DEF LoopCanceled, LoopFail, EmitLast
  <2>6. CASE LoopDone(r) \/ LoopLast(r)
    BY <1>4, <2>3, <2>6 DEF LoopDone, LoopLast, EmitLast
  <2>7. QED
    BY <2>1, <2>2, <2>4, <2>5, <2>6 DEF LoopStep
<1>6. QED
  BY <1>3, <1>5

\* The forwarder takes an event: it credits it, if the entry is the run's own.
LEMMA RecvPipe ==
  ASSUME TypeInv, DoneMeansEnded, NEW r \in Runs, Pipe(r), FwdRecv(r)
  PROVE  Pipe(r)'
<1>1. /\ ch[r] \in Seq(EventKinds) /\ ch[r] # <<>>
      /\ sent[r] \in Nat /\ unit[r] \in Nat /\ got[r] \in Nat /\ credit[r][r] \in Nat
      /\ Len(ch[r]) \in Nat \ {0} /\ Len(outCh[r]) \in Nat
  BY PipeTypes, TailLength DEF FwdRecv
<1>2. /\ ch'[r] = Tail(ch[r]) /\ hand'[r] = Head(ch[r])
      /\ fwd[r] = "recv" /\ fwd'[r] = "send"
  BY DEF FwdRecv, TypeInv, TypeOK
<1>3. /\ Len(ch'[r]) = Len(ch[r]) - 1 /\ hand'[r] = ch[r][1]
      /\ \A k \in 1 .. Len(ch'[r]) : k + 1 \in 1 .. Len(ch[r]) /\ ch'[r][k] = ch[r][k + 1]
  BY <1>1, <1>2, TailLength, TailElements
<1>4. UNCHANGED <<sent, unit, got, info, outCh, stream, loop, caller, tmTask, runId>>
  BY DEF FwdRecv, clientVars
<1>5. Taken(r)' = Taken(r) + 1 /\ Taken(r) \in Int
  <2>1. \A n \in Nat, m \in Nat \ {0} : n - (m - 1) = (n - m) + 1 /\ n - m \in Int
    OBVIOUS
  <2>2. Taken(r)' = sent[r] - (Len(ch[r]) - 1) /\ Taken(r) = sent[r] - Len(ch[r])
    BY <1>3, <1>4, Zenon DEF Taken
  <2>3. QED
    BY <1>1, <2>1, <2>2, Zenon
<1>6. Numbered(r)'
  <2>1. Len(ch'[r]) <= sent[r]
    BY <1>1, <1>3 DEF Pipe, Numbered
  <2>2. ASSUME NEW k \in 1 .. Len(ch'[r])
        PROVE  (ch'[r][k] = "progress") <=> (Taken(r)' + k <= unit[r])
    <3>1. (ch[r][k + 1] = "progress") <=> (Taken(r) + (k + 1) <= unit[r])
      BY <1>3 DEF Pipe, Numbered
    <3>2. Taken(r)' + k = Taken(r) + (k + 1)
      BY <1>1, <1>3, <1>5
    <3>3. QED
      BY <1>3, <3>1, <3>2
  <2>3. QED
    BY <1>4, <2>1, <2>2 DEF Pipe, Numbered
<1>7. DoneIsLast(r)'
  <2>1. ASSUME NEW k \in 1 .. Len(ch'[r]), ch'[r][k] = "done" PROVE k = Len(ch'[r])
    <3>1. k + 1 = Len(ch[r])
      BY <1>3, <2>1, Zenon DEF Pipe, DoneIsLast
    <3>2. k \in Int
      OBVIOUS
    <3>3. QED
      BY <1>1, <1>3, <3>1, <3>2
  <2>2. hand'[r] = "done" => Len(ch'[r]) = 0
    <3>1. 1 \in 1 .. Len(ch[r])
      BY <1>1
    <3>2. hand'[r] = "done" => 1 = Len(ch[r])
      BY <1>3, <3>1, Zenon DEF Pipe, DoneIsLast
    <3>3. QED
      BY <1>1, <1>3, <3>2
  <2>3. \A k \in 1 .. Len(outCh[r]) : outCh[r][k] # "done"
    BY <1>1 DEF Pipe, DoneIsLast
  <2>4. QED
    BY <1>4, <2>1, <2>2, <2>3 DEF DoneIsLast
<1>8. info[r] = None /\ stream[r] # "complete"
  BY <1>1 DEF Pipe, Written, Drained
<1>9. Written(r)'
  <2>1. InHand(r) = 0 /\ InHand(r)' = 1
    BY <1>2 DEF InHand
  <2>2. stream[r] = "reading" => got[r] = Taken(r) - 0 - Len(outCh[r])
    BY <2>1 DEF Pipe, Written
  <2>3. Taken(r) - 0 - Len(outCh[r]) = (Taken(r) + 1) - 1 - Len(outCh[r])
    BY <1>1, <1>5
  <2>4. stream[r] = "reading" => got'[r] = Taken(r)' - InHand(r)' - Len(outCh'[r])
    BY <1>4, <1>5, <2>1, <2>2, <2>3, Zenon
  <2>5. QED
    BY <1>4, <1>8, <2>4 DEF Written
<1>10. Credited(r)'
  <2>1. info[r] # r
    BY <1>8, NoneAssumption DEF Runs
  <2>2. ASSUME caller[r] # "idle", tmTask[runId[r]] = r
        PROVE  credit'[r][r] = IF Taken(r)' <= unit[r] THEN Taken(r)' ELSE unit[r]
    <3>1. credit' = IF Head(ch[r]) = "progress" THEN [credit EXCEPT ![r][r] = @ + 1] ELSE credit
      BY <2>2, NoneAssumption DEF FwdRecv, Runs
    <3>2. credit \in [Runs -> [Runs -> Nat]]
      BY DEF TypeInv, TypeOK
    <3>3. credit'[r][r] = IF ch[r][1] = "progress" THEN credit[r][r] + 1 ELSE credit[r][r]
      BY <1>2, <1>3, <3>1, <3>2
    <3>4. (ch[r][1] = "progress") <=> (Taken(r) + 1 <= unit[r])
      BY <1>1 DEF Pipe, Numbered
    <3>5. credit[r][r] = IF Taken(r) <= unit[r] THEN Taken(r) ELSE unit[r]
      BY <2>2 DEF Pipe, Credited
    <3>6. QED
      BY <1>1, <1>5, <3>3, <3>4, <3>5
  <2>3. QED
    BY <1>4, <2>1, <2>2 DEF Credited
<1>11. Unstarted(r)'
  BY <1>1, <1>4 DEF Pipe, Unstarted
<1>12. QED
  BY <1>6, <1>7, <1>9, <1>10, <1>11 DEF Pipe

\* The forwarder passes it on.
LEMMA SendPipe ==
  ASSUME TypeInv, DoneMeansEnded, NEW r \in Runs, Pipe(r), FwdSend(r)
  PROVE  Pipe(r)'
<1>1. /\ outCh[r] \in Seq(EventKinds) /\ hand[r] \in EventKinds
      /\ sent[r] \in Nat /\ got[r] \in Nat
      /\ Len(ch[r]) \in Nat /\ Len(outCh[r]) \in Nat
  BY PipeTypes DEF FwdSend, TypeInv, Launched
<1>2. /\ outCh'[r] = Append(outCh[r], hand[r])
      /\ fwd[r] = "send" /\ fwd'[r] \in {"mark", "recv"}
      /\ UNCHANGED <<clientVars, tmTask, tmState, credit, caller, cancelCall, engVars>>
  BY DEF FwdSend, TypeInv, TypeOK
<1>3. /\ Len(outCh'[r]) = Len(outCh[r]) + 1
      /\ outCh'[r][Len(outCh[r]) + 1] = hand[r]
      /\ \A k \in 1 .. Len(outCh[r]) : outCh'[r][k] = outCh[r][k]
  BY <1>1, <1>2, AppendLength
<1>4. UNCHANGED <<sent, unit, got, info, ch, stream, loop, caller, tmTask, runId, credit>>
  BY <1>2 DEF clientVars, engVars
<1>5. Taken(r)' = Taken(r) /\ Taken(r) \in Int
  BY <1>1, <1>4 DEF Taken
<1>6. Numbered(r)'
  BY <1>4, <1>5 DEF Pipe, Numbered
<1>7. DoneIsLast(r)'
  <2>1. \A k \in 1 .. Len(outCh[r]) : outCh[r][k] # "done"
    BY <1>2 DEF Pipe, DoneIsLast
  <2>2. ASSUME NEW k \in 1 .. Len(outCh'[r]), outCh'[r][k] = "done"
        PROVE  k = Len(outCh'[r]) /\ hand[r] = "done"
    <3>1. k \in 1 .. Len(outCh[r]) \/ k = Len(outCh[r]) + 1
      BY <1>1, <1>3
    <3>2. QED
      BY <1>3, <2>1, <2>2, <3>1, Zenon
  <2>3. hand[r] = "done" => Len(ch[r]) = 0 /\ loop[r] \in Ended
    BY <1>2 DEF Pipe, DoneIsLast, DoneMeansEnded
  <2>4. fwd'[r] # "send"
    BY <1>2
  <2>5. QED
    BY <1>4, <2>2, <2>3, <2>4 DEF Pipe, DoneIsLast, Ended
<1>8. Written(r)'
  <2>1. ASSUME stream[r] = "reading" PROVE got[r] = Taken(r) - 0 - Len(outCh'[r])
    <3>1. got[r] = Taken(r) - 1 - Len(outCh[r])
      BY <1>2, <2>1 DEF Pipe, Written, InHand
    <3>2. QED
      BY <1>1, <1>3, <1>5, <3>1
  <2>2. InHand(r)' = 0
    BY <1>2 DEF InHand
  <2>3. QED
    BY <1>4, <1>5, <2>1, <2>2 DEF Pipe, Written, Drained, Ended
<1>9. Credited(r)'
  BY <1>4, <1>5 DEF Pipe, Credited
<1>10. Unstarted(r)'
  BY <1>2, <1>4 DEF TypeInv, Launched, Unstarted
<1>11. QED
  BY <1>6, <1>7, <1>8, <1>9, <1>10 DEF Pipe

\* The forwarder ends.
LEMMA ExitPipe ==
  ASSUME TypeInv, NEW r \in Runs, Pipe(r), FwdMark(r) \/ FwdEof(r)
  PROVE  Pipe(r)'
<1>1. /\ fwd[r] # "send" /\ fwd'[r] # "send"
      /\ UNCHANGED <<sent, unit, got, info, ch, outCh, hand, stream, loop, caller, tmTask, runId, credit>>
  BY DEF FwdMark, FwdEof, clientVars, TypeInv, TypeOK
<1>2. Numbered(r)' /\ Credited(r)' /\ Unstarted(r)'
  BY <1>1 DEF Pipe, Numbered, Credited, Unstarted, Taken
<1>3. DoneIsLast(r)' /\ Written(r)'
  BY <1>1 DEF Pipe, DoneIsLast, Written, Drained, Taken, InHand, Ended
<1>4. QED
  BY <1>2, <1>3 DEF Pipe

LEMMA FwdKeepsPipe ==
  ASSUME TypeInv, DoneMeansEnded, \A q \in Runs : Pipe(q), NEW r \in Runs, FwdStep(r)
  PROVE  \A q \in Runs : Pipe(q)'
<1>1. UNCHANGED <<sent, unit, got, info, stream, loop, caller, tmTask, runId>>
  BY DEF FwdStep, FwdRecv, FwdSend, FwdMark, FwdEof, clientVars, engVars
<1>2. /\ ch' = ch \/ ch' = [ch EXCEPT ![r] = Tail(@)]
      /\ outCh' = outCh \/ outCh' = [outCh EXCEPT ![r] = Append(@, hand[r])]
      /\ hand' = hand \/ \E e : hand' = [hand EXCEPT ![r] = e]
      /\ \E f : fwd' = [fwd EXCEPT ![r] = f]
  BY DEF FwdStep, FwdRecv, FwdSend, FwdMark, FwdEof, engVars
<1>3. credit' = credit \/ credit' = [credit EXCEPT ![tmTask[runId[r]]][r] = @ + 1]
  BY DEF FwdStep, FwdRecv, FwdSend, FwdMark, FwdEof
<1>4. ASSUME NEW q \in Runs \ {r} PROVE Pipe(q)'
  <2>1. /\ ch'[q] = ch[q] /\ outCh'[q] = outCh[q] /\ hand'[q] = hand[q] /\ fwd'[q] = fwd[q]
    BY <1>2 DEF TypeInv, TypeOK
  <2>2. credit'[q][q] = credit[q][q]
    <3>1. credit \in [Runs -> [Runs -> Nat]]
      BY DEF TypeInv, TypeOK
    <3>2. QED
      BY <1>3, <3>1
  <2>3. Still(q) /\ Owned(q)
    BY <1>1, <2>1, <2>2 DEF Still, Owned
  <2>4. QED
    BY <1>1, <2>3, StillPipe
<1>5. Pipe(r)'
  BY RecvPipe, SendPipe, ExitPipe DEF FwdStep
<1>6. QED
  BY <1>4, <1>5

\* The client gets an event, or its goroutine ends.
LEMMA EventPipe ==
  ASSUME TypeInv, NEW r \in Runs, Pipe(r), StreamEvent(r)
  PROVE  Pipe(r)'
<1>1. /\ outCh[r] \in Seq(EventKinds) /\ outCh[r] # <<>>
      /\ sent[r] \in Nat /\ got[r] \in Nat
      /\ Len(ch[r]) \in Nat /\ Len(outCh[r]) \in Nat \ {0}
  BY PipeTypes, TailLength DEF StreamEvent
<1>2. /\ outCh'[r] = Tail(outCh[r]) /\ stream[r] = "reading"
      /\ UNCHANGED <<sent, unit, info, ch, fwd, hand, loop, caller, tmTask, runId, credit>>
  BY DEF StreamEvent, engVars, TypeInv, TypeOK
<1>3. /\ Len(outCh'[r]) = Len(outCh[r]) - 1
      /\ \A k \in 1 .. Len(outCh'[r]) : k + 1 \in 1 .. Len(outCh[r]) /\ outCh'[r][k] = outCh[r][k + 1]
      /\ Head(outCh[r]) = outCh[r][1]
  BY <1>1, <1>2, TailLength, TailElements
<1>4. /\ info[r] = None /\ got[r] = Taken(r) - InHand(r) - Len(outCh[r])
      /\ InHand(r) \in {0, 1} /\ Taken(r) \in Int
      /\ Taken(r)' = Taken(r) /\ InHand(r)' = InHand(r)
  BY <1>1, <1>2 DEF Pipe, Written, InHand, Taken
<1>5. Numbered(r)' /\ Credited(r)'
  BY <1>2 DEF Pipe, Numbered, Credited, Taken
<1>6. DoneIsLast(r)'
  <2>1. ASSUME NEW k \in 1 .. Len(outCh'[r]), outCh'[r][k] = "done"
        PROVE  k = Len(outCh'[r]) /\ fwd[r] # "send" /\ Len(ch[r]) = 0 /\ loop[r] \in Ended
    <3>1. k + 1 = Len(outCh[r]) /\ fwd[r] # "send" /\ Len(ch[r]) = 0 /\ loop[r] \in Ended
      BY <1>3, <2>1 DEF Pipe, DoneIsLast
    <3>2. QED
      BY <1>1, <1>3, <3>1
  <2>2. QED
    BY <1>2, <2>1 DEF Pipe, DoneIsLast, Ended
<1>7. Unstarted(r)'
  BY <1>2 DEF TypeInv, Launched, Unstarted
<1>8. Written(r)'
  <2>1. CASE owner[r] \in closed
    <3>1. stream'[r] = "exited" /\ got' = got
      BY <2>1 DEF StreamEvent, TypeInv, TypeOK
    <3>2. QED
      BY <1>2, <1>4, <3>1 DEF Written
  <2>2. CASE owner[r] \notin closed
    <3>1. /\ got'[r] = got[r] + 1
          /\ stream'[r] = IF outCh[r][1] = "done" THEN "complete" ELSE "reading"
      BY <1>2, <1>3, <2>2 DEF StreamEvent, TypeInv, TypeOK
    <3>2. got'[r] = Taken(r) - InHand(r) - Len(outCh'[r])
      BY <1>1, <1>3, <1>4, <3>1
    <3>3. ASSUME outCh[r][1] = "done" PROVE Drained(r)'
      <4>0. 1 \in 1 .. Len(outCh[r])
        BY <1>1
      <4>1. 1 = Len(outCh[r]) /\ fwd[r] # "send" /\ Len(ch[r]) = 0 /\ loop[r] \in Ended
        BY <3>3, <4>0, Zenon DEF Pipe, DoneIsLast
      <4>2. InHand(r) = 0 /\ Taken(r) = sent[r]
        BY <1>1, <4>1 DEF InHand, Taken
      <4>3. got'[r] = sent[r]
        BY <1>1, <1>3, <3>2, <4>1, <4>2
      <4>4. QED
        BY <1>2, <4>1, <4>3 DEF Drained, Ended
    <3>4. QED
      BY <1>2, <1>4, <3>1, <3>2, <3>3 DEF Written
  <2>3. QED
    BY <2>1, <2>2
<1>9. QED
  BY <1>5, <1>6, <1>7, <1>8 DEF Pipe

\* CompletionInfo goes to the client, which has all by then.
LEMMA CompletePipe ==
  ASSUME TypeInv, NEW r \in Runs, Pipe(r), StreamComplete(r)
  PROVE  Pipe(r)'
<1>1. /\ stream[r] = "complete" /\ stream'[r] = "exited"
      /\ UNCHANGED <<sent, unit, got, ch, outCh, fwd, hand, loop, caller, tmTask, runId, credit>>
  BY DEF StreamComplete, tmVars, engVars, TypeInv, TypeOK
<1>2. Drained(r) /\ Drained(r)'
  BY <1>1 DEF Pipe, Written, Drained, Ended
<1>3. sent[r] \in Nat /\ unit[r] \in Nat /\ Len(ch[r]) \in Nat
  BY PipeTypes
<1>4. Numbered(r)' /\ DoneIsLast(r)' /\ Written(r)'
  BY <1>1, <1>2 DEF Pipe, Numbered, DoneIsLast, Written, Taken, Ended
<1>5. caller[r] = "started"
  BY <1>1 DEF TypeInv, Launched
<1>6. ASSUME info'[r] = r PROVE credit[r][r] = unit[r]
  <2>1. CASE info[r] = r
    BY <2>1 DEF Pipe, Credited
  <2>2. CASE info[r] # r
    <3>1. tmTask[runId[r]] = r
      BY <1>6, <2>2 DEF StreamComplete, NoEntry, Runs, TypeInv, TypeOK
    <3>2. Taken(r) = sent[r] /\ unit[r] <= sent[r]
      BY <1>2, <1>3 DEF Pipe, Numbered, Drained, Taken
    <3>3. QED
      BY <1>3, <1>5, <3>1, <3>2 DEF Pipe, Credited
  <2>3. QED
    BY <2>1, <2>2
<1>7. Credited(r)'
  BY <1>1, <1>6 DEF Pipe, Credited, Taken
<1>8. Unstarted(r)'
  BY <1>1, <1>5 DEF Unstarted
<1>9. QED
  BY <1>4, <1>7, <1>8 DEF Pipe

LEMMA QuitPipe ==
  ASSUME TypeInv, NEW r \in Runs, Pipe(r), StreamQuit(r)
  PROVE  Pipe(r)'
<1>1. /\ stream[r] = "reading" /\ stream'[r] = "exited"
      /\ UNCHANGED <<sent, unit, got, info, ch, outCh, fwd, hand, loop, caller, tmTask, runId, credit>>
  BY DEF StreamQuit, tmVars, engVars, TypeInv, TypeOK
<1>2. Numbered(r)' /\ DoneIsLast(r)' /\ Credited(r)' /\ Unstarted(r)'
  BY <1>1 DEF Pipe, Numbered, DoneIsLast, Credited, Unstarted, Taken, Ended
<1>3. Written(r)'
  BY <1>1 DEF Pipe, Written, Drained, Ended
<1>4. QED
  BY <1>2, <1>3 DEF Pipe

LEMMA StreamKeepsPipe ==
  ASSUME TypeInv, \A q \in Runs : Pipe(q), NEW r \in Runs, StreamStep(r)
  PROVE  \A q \in Runs : Pipe(q)'
<1>1. UNCHANGED <<sent, unit, ch, fwd, hand, loop, caller, tmTask, runId, credit>>
  BY DEF StreamStep, StreamEvent, StreamComplete, StreamQuit, tmVars, engVars
<1>2. /\ outCh' = outCh \/ outCh' = [outCh EXCEPT ![r] = Tail(@)]
      /\ got' = got \/ got' = [got EXCEPT ![r] = @ + 1]
      /\ info' = info \/ \E e : info' = [info EXCEPT ![r] = e]
      /\ \E f : stream' = [stream EXCEPT ![r] = f]
  BY DEF StreamStep, StreamEvent, StreamComplete, StreamQuit, tmVars
<1>3. ASSUME NEW q \in Runs \ {r} PROVE Pipe(q)'
  <2>1. outCh'[q] = outCh[q] /\ got'[q] = got[q] /\ info'[q] = info[q] /\ stream'[q] = stream[q]
    BY <1>2 DEF TypeInv, TypeOK
  <2>2. Still(q) /\ Owned(q)
    BY <1>1, <2>1 DEF Still, Owned
  <2>3. QED
    BY <1>1, <2>2, StillPipe
<1>4. Pipe(r)'
  BY EventPipe, CompletePipe, QuitPipe DEF StreamStep
<1>5. QED
  BY <1>3, <1>4

\* Nothing has been emitted when a run is registered, nor when it is launched.
LEMMA RegisterPipe ==
  ASSUME TypeInv, \A q \in Runs : Pipe(q),
         NEW i \in TaskIds, NEW c \in Conns, NEW r \in Runs, Register(i, c, r)
  PROVE  \A q \in Runs : Pipe(q)'
<1>1. /\ caller[r] = "idle" /\ caller' = [caller EXCEPT ![r] = "resolve"]
      /\ tmTask' = [tmTask EXCEPT ![i] = r] /\ runId' = [runId EXCEPT ![r] = i]
      /\ UNCHANGED <<sent, unit, got, info, ch, outCh, fwd, hand, stream, loop, credit>>
  BY DEF Register, engVars
<1>2. ASSUME NEW q \in Runs \ {r} PROVE Pipe(q)'
  <2>1. caller'[q] = caller[q] /\ runId'[q] = runId[q]
    BY <1>1 DEF TypeInv, TypeOK
  <2>2. Owned(q)
    BY <1>1, <2>1 DEF Owned, TypeInv, TypeOK, Launched
  <2>3. QED
    BY <1>1, <2>1, <2>2, StillPipe DEF Still
<1>3. Pipe(r)'
  <2>1. caller'[r] = "resolve"
    BY <1>1 DEF TypeInv, TypeOK
  <2>2. /\ sent[r] = 0 /\ unit[r] = 0 /\ got[r] = 0 /\ credit[r][r] = 0
        /\ Len(ch[r]) = 0 /\ Len(outCh[r]) = 0 /\ info[r] = None
    BY <1>1 DEF Pipe, Unstarted
  <2>3. Taken(r)' = 0
    BY <1>1, <2>2 DEF Taken
  <2>4. Numbered(r)' /\ DoneIsLast(r)' /\ Written(r)'
    BY <1>1 DEF Pipe, Numbered, DoneIsLast, Written, Drained, Taken, InHand, Ended
  <2>5. Credited(r)' /\ Unstarted(r)'
    BY <1>1, <2>2, <2>3, NoneAssumption DEF Credited, Unstarted, Runs
  <2>6. QED
    BY <2>4, <2>5 DEF Pipe
<1>4. QED
  BY <1>2, <1>3

LEMMA CallerKeepsPipe ==
  ASSUME TypeInv, \A q \in Runs : Pipe(q), NEW r \in Runs, CallerStep(r)
  PROVE  \A q \in Runs : Pipe(q)'
<1>1. /\ UNCHANGED <<sent, unit, got, info, ch, outCh, hand, runId, credit>>
      /\ \E s \in {"guard", "insert", "undo", "rejected", "started"} : caller' = [caller EXCEPT ![r] = s]
      /\ caller[r] \notin {"idle", "started"}
      /\ tmTask' = tmTask \/ tmTask' = [tmTask EXCEPT ![runId[r]] = None]
  BY DEF CallerStep, ProviderMissing, OpenSession, Guard, Launch, Unregister, clientVars, engVars
<1>2. ASSUME NEW q \in Runs PROVE Owned(q)
  <2>1. tmTask \in [TaskIds -> Runs \cup {None}] /\ q # None
    BY NoneAssumption DEF TypeInv, TypeOK, Runs
  <2>2. caller'[q] # "idle" => caller[q] # "idle" /\ runId[q] \in TaskIds
    BY <1>1 DEF TypeInv, TypeOK, Launched
  <2>3. QED
    BY <1>1, <2>1, <2>2 DEF Owned
<1>3. CASE ~Launch(r)
  <2>1. UNCHANGED <<fwd, stream, loop>>
    BY <1>3 DEF CallerStep, ProviderMissing, OpenSession, Guard, Unregister, clientVars, engVars
  <2>2. \A q \in Runs : caller'[q] = "started" <=> caller[q] = "started"
    BY <1>3 DEF CallerStep, ProviderMissing, OpenSession, Guard, Unregister, TypeInv, TypeOK
  <2>3. \A q \in Runs : Still(q)
    BY <1>1, <2>1 DEF Still
  <2>4. QED
    BY <1>2, <2>1, <2>2, <2>3, StillPipe
<1>4. CASE Launch(r)
  <2>1. /\ loop' = [loop EXCEPT ![r] = "check"] /\ fwd' = [fwd EXCEPT ![r] = "recv"]
        /\ stream' = [stream EXCEPT ![r] = "reading"] /\ caller' = [caller EXCEPT ![r] = "started"]
        /\ caller[r] = "insert"
    BY <1>4 DEF Launch
  <2>2. ASSUME NEW q \in Runs \ {r} PROVE Pipe(q)'
    <3>1. caller'[q] = caller[q] /\ fwd'[q] = fwd[q] /\ stream'[q] = stream[q] /\ loop'[q] = loop[q]
      BY <2>1 DEF TypeInv, TypeOK
    <3>2. Still(q)
      BY <1>1, <3>1 DEF Still
    <3>3. QED
      BY <1>2, <3>1, <3>2, StillPipe
  <2>3. Pipe(r)'
    <3>1. /\ sent[r] = 0 /\ unit[r] = 0 /\ got[r] = 0 /\ credit[r][r] = 0
          /\ Len(ch[r]) = 0 /\ Len(outCh[r]) = 0 /\ info[r] = None
      BY <2>1 DEF Pipe, Unstarted
    <3>2. /\ loop'[r] = "check" /\ fwd'[r] = "recv" /\ stream'[r] = "reading" /\ caller'[r] = "started"
      BY <2>1 DEF TypeInv, TypeOK
    <3>3. Taken(r)' = 0
      BY <1>1, <3>1 DEF Taken
    <3>4. Numbered(r)' /\ DoneIsLast(r)'
      BY <1>1, <3>1, <3>2 DEF Numbered, DoneIsLast
    <3>5. Written(r)' /\ Unstarted(r)'
      BY <1>1, <3>1, <3>2, <3>3 DEF Written, Unstarted, InHand
    <3>6. Credited(r)'
      BY <1>1, <3>1, <3>3 DEF Credited
    <3>7. QED
      BY <3>4, <3>5, <3>6 DEF Pipe
  <2>4. QED
    BY <2>2, <2>3
<1>5. QED
  BY <1>3, <1>4

PipeInv == \A r \in Runs : Pipe(r)

LEMMA InitPipe == Init => PipeInv
<1> SUFFICES ASSUME Init, NEW r \in Runs PROVE Pipe(r)
  BY DEF PipeInv
<1>1. /\ sent[r] = 0 /\ unit[r] = 0 /\ got[r] = 0 /\ credit[r][r] = 0
      /\ Len(ch[r]) = 0 /\ Len(outCh[r]) = 0 /\ info[r] = None
      /\ caller[r] = "idle" /\ loop[r] = "idle" /\ stream[r] = "idle" /\ fwd[r] = "idle"
  BY DEF Init
<1>2. QED
  BY <1>1, NoneAssumption DEF Pipe, Numbered, DoneIsLast, Written, Credited, Unstarted, Runs

LEMMA NextPipe ==
  ASSUME TypeInv, DoneMeansEnded, PipeInv, [Next]_vars
  PROVE  PipeInv'
<1>1. ASSUME UNCHANGED <<sent, unit, got, info, ch, outCh, fwd, hand, stream, loop, caller,
                         tmTask, runId, credit>>
      PROVE  PipeInv'
  <2>1. \A r \in Runs : Still(r) /\ Owned(r)
    BY <1>1 DEF Still, Owned
  <2>2. QED
    BY <1>1, <2>1, StillPipe DEF PipeInv
<1>2. CASE \/ \E i \in TaskIds : CancelTask(i)
           \/ \E c \in Conns : Disconnect(c)
           \/ \E r \in Runs : RunnerCancel(r)
           \/ UNCHANGED vars
  BY <1>1, <1>2 DEF CancelTask, Disconnect, RunnerCancel, vars, clientVars, tmVars, engVars
<1>3. QED
  BY <1>2, RegisterPipe, CallerKeepsPipe, LoopKeepsPipe, FwdKeepsPipe, StreamKeepsPipe, RetryAssumption
     DEF PipeInv, Next, StartTask, RetryTask

\* A client that is told of the end of a run has got all its events, and what
\* it is told, if it is of the run's own entry, counts all of its progress.
THEOREM CompleteCovers == Spec => []CompleteCoversTheRun
<1>1. PipeInv => CompleteCoversTheRun
  BY DEF PipeInv, Pipe, Written, Drained, Credited, CompleteCoversTheRun
<1>2. Init => DoneMeansEnded
  BY NoneAssumption DEF Init, DoneMeansEnded, TaskStates, EventKinds
<1>3. QED
  BY <1>1, <1>2, InitPipe, NextPipe, NextDone, TypeInvariant, PTL DEF Spec

-----------------------------------------------------------------------------
(***************************************************************************)
(* The refinement of EventStream.  Emitting, delivering and announcing are *)
(* the steps of the loop that emit, of the client's goroutine while the    *)
(* client is there, and of its end; every other step is a stutter.         *)
(***************************************************************************)
HasEnded == [r \in Runs |-> loop[r] \in Ended]
Announced == [r \in Runs |-> info[r] # None]

LEMMA Stutters ==
  ASSUME UNCHANGED <<sent, got, HasEnded, Announced>>
  PROVE  UNCHANGED Events!vars
  BY DEF Events!vars, HasEnded, Announced

LEMMA SameView ==
  ASSUME UNCHANGED <<sent, got, info>>,
         \A r \in Runs : (loop'[r] \in Ended) = (loop[r] \in Ended)
  PROVE  UNCHANGED <<sent, got, HasEnded, Announced>>
  BY DEF HasEnded, Announced, Ended

\* The steps of EventStream, by this module's names.
LEMMA ByEmit ==
  ASSUME NEW r \in Runs, ~HasEnded[r], sent' = [sent EXCEPT ![r] = @ + 1],
         HasEnded' \in {HasEnded, [HasEnded EXCEPT ![r] = TRUE]},
         UNCHANGED <<got, Announced>>
  PROVE  Events!Next
  BY DEF Events!Next, Events!Emit, HasEnded, Announced

LEMMA ByDeliver ==
  ASSUME NEW r \in Runs, ~Announced[r], got[r] < sent[r], got' = [got EXCEPT ![r] = @ + 1],
         UNCHANGED <<sent, HasEnded, Announced>>
  PROVE  Events!Next
  BY DEF Events!Next, Events!Deliver, HasEnded, Announced

LEMMA ByAnnounce ==
  ASSUME NEW r \in Runs, HasEnded[r], got[r] = sent[r], ~Announced[r],
         Announced' = [Announced EXCEPT ![r] = TRUE],
         UNCHANGED <<sent, got, HasEnded>>
  PROVE  Events!Next
  BY DEF Events!Next, Events!Announce, HasEnded, Announced

LEMMA LoopMaps ==
  ASSUME TypeInv, NEW r \in Runs, LoopStep(r)
  PROVE  Events!Next \/ UNCHANGED Events!vars
<1>1. loop \in [Runs -> {"idle", "check", "work", "last"} \cup Ended]
  BY DEF TypeInv, TypeOK
<1>2. UNCHANGED <<got, info>> /\ Announced' = Announced
  BY LoopLeaves DEF Announced
<1>3. ASSUME loop[r] \notin Ended, sent' = [sent EXCEPT ![r] = @ + 1],
             NEW l \in {"check", "last", "settle"}, loop' = [loop EXCEPT ![r] = l]
      PROVE  Events!Next
  <2>1. ~HasEnded[r]
    BY <1>3 DEF HasEnded
  <2>2. HasEnded' \in {HasEnded, [HasEnded EXCEPT ![r] = TRUE]}
    <3>1. CASE l = "settle"
      BY <1>1, <1>3, <3>1 DEF HasEnded, Ended
    <3>2. CASE l # "settle"
      BY <1>1, <1>3, <3>2 DEF HasEnded, Ended
    <3>3. QED
      BY <3>1, <3>2
  <2>3. QED
    BY <1>2, <1>3, <2>1, <2>2, ByEmit
<1>4. CASE LoopProgress(r)
  BY <1>3, <1>4 DEF LoopProgress, Emit, Ended
<1>5. CASE LoopExhausted(r)
  BY <1>3, <1>5 DEF LoopExhausted, Emit, Ended
<1>6. CASE LoopCanceled(r) \/ LoopFail(r) \/ LoopDone(r) \/ LoopLast(r)
  BY <1>3, <1>6 DEF LoopCanceled, LoopFail, LoopDone, LoopLast, EmitLast, Emit, Ended
<1>7. CASE LoopContinue(r) \/ LoopSettle(r) \/ LoopRecord(r) \/ LoopReturn(r)
  <2>1. UNCHANGED sent
    BY <1>7 DEF LoopContinue, LoopSettle, LoopRecord, LoopReturn
  <2>2. \A q \in Runs : (loop'[q] \in Ended) = (loop[q] \in Ended)
    BY <1>1, <1>7 DEF LoopContinue, LoopSettle, LoopRecord, LoopReturn, Ended
  <2>3. QED
    BY <1>2, <2>1, <2>2, SameView, Stutters
<1>8. QED
  BY <1>4, <1>5, <1>6, <1>7 DEF LoopStep

LEMMA StreamMaps ==
  ASSUME TypeInv, PipeInv, NEW r \in Runs, StreamStep(r)
  PROVE  Events!Next \/ UNCHANGED Events!vars
<1>1. UNCHANGED <<sent, loop>> /\ HasEnded' = HasEnded
  BY DEF StreamStep, StreamEvent, StreamComplete, StreamQuit, engVars, HasEnded, Ended
<1>2. info \in [Runs -> Runs \cup {NoEntry, None}] /\ Pipe(r)
  BY DEF TypeInv, TypeOK, PipeInv
<1>3. CASE StreamEvent(r)
  <2>1. UNCHANGED info /\ Announced' = Announced
    BY <1>3 DEF StreamEvent, Announced
  <2>2. CASE owner[r] \in closed
    <3>1. UNCHANGED got
      BY <1>3, <2>2 DEF StreamEvent
    <3>2. QED
      BY <1>1, <2>1, <3>1, Stutters
  <2>3. CASE owner[r] \notin closed
    <3>1. got' = [got EXCEPT ![r] = @ + 1] /\ stream[r] = "reading" /\ outCh[r] # <<>>
      BY <1>3, <2>3 DEF StreamEvent
    <3>2. /\ sent[r] \in Nat /\ got[r] \in Nat
          /\ Len(ch[r]) \in Nat /\ Len(outCh[r]) \in Nat \ {0}
      BY <3>1, PipeTypes, TailLength
    <3>3. got[r] = Taken(r) - InHand(r) - Len(outCh[r]) /\ info[r] = None
      BY <1>2, <3>1 DEF Pipe, Written
    <3>4. InHand(r) \in {0, 1}
      BY DEF InHand
    <3>5. got[r] < sent[r]
      BY <3>2, <3>3, <3>4 DEF Taken
    <3>6. ~Announced[r]
      BY <3>3 DEF Announced
    <3>7. QED
      BY <1>1, <2>1, <3>1, <3>5, <3>6, ByDeliver
  <2>4. QED
    BY <2>2, <2>3
<1>4. CASE StreamComplete(r)
  <2>1. UNCHANGED got /\ stream[r] = "complete"
    BY <1>4 DEF StreamComplete
  <2>2. info[r] = None /\ Drained(r)
    BY <1>2, <2>1 DEF Pipe, Written
  <2>3. CASE owner[r] \in closed
    <3>1. info' = info
      BY <1>2, <1>4, <2>3 DEF StreamComplete
    <3>2. QED
      BY <1>1, <2>1, <3>1, SameView, Stutters
  <2>4. CASE owner[r] \notin closed
    <3>1. \E e \in Runs \cup {NoEntry} : info' = [info EXCEPT ![r] = e]
      <4>1. tmTask[runId[r]] \in Runs \cup {None}
        BY <2>1 DEF TypeInv, TypeOK, Launched
      <4>2. QED
        BY <1>4, <2>4, <4>1 DEF StreamComplete
    <3>2. None \notin Runs \cup {NoEntry}
      BY NoneAssumption DEF Runs, NoEntry
    <3>3. Announced' = [Announced EXCEPT ![r] = TRUE]
      BY <1>2, <3>1, <3>2 DEF Announced
    <3>4. HasEnded[r] /\ got[r] = sent[r] /\ ~Announced[r]
      BY <2>2 DEF Drained, HasEnded, Announced
    <3>5. QED
      BY <1>1, <2>1, <3>3, <3>4, ByAnnounce
  <2>5. QED
    BY <2>3, <2>4
<1>5. CASE StreamQuit(r)
  BY <1>1, <1>5, SameView, Stutters DEF StreamQuit
<1>6. QED
  BY <1>3, <1>4, <1>5 DEF StreamStep

LEMMA StepMaps ==
  ASSUME TypeInv, PipeInv, [Next]_vars
  PROVE  Events!Next \/ UNCHANGED Events!vars
<1>1. ASSUME UNCHANGED <<sent, got, info, loop>>
      PROVE  UNCHANGED Events!vars
  BY <1>1, SameView, Stutters
<1>2. ASSUME NEW i \in TaskIds, NEW c \in Conns, NEW r \in Runs, Register(i, c, r)
      PROVE  UNCHANGED Events!vars
  BY <1>1, <1>2 DEF Register, engVars
<1>3. ASSUME NEW r \in Runs, CallerStep(r)
      PROVE  UNCHANGED Events!vars
  <2>1. CASE Launch(r)
    <3>1. UNCHANGED <<sent, got, info>> /\ loop' = [loop EXCEPT ![r] = "check"] /\ loop[r] = "idle"
      BY <2>1 DEF Launch, TypeInv, Launched
    <3>2. \A q \in Runs : (loop'[q] \in Ended) = (loop[q] \in Ended)
      BY <3>1 DEF TypeInv, TypeOK, Ended
    <3>3. QED
      BY <3>1, <3>2, SameView, Stutters
  <2>2. CASE ~Launch(r)
    BY <1>1, <1>3, <2>2 DEF CallerStep, ProviderMissing, OpenSession, Guard, Unregister, clientVars, engVars
  <2>3. QED
    BY <2>1, <2>2
<1>4. ASSUME NEW r \in Runs, FwdStep(r) \/ RunnerCancel(r)
      PROVE  UNCHANGED Events!vars
  BY <1>1, <1>4 DEF FwdStep, FwdRecv, FwdSend, FwdMark, FwdEof, RunnerCancel, clientVars, engVars
<1>5. CASE \/ \E i \in TaskIds : CancelTask(i)
           \/ \E c \in Conns : Disconnect(c)
           \/ UNCHANGED vars
  BY <1>1, <1>5 DEF CancelTask, Disconnect, vars, clientVars, engVars
<1>6. QED
  BY <1>2, <1>3, <1>4, <1>5, LoopMaps, StreamMaps, RetryAssumption
     DEF Next, StartTask, RetryTask

\* The daemon's pipeline keeps what EventStream promises the client.
THEOREM Refinement == Spec => ImplementsEventStream
<1>1. Init => Events!Init
  <2> SUFFICES ASSUME Init PROVE Events!Init
    OBVIOUS
  <2>1. \A r \in Runs : (loop[r] \in Ended) = FALSE /\ (info[r] # None) = FALSE
    BY DEF Init, Ended
  <2>2. HasEnded = [r \in Runs |-> FALSE] /\ Announced = [r \in Runs |-> FALSE]
    BY <2>1, Zenon DEF HasEnded, Announced
  <2>3. sent = [r \in Runs |-> 0] /\ got = [r \in Runs |-> 0]
    BY DEF Init
  <2>4. QED
    BY <2>2, <2>3, Zenon DEF Events!Init, HasEnded, Announced
<1>2. Init => DoneMeansEnded
  BY NoneAssumption DEF Init, DoneMeansEnded, TaskStates, EventKinds
<1>3. TypeInv /\ PipeInv /\ [Next]_vars => [Events!Next]_(Events!vars)
  BY StepMaps
<1>4. QED
  BY <1>1, <1>2, <1>3, InitPipe, NextPipe, NextDone, TypeInvariant, PTL
     DEF Spec, ImplementsEventStream, Events!Spec
==============================================================================
