------------------------ MODULE ToolSessions_proofs ------------------------
(***************************************************************************)
(* Proofs about the sessions that call tools, for any number of tasks,     *)
(* plans and clients, of rounds and calls, and any tools they ask for.     *)
(***************************************************************************)
EXTENDS ToolSessions, TLAPS

(***************************************************************************)
(* Tools and results.                                                      *)
(***************************************************************************)

\* What Dispatch lets through.
LEMMA DispatchedTool ==
  ASSUME NEW kind \in SessionKinds, NEW tool, Dispatches(kind, tool)
  PROVE  /\ tool \in ToolNames /\ tool \in Registered(kind)
         /\ tool = "task" => kind = "agent"
         /\ kind \in {"plan", "explore"} => tool \in readOnlyTools
<1> USE DEF Dispatches, Registered
<1>1. CASE kind \in SubagentKinds
  <2>1. tool \in GeneralTools /\ (kind = "explore" => tool \in ExploreTools)
    BY <1>1 DEF SubagentKinds, SubagentTools, GeneralTools
  <2>2. QED
    BY <1>1, <2>1 DEF GeneralTools, ExploreTools, ToolNames, readOnlyTools, writeTools, SubagentKinds
<1>2. CASE kind \notin SubagentKinds
  <2>1. tool \in ToolNames /\ (tool = "task" => kind = "agent")
    BY <1>2 DEF DefaultTools
  <2>2. kind = "plan" => tool \in readOnlyTools
    BY <1>2 DEF CanUseTool, Level
  <2>3. QED BY <1>2, <2>1, <2>2 DEF SubagentKinds
<1>3. QED BY <1>1, <1>2

Results == [failed : BOOLEAN, error : BOOLEAN, says : BOOLEAN, long : BOOLEAN, cut : BOOLEAN]

\* A tool's result says that it failed, but for a reply that was cut.
Honest == {r \in Results : r.failed /\ ~r.says => r.cut}

\* The same of the message, whose last line may be lost.
Messages == {m \in Results : m.failed /\ ~m.says => m.long \/ m.cut}

Outcomes == {Outcome(how) : how \in {"answered", "cut", "stopped"}}

LEMMA HonestResults ==
  /\ Done \in Honest /\ Refused \in Honest /\ Unfetched \in Honest
  /\ \A bad, long \in BOOLEAN : ShellResult(bad, long) \in Honest
  /\ \A o \in Outcomes : TaskResult(o) \in Honest
<1>1. Done \in Honest /\ Refused \in Honest /\ Unfetched \in Honest
  BY DEF Done, Refused, Unfetched, Result, Honest, Results
<1>2. ASSUME NEW bad \in BOOLEAN, NEW long \in BOOLEAN
      PROVE  ShellResult(bad, long) \in Honest
  BY DEF ShellResult, Result, Honest, Results
<1>3. ASSUME NEW o \in Outcomes PROVE TaskResult(o) \in Honest
  <2>1. CASE o = Outcome("answered")
    BY <2>1 DEF TaskResult, Outcome, Result, Honest, Results
  <2>2. CASE o = Outcome("cut")
    BY <2>2 DEF TaskResult, Outcome, Result, Honest, Results
  <2>3. CASE o = Outcome("stopped")
    BY <2>3 DEF TaskResult, Outcome, Result, Honest, Results
  <2>4. QED BY <2>1, <2>2, <2>3 DEF Outcomes
<1>4. QED BY <1>1, <1>2, <1>3

LEMMA HonestMessages ==
  ASSUME NEW s, NEW tool, NEW r \in Honest
  PROVE  Message(s, tool, r) \in Messages
<1> DEFINE lost == r.long /\ tool = "shell_exec"
           kept == r.says /\ ~lost
           q == TruncateOutput(r, tool)
<1>1. kept \in BOOLEAN /\ (r.failed /\ ~kept => r.long \/ r.cut)
  BY DEF Honest, Results
<1>2. q = [r EXCEPT !.says = kept]
  BY DEF TruncateOutput
<1>3. q \in Messages
  <2> HIDE DEF kept, q
  <2>1. QED BY <1>1, <1>2 DEF Honest, Messages, Results
<1>4. CASE ses[s].kind \in SubagentKinds /\ q.error
  <2>1. Message(s, tool, r) = [q EXCEPT !.says = TRUE]
    BY <1>4 DEF Message, Content
  <2> HIDE DEF q
  <2>2. QED BY <1>3, <2>1 DEF Messages, Results
<1>5. CASE ~(ses[s].kind \in SubagentKinds /\ q.error)
  <2>1. Message(s, tool, r) = [q EXCEPT !.says = q.says]
    BY <1>5 DEF Message, Content
  <2> HIDE DEF q
  <2>2. QED BY <1>3, <2>1 DEF Messages, Results
<1>6. QED BY <1>4, <1>5

(***************************************************************************)
(* The tree of a session.                                                  *)
(***************************************************************************)
LEMMA Shape ==
  /\ \A t \in Trees : Root(t) \in Session /\ Root(t)[1] = t /\ Root(t)[2] = "root"
  /\ \A t \in Agents : Sub(t) \in Session /\ Sub(t)[1] = t /\ Sub(t)[2] = "sub"
  /\ Agents \subseteq Trees
  /\ \A s \in Session : \/ s[1] \in Trees /\ s = Root(s[1])
                        \/ s[1] \in Agents /\ s = Sub(s[1])
  BY DEF Root, Sub, Session, Agents

(***************************************************************************)
(* Type correctness.  How many rounds and calls a session has left depends *)
(* on where it is, and so does what it holds.                              *)
(***************************************************************************)
Steps == {"off", "round", "stream", "calls", "dispatch", "call", "message", "ended"}

SeenWork == [Places -> Nat] \cup SUBSET Trees
Seen == {None} \cup SeenWork \cup SubagentKinds

Calls == [tool : ToolNames, seen : Seen, raced : BOOLEAN, held : BOOLEAN]

LEMMA SeenKinds == None \in Seen /\ SubagentKinds \subseteq Seen
  BY DEF Seen

SessionRecord ==
  [kind : SessionKinds \cup {None}, at : Steps, round : 0 .. MaxRounds, left : Nat,
   has : {None} \cup Calls \cup Messages \cup Outcomes]

KindsOf(s) == IF s[2] = "sub" THEN SubagentKinds ELSE Roots[s[1]]

\* What a call has read.
SeenType(call) ==
  call.seen # None =>
    /\ call.tool = "file_edit" => call.seen \in [Places -> Nat]
    /\ call.tool \in {"git_add", "git_commit"} => call.seen \subseteq Trees

Legal(s, r) ==
  /\ r \in SessionRecord
  /\ r.at # "off" => r.kind \in SessionKinds \cap KindsOf(s)
  /\ r.at = "off" => r.left = 0 /\ r.kind = None
  /\ r.at # "off" => r.left <= MaxCalls[r.kind]
  /\ r.at \in {"stream", "calls", "dispatch", "call", "message"} => r.round < MaxRounds
  /\ r.at \in {"dispatch", "call", "message"} => r.left > 0
  /\ r.at = "call" => r.has \in Calls /\ Dispatches(r.kind, r.has.tool) /\ SeenType(r.has)
  /\ r.at = "message" => r.has \in Messages
  /\ r.at = "ended" /\ s[2] = "sub" => r.has \in Outcomes

WorkType ==
  /\ cancelled \subseteq Agents /\ expired \subseteq Agents
  /\ file \in [Places -> Nat]
  /\ index \subseteq Trees /\ head \subseteq Trees /\ remote \subseteq Trees
  /\ leftover \in BOOLEAN
  /\ told \in [edits : SUBSET Places, staged : SUBSET Trees, commits : SUBSET Trees]
  /\ after \in [Agents -> 0 .. 2]

TypeInv ==
  /\ ses \in [Session -> SessionRecord]
  /\ \A s \in Session : Legal(s, ses[s])
  /\ WorkType

LEMMA TypeInvOK == TypeInv => TypeOK
<1> SUFFICES ASSUME TypeInv PROVE TypeOK
  OBVIOUS
<1>1. ASSUME NEW s \in Session
      PROVE  /\ ses[s].kind \in SessionKinds \cup {None}
             /\ ses[s].at \in Steps
             /\ ses[s].round \in 0 .. MaxRounds
             /\ ses[s].left \in IF At(s, "off") THEN {0} ELSE 0 .. MaxCalls[ses[s].kind]
             /\ At(s, "call") => ses[s].has.tool \in Registered(ses[s].kind)
  <2>1. Legal(s, ses[s])
    BY DEF TypeInv
  <2>2. At(s, "call") => ses[s].has.tool \in Registered(ses[s].kind)
    BY <2>1, DispatchedTool DEF Legal, At
  <2>3. ses[s].kind \in SessionKinds => MaxCalls[ses[s].kind] \in Nat
    BY SessionsAssumption DEF SessionsAssumption
  <2>4. QED BY <2>1, <2>2, <2>3 DEF Legal, SessionRecord, At
<1>2. QED BY <1>1 DEF TypeInv, WorkType, TypeOK, Steps

LEMMA OffLegal ==
  ASSUME NEW s \in Session
  PROVE  /\ Off \in SessionRecord /\ Legal(s, Off)
         /\ \A kind \in SessionKinds \cap KindsOf(s) :
              Begun(kind) \in SessionRecord /\ Legal(s, Begun(kind))
<1>1. MaxRounds \in Nat \ {0} /\ MaxCalls \in [SessionKinds -> Nat \ {0}]
  BY SessionsAssumption DEF SessionsAssumption
<1>2. Off \in SessionRecord /\ Legal(s, Off)
  BY <1>1 DEF Off, Legal, SessionRecord, Steps
<1>3. ASSUME NEW kind \in SessionKinds \cap KindsOf(s)
      PROVE  Begun(kind) \in SessionRecord /\ Legal(s, Begun(kind))
  BY <1>1 DEF Begun, Legal, SessionRecord, Steps
<1>4. QED BY <1>2, <1>3

LEMMA InitType == Init => TypeInv
<1> SUFFICES ASSUME Init PROVE TypeInv
  OBVIOUS
<1>1. ses \in [Session -> SessionRecord] /\ \A s \in Session : Legal(s, ses[s])
  BY OffLegal DEF Init
<1>2. file \in [Places -> Nat] /\ after \in [Agents -> 0 .. 2]
  BY DEF Init
<1>3. told \in [edits : SUBSET Places, staged : SUBSET Trees, commits : SUBSET Trees]
  BY DEF Init
<1>4. WorkType
  BY <1>2, <1>3 DEF Init, WorkType
<1>5. QED BY <1>1, <1>4 DEF TypeInv

(***************************************************************************)
(* The steps.  A step is some session's own; of the others it changes, at  *)
(* most, that a call of theirs was raced.  Of a task tool that waits for   *)
(* its subagent only Spawns and TaskReturns are not like that.             *)
(***************************************************************************)
Busy(s) == Runs(s, "task") /\ ses[s].has.seen # None

Kept(d) ==
  \/ ses'[d] = ses[d]
  \/ /\ At(d, "call") /\ ses[d].has.seen # None
     /\ ses'[d] = [ses[d] EXCEPT !.has.raced = TRUE]

Plain(s) ==
  /\ ses' = [d \in Session |-> ses'[d]]
  /\ Legal(s, ses'[s])
  /\ ses'[s].at # "off"
  /\ s[2] = "sub" => ses[s].at # "off"
  /\ ~Busy(s) \/ Busy(s)'
  /\ At(s, "dispatch")' => s[1] \notin cancelled
  /\ \A d \in Session \ {s} : Kept(d)

LEMMA KeptLegal ==
  ASSUME TypeInv, NEW d \in Session, Kept(d)
  PROVE  /\ Legal(d, ses'[d])
         /\ ses'[d].at = ses[d].at /\ ses'[d].kind = ses[d].kind
         /\ At(d, "call") => /\ ses'[d].has.tool = ses[d].has.tool
                             /\ ses'[d].has.seen = ses[d].has.seen
         /\ Busy(d)' <=> Busy(d)
<1>1. ses[d] \in SessionRecord /\ Legal(d, ses[d])
  BY DEF TypeInv
<1>2. CASE ses'[d] = ses[d]
  BY <1>1, <1>2 DEF Busy, Runs, At
<1>3. CASE At(d, "call") /\ ses'[d] = [ses[d] EXCEPT !.has.raced = TRUE]
  <2>1. ses[d].has \in Calls /\ ses[d].at = "call"
    BY <1>1, <1>3 DEF Legal, At
  <2> DEFINE h == [ses[d].has EXCEPT !.raced = TRUE]
  <2>2. h \in Calls /\ h.tool = ses[d].has.tool /\ h.seen = ses[d].has.seen
    BY <2>1 DEF Calls
  <2>3. ses'[d] = [ses[d] EXCEPT !.has = h]
    BY <1>1, <1>3 DEF SessionRecord
  <2> HIDE DEF h
  <2>4. /\ ses'[d] \in SessionRecord /\ ses'[d].has = h
        /\ ses'[d].at = ses[d].at /\ ses'[d].kind = ses[d].kind
        /\ ses'[d].round = ses[d].round /\ ses'[d].left = ses[d].left
    BY <1>1, <2>2, <2>3 DEF SessionRecord
  <2>5. Legal(d, ses'[d])
    BY <1>1, <2>1, <2>2, <2>4 DEF Legal, SeenType
  <2>6. QED BY <2>1, <2>2, <2>4, <2>5 DEF Busy, Runs, At
<1>4. QED BY <1>2, <1>3 DEF Kept

LEMMA PlainType ==
  ASSUME TypeInv, NEW s \in Session, Plain(s), WorkType'
  PROVE  TypeInv'
<1>1. \A d \in Session : Legal(d, ses'[d])
  BY KeptLegal DEF Plain
<1>2. \A d \in Session : ses'[d] \in SessionRecord
  BY <1>1 DEF Legal
<1>3. ses' \in [Session -> SessionRecord]
  BY <1>2 DEF Plain
<1>4. QED BY <1>1, <1>3 DEF TypeInv

\* One session's record changes, and no other.
LEMMA OwnPlain ==
  ASSUME TypeInv, NEW s \in Session, NEW r, ses' = [ses EXCEPT ![s] = r], Legal(s, r),
         r.at # "off", s[2] = "sub" => ses[s].at # "off", ~Busy(s) \/ Busy(s)',
         r.at = "dispatch" => s[1] \notin cancelled
  PROVE  Plain(s) /\ ses'[s] = r
<1>1. ses'[s] = r /\ \A d \in Session \ {s} : ses'[d] = ses[d]
  BY DEF TypeInv
<1>2. ses' = [d \in Session |-> ses'[d]]
  BY DEF TypeInv
<1>3. QED BY <1>1, <1>2 DEF Plain, Kept, At

\* A session outside the task tool.
LEMMA NotBusy ==
  ASSUME TypeInv, NEW s \in Session
  PROVE  /\ ses[s] \in SessionRecord /\ Legal(s, ses[s])
         /\ ~At(s, "call") => ~Busy(s)
         /\ At(s, "call") /\ (ses[s].has.tool # "task" \/ ses[s].has.seen = None) => ~Busy(s)
  BY DEF TypeInv, Busy, Runs, At

LEMMA EndsPlain ==
  ASSUME TypeInv, NEW s \in Session, ~At(s, "off"), ~Busy(s),
         NEW how \in {"answered", "cut", "stopped"}, Ends(s, Outcome(how))
  PROVE  Plain(s) /\ At(s, "ended")'
<1>1. ses[s] \in SessionRecord /\ Legal(s, ses[s])
  BY DEF TypeInv
<1> DEFINE h == IF s[2] = "sub" THEN Outcome(how) ELSE None
           r == [ses[s] EXCEPT !.at = "ended", !.left = 0, !.has = h]
<1>2. h \in {None} \cup Outcomes /\ (s[2] = "sub" => h \in Outcomes)
  BY DEF Outcomes
<1>3. ses' = [ses EXCEPT ![s] = r]
  BY DEF Ends
<1> HIDE DEF h
<1>4. r \in SessionRecord /\ r.at = "ended" /\ r.left = 0 /\ r.has = h /\ r.kind = ses[s].kind
  BY <1>1, <1>2 DEF SessionRecord, Steps
<1> HIDE DEF r
<1>5. ses[s].kind \in SessionKinds => MaxCalls[ses[s].kind] \in Nat
  BY SessionsAssumption DEF SessionsAssumption
<1>6. Legal(s, r)
  BY <1>1, <1>2, <1>4, <1>5 DEF Legal, At
<1>7. QED
  BY <1>3, <1>4, <1>6, OwnPlain DEF At

LEMMA StopsPlain ==
  ASSUME TypeInv, NEW s \in Session, ~At(s, "off"), ~Busy(s), Stops(s)
  PROVE  Plain(s) /\ At(s, "ended")'
  BY EndsPlain DEF Stops

LEMMA AnswerLegal ==
  ASSUME TypeInv, NEW s \in Session, ses[s].at \in {"dispatch", "call"},
         NEW tool, NEW res \in Honest
  PROVE  LET r == [ses[s] EXCEPT !.at = "message", !.has = Message(s, tool, res)]
         IN Legal(s, r) /\ r.at = "message"
<1>1. ses[s] \in SessionRecord /\ Legal(s, ses[s])
  BY DEF TypeInv
<1> DEFINE m == Message(s, tool, res)
           r == [ses[s] EXCEPT !.at = "message", !.has = m]
<1>2. m \in Messages
  BY HonestMessages
<1> HIDE DEF m
<1>3. /\ r \in SessionRecord /\ r.at = "message" /\ r.has = m
      /\ r.kind = ses[s].kind /\ r.round = ses[s].round /\ r.left = ses[s].left
  BY <1>1, <1>2 DEF SessionRecord, Steps
<1> HIDE DEF r
<1>4. Legal(s, r)
  BY <1>1, <1>2, <1>3 DEF Legal
<1>5. QED BY <1>3, <1>4 DEF m, r

LEMMA AnswersPlain ==
  ASSUME TypeInv, NEW s \in Session, ses[s].at \in {"dispatch", "call"}, ~Busy(s),
         NEW tool, NEW res \in Honest, Answers(s, tool, res)
  PROVE  Plain(s) /\ At(s, "message")'
<1> DEFINE r == [ses[s] EXCEPT !.at = "message", !.has = Message(s, tool, res)]
<1>1. ses' = [ses EXCEPT ![s] = r]
  BY DEF Answers
<1>2. Legal(s, r) /\ r.at = "message"
  BY AnswerLegal
<1> HIDE DEF r
<1>3. QED BY <1>1, <1>2, OwnPlain DEF At

\* A call that wrote: other trees' calls are raced.
LEMMA RacedPlain ==
  ASSUME TypeInv, NEW s \in Session, NEW r, Legal(s, r), r.at \in {"call", "message"},
         ~At(s, "off"), ~Busy(s), NEW tool,
         ses' = Race([ses EXCEPT ![s] = r], s[1], tool)
  PROVE  /\ Plain(s) /\ ses'[s] = r
         /\ \A d \in Session : d[1] # s[1] /\ Runs(d, tool) /\ ses[d].has.seen # None
              => ses'[d] = [ses[d] EXCEPT !.has.raced = TRUE]
<1> DEFINE new == [ses EXCEPT ![s] = r]
<1>1. new[s] = r /\ \A d \in Session \ {s} : new[d] = ses[d]
  BY DEF TypeInv
<1>2. \A d \in Session :
        ses'[d] = IF d[1] # s[1] /\ Runs(d, tool) /\ ses[d].has.seen # None
                  THEN [new[d] EXCEPT !.has.raced = TRUE] ELSE new[d]
  BY DEF Race
<1>3. ses' = [d \in Session |-> ses'[d]]
  BY DEF Race
<1> HIDE DEF new
<1>4. QED BY <1>1, <1>2, <1>3 DEF Plain, Kept, At, Runs

(***************************************************************************)
(* The steps that change neither the file, the index nor the branch, nor   *)
(* what was reported.  What a call has read stays as fresh as it was.      *)
(***************************************************************************)
Fresh(s) ==
  At(s, "call") /\ ses[s].has.seen # None /\ ~ses[s].has.raced =>
    /\ ses[s].has.tool = "file_edit" => ses[s].has.seen = file
    /\ ses[s].has.tool = "git_add" => ses[s].has.seen = index
    /\ ses[s].has.tool = "git_commit" => ses[s].has.seen = head

Calm(s) ==
  /\ Plain(s)
  /\ Fresh(s) => Fresh(s)'
  /\ UNCHANGED <<file, index, head, told, cancelled, expired>>
  /\ WorkType'

\* A cancelled task has begun.
Started == \A t \in cancelled : ~At(Root(t), "off")

LEMMA StartRootCalm ==
  ASSUME TypeInv, Started, NEW t \in Trees, NEW kind \in Roots[t], StartRoot(t, kind)
  PROVE  Calm(Root(t)) /\ after' = after
<1> DEFINE s == Root(t)
           r == IF kind = "client" THEN [Begun(kind) EXCEPT !.at = "dispatch", !.left = 1]
                ELSE Begun(kind)
<1>1. s \in Session /\ s[1] = t /\ s[2] = "root" /\ At(s, "off") /\ s[1] \notin cancelled
  BY Shape DEF StartRoot, Started
<1>2. kind \in SessionKinds \cap KindsOf(s)
  BY <1>1, SessionsAssumption DEF KindsOf, SessionsAssumption, SessionKinds
<1>3. MaxRounds \in Nat \ {0} /\ MaxCalls[kind] \in Nat \ {0}
  BY <1>2, SessionsAssumption DEF SessionsAssumption
<1>4. Begun(kind) \in SessionRecord /\ Legal(s, Begun(kind))
  BY <1>1, <1>2, OffLegal
<1>5. Legal(s, r) /\ r.at \in {"round", "dispatch"}
  <2>1. CASE kind = "client"
    <3> DEFINE q == [kind |-> kind, at |-> "dispatch", round |-> 0, left |-> 1, has |-> None]
    <3>1. r = q
      BY <2>1 DEF Begun
    <3>2. q \in SessionRecord
      BY <1>2, <1>3 DEF SessionRecord, Steps
    <3>3. Legal(s, q)
      BY <1>2, <1>3, <3>2 DEF Legal
    <3>4. QED BY <3>1, <3>3
  <2>2. CASE kind # "client"
    BY <1>4, <2>2 DEF Begun
  <2>3. QED BY <2>1, <2>2
<1>6. ses' = [ses EXCEPT ![s] = r]
  BY DEF StartRoot
<1>7. ~Busy(s)
  BY <1>1 DEF Busy, Runs, At
<1> HIDE DEF s, r
<1>8. Plain(s) /\ ses'[s] = r
  BY <1>1, <1>5, <1>6, <1>7, OwnPlain
<1>9. Fresh(s)'
  BY <1>5, <1>8 DEF Fresh, At
<1>10. WorkType' /\ UNCHANGED <<file, index, head, told, cancelled, expired, after>>
  BY DEF StartRoot, TypeInv, WorkType, work
<1>11. QED BY <1>8, <1>9, <1>10 DEF Calm, s

\* The steps of a loop, one field after another.
LEMMA LoopLegal ==
  ASSUME TypeInv, NEW s \in Session, ~At(s, "off")
  PROVE  LET r == ses[s] IN
         /\ At(s, "round") /\ r.round # MaxRounds =>
              Legal(s, [r EXCEPT !.at = "stream"]) /\ [r EXCEPT !.at = "stream"].at = "stream"
         /\ At(s, "stream") => \A n \in 1 .. MaxCalls[r.kind] :
              /\ Legal(s, [r EXCEPT !.at = "calls", !.left = n])
              /\ [r EXCEPT !.at = "calls", !.left = n].at = "calls"
         /\ At(s, "calls") =>
              /\ Legal(s, [r EXCEPT !.at = "round", !.round = @ + 1])
              /\ [r EXCEPT !.at = "round", !.round = @ + 1].at = "round"
         /\ At(s, "calls") /\ r.left # 0 =>
              Legal(s, [r EXCEPT !.at = "dispatch"]) /\ [r EXCEPT !.at = "dispatch"].at = "dispatch"
         /\ At(s, "message") =>
              /\ Legal(s, [r EXCEPT !.at = "calls", !.left = @ - 1, !.has = None])
              /\ [r EXCEPT !.at = "calls", !.left = @ - 1, !.has = None].at = "calls"
<1> DEFINE r == ses[s]
<1>1. r \in SessionRecord /\ Legal(s, r) /\ r.at # "off"
  BY DEF TypeInv, At
<1>2. MaxRounds \in Nat \ {0} /\ MaxCalls[r.kind] \in Nat
  BY <1>1, SessionsAssumption DEF SessionsAssumption, Legal
<1> HIDE DEF r
<1>3. ASSUME r.at = "round", r.round # MaxRounds
      PROVE  Legal(s, [r EXCEPT !.at = "stream"]) /\ [r EXCEPT !.at = "stream"].at = "stream"
  BY <1>1, <1>2, <1>3 DEF Legal, SessionRecord, Steps
<1>4. ASSUME r.at = "stream", NEW n \in 1 .. MaxCalls[r.kind]
      PROVE  /\ Legal(s, [r EXCEPT !.at = "calls", !.left = n])
             /\ [r EXCEPT !.at = "calls", !.left = n].at = "calls"
  <2> DEFINE q == [r EXCEPT !.at = "calls", !.left = n]
  <2>1. n \in Nat /\ n <= MaxCalls[r.kind]
    BY <1>2, <1>4
  <2>2. /\ q \in SessionRecord /\ q.at = "calls" /\ q.kind = r.kind /\ q.left = n
        /\ q.round = r.round
    BY <1>1, <2>1 DEF SessionRecord, Steps
  <2> HIDE DEF q
  <2>3. Legal(s, q)
    BY <1>1, <1>4, <2>1, <2>2 DEF Legal
  <2>4. QED BY <2>2, <2>3 DEF q
<1>5. ASSUME r.at = "calls"
      PROVE  /\ Legal(s, [r EXCEPT !.at = "round", !.round = @ + 1])
             /\ [r EXCEPT !.at = "round", !.round = @ + 1].at = "round"
  <2> DEFINE q == [r EXCEPT !.at = "round", !.round = r.round + 1]
  <2>1. r.round + 1 \in 0 .. MaxRounds
    BY <1>1, <1>2, <1>5 DEF Legal, SessionRecord
  <2>2. q \in SessionRecord /\ q.at = "round" /\ q.kind = r.kind /\ q.left = r.left
    BY <1>1, <2>1 DEF SessionRecord, Steps
  <2> HIDE DEF q
  <2>3. Legal(s, q)
    BY <1>1, <2>2 DEF Legal
  <2>4. QED BY <2>2, <2>3 DEF q
<1>6. ASSUME r.at = "calls", r.left # 0
      PROVE  Legal(s, [r EXCEPT !.at = "dispatch"]) /\ [r EXCEPT !.at = "dispatch"].at = "dispatch"
  BY <1>1, <1>2, <1>6 DEF Legal, SessionRecord, Steps
<1>7. ASSUME r.at = "message"
      PROVE  /\ Legal(s, [r EXCEPT !.at = "calls", !.left = @ - 1, !.has = None])
             /\ [r EXCEPT !.at = "calls", !.left = @ - 1, !.has = None].at = "calls"
  <2> DEFINE q == [r EXCEPT !.at = "calls", !.left = r.left - 1, !.has = None]
  <2>1. r.left - 1 \in Nat /\ r.left - 1 <= MaxCalls[r.kind]
    BY <1>1, <1>2, <1>7 DEF Legal, SessionRecord
  <2>2. /\ q \in SessionRecord /\ q.at = "calls" /\ q.kind = r.kind /\ q.left = r.left - 1
        /\ q.round = r.round
    BY <1>1, <2>1 DEF SessionRecord, Steps
  <2> HIDE DEF q
  <2>3. Legal(s, q)
    BY <1>1, <1>7, <2>1, <2>2 DEF Legal
  <2>4. QED BY <2>2, <2>3 DEF q
<1>8. QED
  BY <1>3, <1>4, <1>5, <1>6, <1>7 DEF r, At

LEMMA LoopCalm ==
  ASSUME TypeInv, NEW s \in Session,
         Round(s) \/ StreamEnds(s) \/ StreamStopped(s) \/ NextCall(s) \/ Told(s)
  PROVE  Calm(s) /\ after' = after
<1> DEFINE Loop == {"round", "stream", "calls", "message"}
<1>1. ses[s].at \in Loop
  BY DEF Round, StreamEnds, StreamStopped, NextCall, Told, At
<1>2. ~At(s, "off") /\ ~Busy(s)
  BY <1>1 DEF Busy, Runs, At
<1>3. ASSUME NEW how \in {"answered", "cut", "stopped"}, Ends(s, Outcome(how))
      PROVE  Plain(s) /\ ~At(s, "call")'
  BY <1>2, <1>3, EndsPlain DEF At
<1>4. ASSUME Stops(s) PROVE Plain(s) /\ ~At(s, "call")'
  BY <1>3, <1>4 DEF Stops
<1>5. CASE Round(s)
  <2>1. ASSUME Goes(s, "stream") /\ ses[s].round # MaxRounds
        PROVE  Plain(s) /\ ~At(s, "call")'
    <3> DEFINE r == [ses[s] EXCEPT !.at = "stream"]
    <3>1. ses' = [ses EXCEPT ![s] = r] /\ Legal(s, r) /\ r.at = "stream"
      BY <1>2, <1>5, <2>1, LoopLegal DEF Goes, Round
    <3> HIDE DEF r
    <3>2. QED BY <1>2, <3>1, OwnPlain DEF At
  <2>2. Plain(s) /\ ~At(s, "call")'
    BY <1>4, <1>5, <2>1 DEF Round
  <2>3. QED BY <1>5, <2>2 DEF Calm, Fresh, Round, TypeInv, WorkType, work
<1>6. CASE StreamEnds(s)
  <2>1. ASSUME NEW n \in 1 .. MaxCalls[ses[s].kind],
               ses' = [ses EXCEPT ![s].at = "calls", ![s].left = n]
        PROVE  Plain(s) /\ ~At(s, "call")'
    <3> DEFINE r == [ses[s] EXCEPT !.at = "calls", !.left = n]
    <3>1. ses' = [ses EXCEPT ![s] = r]
      BY <2>1
    <3>2. Legal(s, r) /\ r.at = "calls"
      BY <1>2, <1>6, LoopLegal DEF StreamEnds
    <3> HIDE DEF r
    <3>3. QED BY <1>2, <3>1, <3>2, OwnPlain DEF At
  <2>2. Plain(s) /\ ~At(s, "call")'
    BY <1>3, <1>6, <2>1 DEF StreamEnds
  <2>3. QED BY <1>6, <2>2 DEF Calm, Fresh, StreamEnds, TypeInv, WorkType, work
<1>7. CASE StreamStopped(s)
  <2>1. Plain(s) /\ ~At(s, "call")'
    BY <1>4, <1>7 DEF StreamStopped
  <2>2. QED BY <1>7, <2>1 DEF Calm, Fresh, StreamStopped, TypeInv, WorkType, work
<1>8. CASE NextCall(s)
  <2>1. ASSUME ses[s].left = 0
        PROVE  Plain(s) /\ ~At(s, "call")'
    <3> DEFINE r == [ses[s] EXCEPT !.at = "round", !.round = @ + 1]
    <3>1. ses' = [ses EXCEPT ![s] = r] /\ Legal(s, r) /\ r.at = "round"
      BY <1>2, <1>8, <2>1, LoopLegal DEF NextCall
    <3> HIDE DEF r
    <3>2. QED BY <1>2, <3>1, OwnPlain DEF At
  <2>2. ASSUME ses[s].left # 0 /\ ~CtxDone(s)
        PROVE  Plain(s) /\ ~At(s, "call")'
    <3> DEFINE r == [ses[s] EXCEPT !.at = "dispatch"]
    <3>1. ses' = [ses EXCEPT ![s] = r] /\ Legal(s, r) /\ r.at = "dispatch"
      BY <1>2, <1>8, <2>2, LoopLegal DEF NextCall, Goes
    <3> HIDE DEF r
    <3>2. s[1] \notin cancelled
      BY <2>2 DEF CtxDone
    <3>3. QED BY <1>2, <3>1, <3>2, OwnPlain DEF At
  <2>3. ASSUME ses[s].left # 0 /\ CtxDone(s)
        PROVE  Plain(s) /\ ~At(s, "call")'
    BY <1>4, <1>8, <2>3 DEF NextCall
  <2>4. Plain(s) /\ ~At(s, "call")'
    BY <2>1, <2>2, <2>3 DEF At
  <2>5. QED BY <1>8, <2>4 DEF Calm, Fresh, NextCall, TypeInv, WorkType, work
<1>9. CASE Told(s)
  <2>1. ASSUME ses[s].kind # "client"
        PROVE  Plain(s) /\ ~At(s, "call")'
    <3> DEFINE r == [ses[s] EXCEPT !.at = "calls", !.left = @ - 1, !.has = None]
    <3>1. ses' = [ses EXCEPT ![s] = r] /\ Legal(s, r) /\ r.at = "calls"
      BY <1>2, <1>9, <2>1, LoopLegal DEF Told
    <3> HIDE DEF r
    <3>2. QED BY <1>2, <3>1, OwnPlain DEF At
  <2>2. Plain(s) /\ ~At(s, "call")'
    BY <1>3, <1>9, <2>1 DEF Told
  <2>3. QED BY <1>9, <2>2 DEF Calm, Fresh, Told, TypeInv, WorkType, work
<1>10. after' = after
  BY DEF Round, StreamEnds, StreamStopped, NextCall, Told
<1>11. QED BY <1>5, <1>6, <1>7, <1>8, <1>9, <1>10

LEMMA CallType ==
  ASSUME TypeInv, NEW s \in Session, At(s, "call")
  PROVE  /\ ses[s] \in SessionRecord /\ ses[s].has \in Calls /\ ses[s].kind \in SessionKinds
         /\ Dispatches(ses[s].kind, ses[s].has.tool) /\ SeenType(ses[s].has)
         /\ ses[s].kind \in KindsOf(s)
  BY DEF TypeInv, Legal, At

\* Another call in the hands of a session.
LEMMA HoldsCall ==
  ASSUME TypeInv, NEW s \in Session, ses[s].at \in {"dispatch", "call"},
         NEW c \in Calls, Dispatches(ses[s].kind, c.tool), SeenType(c),
         ses' = [ses EXCEPT ![s].at = "call", ![s].has = c], ~Busy(s) \/ Busy(s)'
  PROVE  Plain(s) /\ At(s, "call")' /\ ses'[s].has = c
<1>1. ses[s] \in SessionRecord /\ Legal(s, ses[s])
  BY DEF TypeInv
<1> DEFINE r == [ses[s] EXCEPT !.at = "call", !.has = c]
<1>2. ses' = [ses EXCEPT ![s] = r]
  BY DEF TypeInv
<1>3. /\ r \in SessionRecord /\ r.at = "call" /\ r.has = c /\ r.kind = ses[s].kind
      /\ r.left = ses[s].left /\ r.round = ses[s].round
  BY <1>1 DEF SessionRecord, Steps
<1> HIDE DEF r
<1>4. Legal(s, r)
  BY <1>1, <1>3 DEF Legal
<1>5. Plain(s) /\ ses'[s] = r
  BY <1>2, <1>3, <1>4, OwnPlain
<1>6. QED BY <1>3, <1>5 DEF At

\* Dispatch runs the tool or refuses it.
LEMMA DispatchCalm ==
  ASSUME TypeInv, NEW s \in Session, NEW tool, Dispatch(s, tool)
  PROVE  Calm(s) /\ ~At(s, "dispatch")'
<1>1. ses[s].at = "dispatch" /\ ~Busy(s) /\ ses[s].kind \in SessionKinds
  BY DEF Dispatch, At, Busy, Runs, TypeInv, Legal
<1>2. ASSUME Dispatches(ses[s].kind, tool)
      PROVE  Plain(s) /\ Fresh(s)' /\ ~At(s, "dispatch")'
  <2>1. tool \in ToolNames
    BY <1>1, <1>2, DispatchedTool
  <2>2. Call(tool) \in Calls /\ Call(tool).seen = None /\ Call(tool).tool = tool
    BY <2>1, SeenKinds DEF Call, Calls
  <2>3. ses' = [ses EXCEPT ![s].at = "call", ![s].has = Call(tool)]
    BY <1>2 DEF Dispatch
  <2>4. Plain(s) /\ At(s, "call")' /\ ses'[s].has = Call(tool)
    BY <1>1, <1>2, <2>2, <2>3, HoldsCall DEF SeenType
  <2>5. QED BY <2>2, <2>4 DEF Fresh, At
<1>3. ASSUME ~Dispatches(ses[s].kind, tool)
      PROVE  Plain(s) /\ Fresh(s)' /\ ~At(s, "dispatch")'
  <2>1. Plain(s) /\ At(s, "message")'
    BY <1>1, <1>3, AnswersPlain, HonestResults DEF Dispatch
  <2>2. QED BY <2>1 DEF Fresh, At
<1>4. \A t \in Agents : after[t] < 2 => after[t] + 1 \in 0 .. 2
  BY DEF TypeInv, WorkType
<1>5. after' \in [Agents -> 0 .. 2]
  BY <1>4 DEF Dispatch, TypeInv, WorkType
<1>6. WorkType' /\ UNCHANGED <<file, index, head, told, cancelled, expired>>
  BY <1>5 DEF Dispatch, TypeInv, WorkType, work
<1>7. QED BY <1>2, <1>3, <1>6 DEF Calm

\* A call that returns, with nothing shared changed but what nobody reads.
LEMMA ReturnsCalm ==
  ASSUME TypeInv, NEW s \in Session, At(s, "call"), ~Busy(s),
         NEW res \in Honest, Returns(s, res),
         UNCHANGED <<file, index, head, told, cancelled, expired, after>>,
         remote' \in {remote, head}, leftover' \in BOOLEAN
  PROVE  Calm(s) /\ after' = after
<1>1. Plain(s) /\ At(s, "message")'
  BY AnswersPlain DEF Returns, At
<1>2. Fresh(s)'
  BY <1>1 DEF Fresh, At
<1>3. WorkType'
  BY DEF TypeInv, WorkType
<1>4. QED BY <1>1, <1>2, <1>3 DEF Calm

LEMMA SeeCalm ==
  ASSUME TypeInv, NEW s \in Session, EditReads(s) \/ AddReads(s) \/ CommitReads(s)
  PROVE  Calm(s) /\ after' = after
<1> DEFINE tool == ses[s].has.tool
           what == IF tool = "file_edit" THEN file ELSE IF tool = "git_add" THEN index ELSE head
           c == [ses[s].has EXCEPT !.seen = what]
<1>1. /\ At(s, "call") /\ ses[s].has.seen = None
      /\ tool \in {"file_edit", "git_add", "git_commit"}
      /\ ses' = [ses EXCEPT ![s].has.seen = what]
      /\ UNCHANGED <<work, leftover, told, cancelled, expired, after>>
  BY DEF EditReads, AddReads, CommitReads, See, Runs, Keeps
<1>2. /\ ses[s] \in SessionRecord /\ ses[s].has \in Calls
      /\ Dispatches(ses[s].kind, tool) /\ ses[s].at = "call"
  BY <1>1, CallType DEF At
<1>3. /\ what \in Seen
      /\ tool = "file_edit" => what = file /\ what \in [Places -> Nat]
      /\ tool = "git_add" => what = index /\ what \subseteq Trees
      /\ tool = "git_commit" => what = head /\ what \subseteq Trees
  BY <1>1 DEF TypeInv, WorkType, Seen, SeenWork
<1>4. ses' = [ses EXCEPT ![s].at = "call", ![s].has = c]
  BY <1>1, <1>2 DEF TypeInv, SessionRecord
<1>5. ~Busy(s)
  BY <1>1 DEF Busy
<1> HIDE DEF what
<1>6. c \in Calls /\ c.tool = tool /\ c.seen = what
  BY <1>2, <1>3 DEF Calls
<1> HIDE DEF c
<1>7. SeenType(c)
  BY <1>3, <1>6 DEF SeenType
<1>8. Plain(s) /\ At(s, "call")' /\ ses'[s].has = c
  BY <1>2, <1>4, <1>5, <1>6, <1>7, HoldsCall
<1>9. Fresh(s)'
  BY <1>1, <1>3, <1>6, <1>8 DEF Fresh, work
<1>10. WorkType'
  BY <1>1 DEF TypeInv, WorkType, work
<1>11. QED BY <1>1, <1>8, <1>9, <1>10 DEF Calm, work

LEMMA HeldCalm ==
  ASSUME TypeInv, NEW s \in Session, Hangs(s) \/ Resumes(s)
  PROVE  Calm(s) /\ after' = after
<1>1. PICK h \in BOOLEAN : ses' = [ses EXCEPT ![s].has.held = h]
  BY DEF Hangs, Resumes
<1> DEFINE c == [ses[s].has EXCEPT !.held = h]
<1>2. /\ At(s, "call") /\ UNCHANGED <<work, leftover, told, cancelled, expired, after>>
  BY DEF Hangs, Resumes, Held, Keeps
<1>3. /\ ses[s] \in SessionRecord /\ ses[s].has \in Calls /\ ses[s].at = "call"
      /\ Dispatches(ses[s].kind, ses[s].has.tool) /\ SeenType(ses[s].has)
  BY <1>2, CallType DEF At
<1>4. ses' = [ses EXCEPT ![s].at = "call", ![s].has = c]
  BY <1>1, <1>3 DEF TypeInv, SessionRecord
<1>5. /\ c \in Calls /\ c.tool = ses[s].has.tool /\ c.seen = ses[s].has.seen
      /\ c.raced = ses[s].has.raced
  BY <1>3 DEF Calls
<1> HIDE DEF c
<1>6. SeenType(c)
  BY <1>3, <1>5 DEF SeenType
<1>7. Busy(s) => Busy(s)'
  <2>1. ses'[s] = [ses[s] EXCEPT !.at = "call", !.has = c]
    BY <1>4 DEF TypeInv
  <2>2. ses'[s].at = "call" /\ ses'[s].has = c
    BY <2>1, <1>3 DEF SessionRecord
  <2>3. QED BY <1>5, <2>2 DEF Busy, Runs, At
<1>8. Plain(s) /\ At(s, "call")' /\ ses'[s].has = c
  BY <1>3, <1>4, <1>5, <1>6, <1>7, HoldsCall
<1>9. Fresh(s) => Fresh(s)'
  BY <1>2, <1>5, <1>8 DEF Fresh, work
<1>10. WorkType'
  BY <1>2 DEF TypeInv, WorkType, work
<1>11. QED BY <1>2, <1>8, <1>9, <1>10 DEF Calm, work

\* The calls that return without a change of the file, index or branch.
LEMMA QuietCalm ==
  ASSUME TypeInv, NEW s \in Session,
         \/ Refuses(s) \/ ReadsFiles(s) \/ ShowsRepository(s) \/ AsksUser(s) \/ Fetches(s)
         \/ ShellEnds(s) \/ Pushes(s)
  PROVE  Calm(s) /\ after' = after
<1>1. /\ At(s, "call") /\ UNCHANGED <<file, index, head, told, cancelled, expired, after>>
      /\ ses[s].has.tool # "task" \/ ses[s].has.seen = None
  BY DEF Refuses, ReadsFiles, ShowsRepository, AsksUser, Fetches, Looks, ShellEnds, Pushes,
         Runs, Keeps, work
<1>2. ~Busy(s)
  BY <1>1 DEF Busy, Runs
<1>3. \E res \in Honest : Returns(s, res)
  BY HonestResults DEF Refuses, ReadsFiles, ShowsRepository, AsksUser, Fetches, Looks,
                       ShellEnds, Pushes
<1>4. remote' \in {remote, head} /\ leftover' \in BOOLEAN
  BY DEF Refuses, ReadsFiles, ShowsRepository, AsksUser, Fetches, Looks, ShellEnds, Pushes,
         work, TypeInv, WorkType
<1>5. QED BY <1>1, <1>2, <1>3, <1>4, ReturnsCalm

(***************************************************************************)
(* The tree.  A subagent that is on is waited for by the task tool, so     *)
(* that of a task and its subagent only one is at work.                    *)
(***************************************************************************)
TreeInv == \A t \in Agents : ~At(Sub(t), "off") => Busy(Root(t))

LEMMA Alone ==
  ASSUME TreeInv, NEW s \in Session, NEW d \in Session, s # d, s[1] = d[1],
         ~At(s, "off"), ~At(d, "off")
  PROVE  Busy(s) \/ Busy(d)
<1>1. PICK t \in Agents : {s, d} = {Root(t), Sub(t)}
  BY Shape
<1>2. ~At(Sub(t), "off")
  BY <1>1 DEF At
<1>3. Busy(Root(t))
  BY <1>2 DEF TreeInv
<1>4. QED BY <1>1, <1>3

LEMMA PlainTree ==
  ASSUME TypeInv, TreeInv, NEW s \in Session, Plain(s)
  PROVE  TreeInv'
<1> SUFFICES ASSUME NEW t \in Agents, ~At(Sub(t), "off")' PROVE Busy(Root(t))'
  BY DEF TreeInv
<1>1. /\ Sub(t) \in Session /\ Root(t) \in Session /\ Sub(t)[2] = "sub"
  BY Shape
<1>2. ~At(Sub(t), "off")
  BY <1>1, KeptLegal DEF Plain, At
<1>3. Busy(Root(t))
  BY <1>2 DEF TreeInv
<1>4. CASE Root(t) = s
  BY <1>3, <1>4 DEF Plain
<1>5. CASE Root(t) # s
  <2>1. Kept(Root(t))
    BY <1>1, <1>5 DEF Plain
  <2>2. QED BY <1>1, <1>3, <2>1, KeptLegal
<1>6. QED BY <1>4, <1>5

(***************************************************************************)
(* A cancelled tree.  The one call more is of the one session at work.     *)
(***************************************************************************)
AfterInv ==
  \A t \in Agents :
    /\ t \notin cancelled => after[t] = 0
    /\ after[t] <= 1
    /\ after[t] = 1 => \A s \in Session : s[1] = t => ~At(s, "dispatch")

LEMMA PlainAfter ==
  ASSUME TypeInv, AfterInv, Started, NEW s \in Session, Plain(s),
         UNCHANGED <<cancelled, after>>
  PROVE  AfterInv' /\ Started'
<1>1. ASSUME NEW d \in Session, At(d, "dispatch")'
      PROVE  At(d, "dispatch") \/ d[1] \notin cancelled
  BY <1>1, KeptLegal DEF Plain, At
<1>2. \A d \in Session : ~At(d, "off") => ~At(d, "off")'
  BY KeptLegal DEF Plain, At
<1>3. \A t \in Agents : Root(t) \in Session
  BY Shape
<1>4. Started'
  BY <1>2, <1>3 DEF Started, TypeInv, WorkType
<1>5. AfterInv'
  BY <1>1 DEF AfterInv
<1>6. QED BY <1>4, <1>5

LEMMA DispatchAfter ==
  ASSUME TypeInv, TreeInv, AfterInv, Started, NEW s \in Session, NEW tool, Dispatch(s, tool)
  PROVE  AfterInv' /\ Started'
<1>1. Plain(s) /\ ~At(s, "dispatch")' /\ At(s, "dispatch") /\ cancelled' = cancelled
  BY DispatchCalm DEF Calm, Dispatch
<1>2. \A d \in Session : ~At(d, "off") => ~At(d, "off")'
  BY <1>1, KeptLegal DEF Plain, At
<1>3. \A t \in Agents : Root(t) \in Session
  BY Shape
<1>4. Started'
  BY <1>1, <1>2, <1>3 DEF Started, TypeInv, WorkType
<1>5. ASSUME NEW d \in Session, d # s, d[1] = s[1], At(d, "dispatch") PROVE FALSE
  BY <1>1, <1>5, Alone DEF At, Busy, Runs
<1>6. \A d \in Session : At(d, "dispatch")' => d # s /\ At(d, "dispatch")
  BY <1>1, KeptLegal DEF Plain, At
<1>7. ASSUME NEW t \in Agents
      PROVE  /\ t \notin cancelled' => after'[t] = 0
             /\ after'[t] <= 1
             /\ after'[t] = 1 => \A d \in Session : d[1] = t => ~At(d, "dispatch")'
  <2>1. after[t] \in 0 .. 2
    BY DEF TypeInv, WorkType
  <2>2. CASE t = s[1] /\ t \in cancelled
    <3>1. after[t] = 0
      BY <1>1, <2>1, <2>2 DEF AfterInv
    <3>2. after'[t] = 1
      BY <2>2, <3>1 DEF Dispatch
    <3>3. QED BY <1>1, <1>5, <1>6, <2>2, <3>2
  <2>3. CASE ~(t = s[1] /\ t \in cancelled)
    <3>1. after'[t] = after[t]
      BY <2>3 DEF Dispatch
    <3>2. QED BY <1>1, <1>6, <3>1 DEF AfterInv
  <2>4. QED BY <2>2, <2>3
<1>8. QED BY <1>4, <1>7 DEF AfterInv

(***************************************************************************)
(* The task tool.                                                          *)
(***************************************************************************)
LEMMA TaskRoot ==
  ASSUME TypeInv, NEW s \in Session, Runs(s, "task")
  PROVE  s[1] \in Agents /\ s = Root(s[1]) /\ s # Sub(s[1])
<1>1. ses[s].kind = "agent" /\ ses[s].kind \in KindsOf(s)
  BY CallType, DispatchedTool DEF Runs
<1>2. s[2] # "sub"
  BY <1>1 DEF KindsOf, SubagentKinds
<1>3. s[1] \in Trees /\ s = Root(s[1])
  BY <1>2, Shape
<1>4. s[1] \in Agents
  BY <1>1, <1>2, <1>3 DEF KindsOf, Agents
<1>5. QED BY <1>2, <1>3, <1>4, Shape

\* Spawns and TaskReturns change the root and its subagent.
Pair(s) ==
  /\ ses' \in [Session -> SessionRecord]
  /\ Legal(s, ses'[s]) /\ Legal(Sub(s[1]), ses'[Sub(s[1])])
  /\ \A d \in Session \ {s, Sub(s[1])} : ses'[d] = ses[d]
  /\ ses'[s].at \in {"call", "message"} /\ ses'[Sub(s[1])].at \in {"off", "round"}
  /\ ses'[Sub(s[1])].at = "off" \/ Busy(s)'
  /\ Fresh(s)'
  /\ UNCHANGED <<file, index, head, told, cancelled, after>>
  /\ WorkType'

LEMMA SpawnsPair ==
  ASSUME TypeInv, NEW s \in Session, NEW kind \in SubagentKinds, Spawns(s, kind)
  PROVE  Pair(s)
<1> DEFINE u == Sub(s[1])
           c == [ses[s].has EXCEPT !.seen = kind]
           r == [ses[s] EXCEPT !.has = c]
<1>1. Runs(s, "task") /\ s[1] \in Agents /\ s # u /\ u \in Session /\ u[2] = "sub"
  BY TaskRoot, Shape DEF Spawns
<1>2. /\ ses[s] \in SessionRecord /\ ses[s].has \in Calls /\ ses[s].at = "call"
      /\ ses[s].has.tool = "task" /\ Legal(s, ses[s])
  BY <1>1, CallType DEF Runs, At, TypeInv
<1>3. kind # None
  BY SessionsAssumption DEF SessionsAssumption, SubagentKinds, SessionKinds
<1>4. c \in Calls /\ c.tool = "task" /\ c.seen = kind
  <2>1. kind \in Seen
    BY SeenKinds
  <2>2. QED BY <1>2, <2>1 DEF Calls
<1> HIDE DEF c
<1>5. /\ r \in SessionRecord /\ r.at = "call" /\ r.has = c /\ r.kind = ses[s].kind
      /\ r.left = ses[s].left /\ r.round = ses[s].round
  BY <1>2, <1>4 DEF SessionRecord
<1>6. Legal(s, r)
  <2> HIDE DEF r
  <2>1. QED BY <1>2, <1>4, <1>5 DEF Legal, SeenType
<1>7. Begun(kind) \in SessionRecord /\ Legal(u, Begun(kind)) /\ Begun(kind).at = "round"
  <2>1. kind \in SessionKinds \cap KindsOf(u)
    BY <1>1 DEF KindsOf, SubagentKinds, SessionKinds
  <2>2. QED BY <1>1, <2>1, OffLegal DEF Begun
<1>8. ses' = [ses EXCEPT ![u] = Begun(kind), ![s] = r]
  <2>1. ses' = [ses EXCEPT ![u] = Begun(kind), ![s].has.seen = kind]
    BY DEF Spawns
  <2>2. QED BY <1>1, <1>2, <2>1 DEF TypeInv, SessionRecord, r, c
<1>9. ses'[s] = r /\ ses'[u] = Begun(kind) /\ ses' \in [Session -> SessionRecord]
      /\ \A d \in Session \ {s, u} : ses'[d] = ses[d]
  <2> HIDE DEF r, u
  <2>1. QED BY <1>1, <1>5, <1>7, <1>8 DEF TypeInv
<1>10. Busy(s)' /\ Fresh(s)'
  <2> HIDE DEF r
  <2>1. QED BY <1>3, <1>4, <1>5, <1>9 DEF Busy, Runs, At, Fresh
<1>11. WorkType' /\ UNCHANGED <<file, index, head, told, cancelled, after>>
  BY DEF Spawns, Keeps, TypeInv, WorkType, work
<1>12. QED BY <1>5, <1>6, <1>7, <1>9, <1>10, <1>11 DEF Pair

LEMMA ReturnsPair ==
  ASSUME TypeInv, NEW s \in Session, TaskReturns(s)
  PROVE  Pair(s)
<1> DEFINE u == Sub(s[1])
           m == Message(s, "task", TaskResult(ses[u].has))
           r == [ses[s] EXCEPT !.at = "message", !.has = m]
<1>1. /\ Runs(s, "task") /\ s[1] \in Agents /\ s # u /\ u \in Session /\ u[2] = "sub"
      /\ At(u, "ended")
  BY TaskRoot, Shape DEF TaskReturns
<1>2. ses[u].has \in Outcomes
  BY <1>1 DEF TypeInv, Legal, At
<1>3. TaskResult(ses[u].has) \in Honest
  BY <1>2, HonestResults
<1>4. Legal(s, r) /\ r.at = "message"
  BY <1>1, <1>3, AnswerLegal DEF Runs, At
<1>5. Off \in SessionRecord /\ Legal(u, Off) /\ Off.at = "off"
  BY <1>1, OffLegal DEF Off
<1>6. ses' = [ses EXCEPT ![u] = Off, ![s] = r]
  <2>1. ses' = [ses EXCEPT ![u] = Off, ![s].at = "message", ![s].has = m]
    BY DEF TaskReturns
  <2> HIDE DEF m
  <2>2. QED BY <1>1, <2>1 DEF TypeInv, SessionRecord
<1>7. r \in SessionRecord
  BY <1>4 DEF Legal
<1> HIDE DEF r, u
<1>8. ses'[s] = r /\ ses'[u] = Off /\ ses' \in [Session -> SessionRecord]
      /\ \A d \in Session \ {s, u} : ses'[d] = ses[d]
  BY <1>1, <1>5, <1>6, <1>7 DEF TypeInv
<1>9. Fresh(s)'
  BY <1>4, <1>8 DEF Fresh, At
<1>10. WorkType' /\ UNCHANGED <<file, index, head, told, cancelled, after>>
  BY DEF TaskReturns, TypeInv, WorkType, work
<1>11. QED BY <1>4, <1>5, <1>8, <1>9, <1>10 DEF Pair, u

LEMMA PairInv ==
  ASSUME TypeInv, TreeInv, AfterInv, Started, \A d \in Session : Fresh(d), OwnWorkIsKept,
         NEW s \in Session, Runs(s, "task"), Pair(s)
  PROVE  /\ TypeInv' /\ TreeInv' /\ AfterInv' /\ Started'
         /\ (\A d \in Session : Fresh(d))' /\ OwnWorkIsKept'
<1> DEFINE u == Sub(s[1])
<1>1. s[1] \in Agents /\ s = Root(s[1]) /\ s # u /\ u \in Session
  BY TaskRoot, Shape
<1>2. \A d \in Session \ {s, u} : ses'[d] = ses[d]
  BY DEF Pair
<1>3. TypeInv'
  BY <1>2 DEF TypeInv, Pair
<1>4. \A t \in Agents : t # s[1] => Root(t) \in Session \ {s, u} /\ Sub(t) \in Session \ {s, u}
  BY <1>1, Shape
<1>5. TreeInv'
  BY <1>1, <1>2, <1>4 DEF TreeInv, Pair, Busy, Runs, At
<1>6. \A d \in Session : At(d, "dispatch")' => At(d, "dispatch")
  BY <1>2 DEF Pair, At
<1>7. AfterInv'
  BY <1>6 DEF AfterInv, Pair
<1>8. Started'
  BY <1>1, <1>2, <1>4 DEF Started, Pair, At, TypeInv, WorkType
<1>9. \A d \in Session : Fresh(d)'
  BY <1>1, <1>2 DEF Fresh, Pair, At
<1>10. OwnWorkIsKept'
  BY DEF Pair, OwnWorkIsKept
<1>11. QED BY <1>3, <1>5, <1>7, <1>8, <1>9, <1>10

(***************************************************************************)
(* The calls that write.  Those of other trees that had read are raced;    *)
(* of the same tree there are none.                                        *)
(***************************************************************************)
FreshInv == \A s \in Session : Fresh(s)

LEMMA WriteFresh ==
  ASSUME TypeInv, TreeInv, FreshInv, NEW s \in Session, Plain(s), Fresh(s)',
         ~At(s, "off"), ~Busy(s), NEW tool \in {"file_edit", "git_add", "git_commit"},
         \A d \in Session : d[1] # s[1] /\ Runs(d, tool) /\ ses[d].has.seen # None
           => ses'[d] = [ses[d] EXCEPT !.has.raced = TRUE],
         tool = "file_edit" \/ file' = file,
         tool = "git_add" \/ index' = index,
         tool = "git_commit" \/ head' = head
  PROVE  FreshInv'
<1> SUFFICES ASSUME NEW d \in Session, d # s PROVE Fresh(d)'
  BY DEF FreshInv
<1>1. Kept(d) /\ Fresh(d)
  BY DEF Plain, FreshInv
<1>2. ASSUME At(d, "call"), ses'[d] = [ses[d] EXCEPT !.has.raced = TRUE] PROVE Fresh(d)'
  <2>1. ses[d] \in SessionRecord /\ ses[d].has \in Calls
    BY <1>2, CallType
  <2>2. ses'[d].has.raced = TRUE
    BY <1>2, <2>1 DEF SessionRecord, Calls
  <2>3. QED BY <2>2 DEF Fresh
<1>3. ASSUME ses'[d] = ses[d], Runs(d, tool), ses[d].has.seen # None PROVE Fresh(d)'
  <2>1. CASE d[1] # s[1]
    BY <1>2, <1>3, <2>1 DEF Runs
  <2>2. CASE d[1] = s[1]
    <3>1. Busy(d)
      BY <1>3, <2>2, Alone DEF Runs, At
    <3>2. QED BY <1>3, <3>1 DEF Busy, Runs
  <2>3. QED BY <2>1, <2>2
<1>4. ASSUME ses'[d] = ses[d], ~(Runs(d, tool) /\ ses[d].has.seen # None) PROVE Fresh(d)'
  BY <1>1, <1>4 DEF Fresh, Runs, At
<1>5. QED BY <1>1, <1>2, <1>3, <1>4 DEF Kept

\* A call that writes and returns.
LEMMA WriteReturns ==
  ASSUME TypeInv, TreeInv, FreshInv, NEW s \in Session, At(s, "call"), ~Busy(s),
         NEW name, NEW tool \in {"file_edit", "git_add", "git_commit"},
         ses' = Race([ses EXCEPT ![s].at = "message", ![s].has = Message(s, name, Done)],
                     s[1], tool),
         tool = "file_edit" \/ file' = file,
         tool = "git_add" \/ index' = index,
         tool = "git_commit" \/ head' = head
  PROVE  Plain(s) /\ FreshInv'
<1> DEFINE r == [ses[s] EXCEPT !.at = "message", !.has = Message(s, name, Done)]
<1>1. Legal(s, r) /\ r.at = "message"
  BY AnswerLegal, HonestResults DEF At
<1>2. [ses EXCEPT ![s].at = "message", ![s].has = Message(s, name, Done)] = [ses EXCEPT ![s] = r]
  BY DEF TypeInv
<1>3. ses' = Race([ses EXCEPT ![s] = r], s[1], tool)
  BY <1>2
<1> HIDE DEF r
<1>4. /\ Plain(s) /\ ses'[s] = r
      /\ \A d \in Session : d[1] # s[1] /\ Runs(d, tool) /\ ses[d].has.seen # None
           => ses'[d] = [ses[d] EXCEPT !.has.raced = TRUE]
  BY <1>1, <1>3, RacedPlain DEF At
<1>5. Fresh(s)'
  BY <1>1, <1>4 DEF Fresh, At
<1>6. QED BY <1>4, <1>5, WriteFresh DEF At

\* What the sessions' writes leave as it was.
Writes(s) ==
  /\ Plain(s) /\ FreshInv' /\ WorkType' /\ OwnWorkIsKept'
  /\ UNCHANGED <<cancelled, expired, after>>

LEMMA EditWritesInv ==
  ASSUME TypeInv, TreeInv, FreshInv, OwnWorkIsKept,
         NEW s \in Session, NEW p \in Places, EditWrites(s, p),
         ses[s].has.seen[p] = 1
  PROVE  Writes(s)
<1> DEFINE new == [ses[s].has.seen EXCEPT ![p] = 0]
<1>1. /\ At(s, "call") /\ ses[s].has.tool = "file_edit" /\ ses[s].has.seen # None
      /\ file' = new
      /\ told' = [told EXCEPT !.edits = Report(s, @, {p}, Places \ Unedited(new))]
      /\ ses' = Race([ses EXCEPT ![s].at = "message",
                        ![s].has = Message(s, "file_edit", Done)], s[1], "file_edit")
      /\ UNCHANGED <<index, head, remote, leftover, cancelled, expired, after>>
  BY DEF EditWrites, Runs, Keeps
<1>2. ses[s].has.seen \in [Places -> Nat] /\ ses[s].has.raced \in BOOLEAN
  BY <1>1, CallType DEF SeenType, Calls
<1>3. new \in [Places -> Nat] /\ new[p] = 0 /\ \A q \in Places : q # p => new[q] = ses[s].has.seen[q]
  BY <1>2
<1>4. ~Busy(s)
  BY <1>1 DEF Busy, Runs
<1>5. Plain(s) /\ FreshInv'
  BY <1>1, <1>4, WriteReturns
<1>6. ~ses[s].has.raced => ses[s].has.seen = file
  BY <1>1 DEF FreshInv, Fresh
<1> DEFINE rep == Report(s, told.edits, {p}, Places \ Unedited(new))
<1>7. told.edits \subseteq Places /\ \A q \in told.edits : file[q] = 0
  BY DEF TypeInv, WorkType, OwnWorkIsKept
<1> HIDE DEF new
<1>8. rep \subseteq Places /\ \A q \in rep : new[q] = 0
  BY <1>3, <1>6, <1>7 DEF Report, Unedited
<1> HIDE DEF rep
<1>9. /\ told' \in [edits : SUBSET Places, staged : SUBSET Trees, commits : SUBSET Trees]
      /\ told'.edits = rep /\ told'.staged = told.staged /\ told'.commits = told.commits
  BY <1>1, <1>8 DEF TypeInv, WorkType, rep
<1>10. WorkType'
  BY <1>1, <1>3, <1>9 DEF TypeInv, WorkType
<1>11. OwnWorkIsKept'
  BY <1>1, <1>8, <1>9 DEF OwnWorkIsKept
<1>12. QED BY <1>1, <1>5, <1>10, <1>11 DEF Writes

\* A file that is overwritten keeps no edit that it undoes.
LEMMA OverwriteWork ==
  ASSUME TypeInv, OwnWorkIsKept, NEW content \in Contents, NEW new, NEW t,
         Overwrite(new, content, t), UNCHANGED <<leftover, cancelled, expired, after>>
  PROVE  WorkType' /\ OwnWorkIsKept'
<1>1. content \in [Places -> Nat]
  BY SessionsAssumption DEF SessionsAssumption
<1> DEFINE rep == told.edits \ Unedited(content)
<1>2. rep \subseteq Places /\ \A q \in rep : content[q] = 0
  BY DEF Unedited, TypeInv, WorkType
<1>3. told' = [told EXCEPT !.edits = rep] /\ file' = content /\ UNCHANGED <<index, head, remote>>
  BY DEF Overwrite
<1> HIDE DEF rep
<1>4. /\ told' \in [edits : SUBSET Places, staged : SUBSET Trees, commits : SUBSET Trees]
      /\ told'.edits = rep /\ told'.staged = told.staged /\ told'.commits = told.commits
  BY <1>2, <1>3 DEF TypeInv, WorkType
<1>5. WorkType'
  BY <1>1, <1>3, <1>4 DEF TypeInv, WorkType
<1>6. OwnWorkIsKept'
  BY <1>2, <1>3, <1>4 DEF OwnWorkIsKept
<1>7. QED BY <1>5, <1>6

LEMMA FileWritesInv ==
  ASSUME TypeInv, TreeInv, FreshInv, OwnWorkIsKept, NEW s \in Session, FileWrites(s)
  PROVE  Writes(s)
<1> DEFINE new == [ses EXCEPT ![s].at = "message", ![s].has = Message(s, "file_write", Done)]
<1>1. PICK content \in Contents : Overwrite(new, content, s[1])
  BY DEF FileWrites
<1>2. At(s, "call") /\ ~Busy(s) /\ UNCHANGED <<leftover, cancelled, expired, after>>
  BY DEF FileWrites, Runs, Busy, Keeps
<1>3. WorkType' /\ OwnWorkIsKept'
  BY <1>1, <1>2, OverwriteWork
<1>4. ses' = Race(new, s[1], "file_edit") /\ UNCHANGED <<index, head>>
  BY <1>1 DEF Overwrite
<1>5. Plain(s) /\ FreshInv'
  BY <1>2, <1>4, WriteReturns
<1>6. QED BY <1>2, <1>3, <1>5 DEF Writes

LEMMA ShellWritesInv ==
  ASSUME TypeInv, TreeInv, FreshInv, OwnWorkIsKept, NEW s \in Session, ShellWrites(s)
  PROVE  Writes(s)
<1>1. PICK content \in Contents : Overwrite(ses, content, s[1])
  BY DEF ShellWrites
<1>2. /\ At(s, "call") /\ ses[s].has.tool = "shell_exec" /\ ~Busy(s)
      /\ UNCHANGED <<leftover, cancelled, expired, after>>
  BY DEF ShellWrites, Runs, Busy, Keeps
<1>3. WorkType' /\ OwnWorkIsKept'
  BY <1>1, <1>2, OverwriteWork
<1>4. ses' = Race(ses, s[1], "file_edit") /\ UNCHANGED <<index, head>>
  BY <1>1 DEF Overwrite
<1>5. Legal(s, ses[s]) /\ ses' = Race([ses EXCEPT ![s] = ses[s]], s[1], "file_edit")
  BY <1>4 DEF TypeInv
<1>6. /\ Plain(s) /\ ses'[s] = ses[s]
      /\ \A d \in Session : d[1] # s[1] /\ Runs(d, "file_edit") /\ ses[d].has.seen # None
           => ses'[d] = [ses[d] EXCEPT !.has.raced = TRUE]
  BY <1>2, <1>5, RacedPlain DEF At
<1>7. Fresh(s)'
  BY <1>2, <1>6 DEF Fresh
<1>8. FreshInv'
  BY <1>2, <1>4, <1>6, <1>7, WriteFresh DEF At
<1>9. QED BY <1>2, <1>3, <1>6, <1>8 DEF Writes

LEMMA GitWritesInv ==
  ASSUME TypeInv, TreeInv, FreshInv, OwnWorkIsKept, NEW s \in Session,
         AddWrites(s) \/ CommitWrites(s)
  PROVE  Writes(s)
<1> DEFINE tool == ses[s].has.tool
           seen == ses[s].has.seen
<1>1. /\ At(s, "call") /\ tool \in {"git_add", "git_commit"} /\ seen # None
      /\ UNCHANGED <<file, remote, leftover, cancelled, expired, after>>
  BY DEF AddWrites, CommitWrites, Runs, Keeps
<1>2. ~Busy(s)
  BY <1>1 DEF Busy, Runs
<1>3. seen \subseteq Trees /\ ses[s].has.raced \in BOOLEAN /\ s[1] \in Trees
  BY <1>1, CallType, Shape DEF SeenType, Calls
<1>4. told \in [edits : SUBSET Places, staged : SUBSET Trees, commits : SUBSET Trees]
  BY DEF TypeInv, WorkType
<1>5. CASE AddWrites(s)
  <2> DEFINE rep == Report(s, told.staged, {s[1]}, index')
  <2>1. /\ tool = "git_add" /\ index' = seen \cup {s[1]} /\ head' = head
        /\ told' = [told EXCEPT !.staged = rep]
        /\ ses' = Race([ses EXCEPT ![s].at = "message",
                          ![s].has = Message(s, "git_add", Done)], s[1], "git_add")
    BY <1>5 DEF AddWrites, Runs
  <2>2. Plain(s) /\ FreshInv'
    BY <1>1, <1>2, <2>1, WriteReturns
  <2>3. ~ses[s].has.raced => seen = index
    BY <1>1, <2>1 DEF FreshInv, Fresh
  <2>4. rep \subseteq index' /\ rep \subseteq Trees /\ index' \subseteq Trees
    BY <1>3, <2>1, <2>3 DEF Report, OwnWorkIsKept
  <2> HIDE DEF rep
  <2>5. /\ told' \in [edits : SUBSET Places, staged : SUBSET Trees, commits : SUBSET Trees]
        /\ told'.edits = told.edits /\ told'.staged = rep /\ told'.commits = told.commits
    BY <1>4, <2>1, <2>4
  <2>6. WorkType' /\ OwnWorkIsKept'
    BY <1>1, <2>1, <2>4, <2>5 DEF TypeInv, WorkType, OwnWorkIsKept
  <2>7. QED BY <1>1, <2>2, <2>6 DEF Writes
<1>6. CASE CommitWrites(s)
  <2> DEFINE rep == Report(s, told.commits, {s[1]}, head')
  <2>1. /\ tool = "git_commit" /\ head' = seen \cup {s[1]} /\ index' = index
        /\ told' = [told EXCEPT !.commits = rep]
        /\ ses' = Race([ses EXCEPT ![s].at = "message",
                          ![s].has = Message(s, "git_commit", Done)], s[1], "git_commit")
    BY <1>6 DEF CommitWrites, Runs
  <2>2. Plain(s) /\ FreshInv'
    BY <1>1, <1>2, <2>1, WriteReturns
  <2>3. ~ses[s].has.raced => seen = head
    BY <1>1, <2>1 DEF FreshInv, Fresh
  <2>4. rep \subseteq head' /\ rep \subseteq Trees /\ head' \subseteq Trees
    BY <1>3, <2>1, <2>3 DEF Report, OwnWorkIsKept
  <2> HIDE DEF rep
  <2>5. /\ told' \in [edits : SUBSET Places, staged : SUBSET Trees, commits : SUBSET Trees]
        /\ told'.edits = told.edits /\ told'.commits = rep /\ told'.staged = told.staged
    BY <1>4, <2>1, <2>4
  <2>6. WorkType' /\ OwnWorkIsKept'
    BY <1>1, <2>1, <2>4, <2>5 DEF TypeInv, WorkType, OwnWorkIsKept
  <2>7. QED BY <1>1, <2>2, <2>6 DEF Writes
<1>7. QED BY <1>5, <1>6

(***************************************************************************)
(* The theorems.                                                           *)
(***************************************************************************)
Inv == TypeInv /\ TreeInv /\ Started /\ AfterInv /\ FreshInv /\ OwnWorkIsKept

LEMMA InitInv == Init => Inv
<1> SUFFICES ASSUME Init PROVE Inv
  OBVIOUS
<1>1. \A s \in Session : ses[s] = Off /\ At(s, "off")
  BY DEF Init, Off, At
<1>2. TypeInv
  BY InitType
<1>3. TreeInv
  BY <1>1, Shape DEF TreeInv
<1>4. Started /\ AfterInv
  BY DEF Init, Started, AfterInv
<1>5. FreshInv
  BY <1>1 DEF FreshInv, Fresh, At, Off
<1>6. OwnWorkIsKept
  BY DEF Init, OwnWorkIsKept
<1>7. QED BY <1>2, <1>3, <1>4, <1>5, <1>6 DEF Inv

LEMMA CalmInv ==
  ASSUME Inv, NEW s \in Session, Calm(s), AfterInv' /\ Started'
  PROVE  Inv'
<1>1. TypeInv'
  BY PlainType DEF Inv, Calm
<1>2. TreeInv'
  BY PlainTree DEF Inv, Calm
<1>3. ASSUME NEW d \in Session, d # s PROVE Fresh(d)'
  <2>1. Kept(d) /\ Fresh(d)
    BY <1>3 DEF Inv, Calm, Plain, FreshInv
  <2>2. CASE ses'[d] = ses[d]
    BY <2>1, <2>2 DEF Fresh, At, Calm
  <2>3. CASE At(d, "call") /\ ses'[d] = [ses[d] EXCEPT !.has.raced = TRUE]
    <3>1. ses[d] \in SessionRecord /\ ses[d].has \in Calls
      BY <2>3, CallType DEF Inv
    <3>2. ses'[d].has.raced = TRUE
      BY <2>3, <3>1 DEF SessionRecord, Calls
    <3>3. QED BY <3>2 DEF Fresh
  <2>4. QED BY <2>1, <2>2, <2>3 DEF Kept
<1>4. FreshInv'
  BY <1>3 DEF Inv, Calm, FreshInv
<1>5. OwnWorkIsKept'
  BY DEF Inv, Calm, OwnWorkIsKept
<1>6. QED BY <1>1, <1>2, <1>4, <1>5 DEF Inv

LEMMA QuietInv ==
  ASSUME Inv, NEW s \in Session, Calm(s), after' = after
  PROVE  Inv'
<1>1. AfterInv' /\ Started'
  BY PlainAfter DEF Inv, Calm
<1>2. QED BY <1>1, CalmInv

LEMMA WritesInv ==
  ASSUME Inv, NEW s \in Session, Writes(s)
  PROVE  Inv'
<1>1. TypeInv' /\ TreeInv'
  BY PlainType, PlainTree DEF Inv, Writes
<1>2. AfterInv' /\ Started'
  BY PlainAfter DEF Inv, Writes
<1>3. QED BY <1>1, <1>2 DEF Inv, Writes

LEMMA SessionInv ==
  ASSUME Inv, NEW s \in Session,
         SessionStep(s) \/ StreamEnds(s) \/ ShellWrites(s) \/ Hangs(s) \/ Resumes(s)
  PROVE  Inv'
<1>1. CASE Round(s) \/ StreamEnds(s) \/ StreamStopped(s) \/ NextCall(s) \/ Told(s)
  BY <1>1, LoopCalm, QuietInv DEF Inv
<1>2. ASSUME NEW tool, Dispatch(s, tool) PROVE Inv'
  BY <1>2, DispatchCalm, DispatchAfter, CalmInv DEF Inv
<1>3. CASE \/ Refuses(s) \/ ReadsFiles(s) \/ ShowsRepository(s) \/ AsksUser(s) \/ Fetches(s)
           \/ ShellEnds(s) \/ Pushes(s)
  BY <1>3, QuietCalm, QuietInv DEF Inv
<1>4. CASE EditReads(s) \/ AddReads(s) \/ CommitReads(s)
  BY <1>4, SeeCalm, QuietInv DEF Inv
<1>5. CASE Hangs(s) \/ Resumes(s)
  BY <1>5, HeldCalm, QuietInv DEF Inv
<1>6. ASSUME NEW p \in Places, EditWrites(s, p) PROVE Inv'
  <2>1. CASE ses[s].has.seen[p] = 1
    BY <1>6, <2>1, EditWritesInv, WritesInv DEF Inv
  <2>2. CASE ses[s].has.seen[p] # 1
    <3>1. /\ At(s, "call") /\ ~Busy(s) /\ Returns(s, Refused)
          /\ UNCHANGED <<file, index, head, remote, leftover, told, cancelled, expired, after>>
      BY <1>6, <2>2 DEF EditWrites, Runs, Busy, Keeps, work
    <3>2. leftover \in BOOLEAN
      BY DEF Inv, TypeInv, WorkType
    <3>3. Calm(s) /\ after' = after
      BY <3>1, <3>2, HonestResults, ReturnsCalm DEF Inv
    <3>4. QED BY <3>3, QuietInv
  <2>3. QED BY <2>1, <2>2
<1>7. CASE FileWrites(s)
  BY <1>7, FileWritesInv, WritesInv DEF Inv
<1>8. CASE ShellWrites(s)
  BY <1>8, ShellWritesInv, WritesInv DEF Inv
<1>9. CASE AddWrites(s) \/ CommitWrites(s)
  BY <1>9, GitWritesInv, WritesInv DEF Inv
<1>10. ASSUME Runs(s, "task"), Pair(s) PROVE Inv'
  BY <1>10, PairInv DEF Inv, FreshInv
<1>11. ASSUME NEW kind \in SubagentKinds, Spawns(s, kind) PROVE Inv'
  BY <1>10, <1>11, SpawnsPair DEF Inv, Spawns
<1>12. CASE TaskReturns(s)
  BY <1>10, <1>12, ReturnsPair DEF Inv, TaskReturns
<1>13. QED
  BY <1>1, <1>2, <1>3, <1>4, <1>5, <1>6, <1>7, <1>8, <1>9, <1>11, <1>12 DEF SessionStep

\* Of the steps that are no session's: a cancel, a subagent's time, and a
\* process that has outlived its command.
LEMMA SignalInv ==
  ASSUME Inv, NEW t \in Agents, CancelTask(t) \/ TimesOut(t)
  PROVE  Inv'
<1>1. UNCHANGED <<ses, file, index, head, remote, leftover, told, after>>
  BY DEF CancelTask, TimesOut, work
<1>2. cancelled' \subseteq Agents /\ expired' \subseteq Agents /\ cancelled \subseteq cancelled'
  BY DEF CancelTask, TimesOut, Inv, TypeInv, WorkType
<1>3. TypeInv'
  BY <1>1, <1>2 DEF Inv, TypeInv, WorkType
<1>4. Started'
  <2>1. CASE CancelTask(t)
    <3>1. Root(t) \in Session /\ ses[Root(t)].kind = "agent"
      BY <2>1, Shape DEF CancelTask
    <3>2. ~At(Root(t), "off")
      BY <3>1, SessionsAssumption DEF Inv, TypeInv, Legal, At, SessionsAssumption, SessionKinds
    <3>3. QED BY <1>1, <2>1, <3>2 DEF CancelTask, Inv, Started, At
  <2>2. CASE TimesOut(t)
    BY <1>1, <2>2 DEF TimesOut, Inv, Started, At
  <2>3. QED BY <2>1, <2>2
<1>5. TreeInv' /\ AfterInv' /\ FreshInv' /\ OwnWorkIsKept'
  BY <1>1, <1>2 DEF Inv, TreeInv, AfterInv, FreshInv, Fresh, OwnWorkIsKept, Busy, Runs, At
<1>6. QED BY <1>3, <1>4, <1>5 DEF Inv

LEMMA LeftoverInv == ASSUME Inv, LeftoverWrites PROVE Inv'
<1>1. PICK content \in Contents : Overwrite(ses, content, None)
  BY DEF LeftoverWrites
<1>2. UNCHANGED <<leftover, cancelled, expired, after>>
  BY DEF LeftoverWrites, Keeps
<1>3. WorkType' /\ OwnWorkIsKept'
  BY <1>1, <1>2, OverwriteWork DEF Inv
<1>4. ses' = Race(ses, None, "file_edit") /\ UNCHANGED <<index, head>>
  BY <1>1 DEF Overwrite
<1>5. \A d \in Session :
        ses'[d] = IF Runs(d, "file_edit") /\ ses[d].has.seen # None
                  THEN [ses[d] EXCEPT !.has.raced = TRUE] ELSE ses[d]
  BY <1>4, Shape, SessionsAssumption DEF Race, SessionsAssumption
<1>6. \A d \in Session : Kept(d)
  BY <1>5 DEF Kept, Runs
<1>7. \A d \in Session : Legal(d, ses'[d]) /\ ses'[d] \in SessionRecord
  BY <1>6, KeptLegal DEF Inv, Legal
<1>8. ses' \in [Session -> SessionRecord]
  BY <1>4, <1>7 DEF Race
<1>9. TypeInv'
  BY <1>3, <1>7, <1>8 DEF TypeInv
<1>10. \A d \in Session : ses'[d].at = ses[d].at /\ (Busy(d)' <=> Busy(d))
  BY <1>6, KeptLegal DEF Inv
<1>11. TreeInv'
  BY <1>10, Shape DEF Inv, TreeInv, At
<1>12. Started' /\ AfterInv'
  BY <1>2, <1>10, Shape DEF Inv, Started, AfterInv, At, TypeInv, WorkType
<1>13. ASSUME NEW d \in Session PROVE Fresh(d)'
  <2>1. CASE Runs(d, "file_edit") /\ ses[d].has.seen # None
    <3>1. ses[d] \in SessionRecord /\ ses[d].has \in Calls
      BY <2>1, CallType DEF Inv, Runs
    <3>2. ses'[d].has.raced = TRUE
      BY <1>5, <2>1, <3>1 DEF SessionRecord, Calls
    <3>3. QED BY <3>2 DEF Fresh
  <2>2. CASE ~(Runs(d, "file_edit") /\ ses[d].has.seen # None)
    BY <1>4, <1>5, <2>2 DEF Inv, FreshInv, Fresh, Runs, At
  <2>3. QED BY <2>1, <2>2
<1>14. QED BY <1>3, <1>9, <1>11, <1>12, <1>13 DEF Inv, FreshInv

LEMMA NextInv == Inv /\ [Next]_vars => Inv'
<1> SUFFICES ASSUME Inv, [Next]_vars PROVE Inv'
  OBVIOUS
<1>1. ASSUME NEW t \in Trees, NEW kind \in Roots[t], StartRoot(t, kind) PROVE Inv'
  <2>1. Root(t) \in Session
    BY Shape
  <2>2. Calm(Root(t)) /\ after' = after
    BY <1>1, StartRootCalm DEF Inv
  <2>3. QED BY <2>1, <2>2, QuietInv
<1>2. CASE UNCHANGED vars
  BY <1>2 DEF vars, work, Inv, TypeInv, WorkType, TreeInv, Started, AfterInv, FreshInv, Fresh,
              OwnWorkIsKept, Busy, Runs, At
<1>3. QED
  BY <1>1, <1>2, SessionInv, SignalInv, LeftoverInv DEF Next

LEMMA Invariance == Spec => []Inv
  BY InitInv, NextInv, PTL DEF Spec

\* Every variable keeps its type, and no session runs a tool that it may not.
THEOREM TypeCorrect == Spec => []TypeOK
<1>1. Inv => TypeOK
  BY TypeInvOK DEF Inv
<1>2. QED BY <1>1, Invariance, PTL

\* A cancelled task begins one call more at most, its subagent's included.
THEOREM OneMoreCall == Spec => []OneCallAfterCancel
<1>1. Inv => OneCallAfterCancel
  BY DEF Inv, AfterInv, OneCallAfterCancel
<1>2. QED BY <1>1, Invariance, PTL

\* No work that was reported is lost by accident within a tree.
THEOREM WorkKept == Spec => []OwnWorkIsKept
<1>1. Inv => OwnWorkIsKept
  BY DEF Inv
<1>2. QED BY <1>1, Invariance, PTL

\* A model hears of its failed calls.
THEOREM FailuresTold == Spec => []FailureIsTold
<1>1. TypeInv => FailureIsTold
  <2> SUFFICES ASSUME TypeInv, NEW s \in Session, At(s, "message"),
                      ses[s].has.failed, ~ses[s].has.says
               PROVE  ses[s].has.long \/ ses[s].has.cut
    BY DEF FailureIsTold
  <2>1. ses[s].has \in Messages
    BY DEF TypeInv, Legal, At
  <2>2. QED BY <2>1 DEF Messages
<1>2. Inv => FailureIsTold
  BY <1>1 DEF Inv
<1>3. QED BY <1>2, Invariance, PTL

\* Only a call of a tool that writes, or what one left running, changes the
\* files or the repository.
LEMMA SessionTrace ==
  ASSUME TypeInv, NEW s \in Session, work' # work,
         SessionStep(s) \/ StreamEnds(s) \/ ShellWrites(s) \/ Hangs(s) \/ Resumes(s)
  PROVE  /\ At(s, "call") /\ ses[s].has.tool \in writeTools \ {"task"}
         /\ ~ReadOnly(s)
<1> DEFINE Writing == {"file_edit", "file_write", "shell_exec", "git_add", "git_commit", "git_push"}
<1>1. At(s, "call") /\ ses[s].has.tool \in Writing
  <2>1. CASE Round(s) \/ StreamEnds(s) \/ StreamStopped(s) \/ NextCall(s) \/ Told(s)
    BY <2>1 DEF Round, StreamEnds, StreamStopped, NextCall, Told
  <2>2. CASE \E tool : Dispatch(s, tool)
    BY <2>2 DEF Dispatch
  <2>3. CASE \/ Refuses(s) \/ ReadsFiles(s) \/ ShowsRepository(s) \/ AsksUser(s) \/ Fetches(s)
             \/ Hangs(s) \/ Resumes(s)
    BY <2>3 DEF Refuses, ReadsFiles, ShowsRepository, AsksUser, Fetches, Looks, Hangs, Resumes
  <2>4. CASE EditReads(s) \/ AddReads(s) \/ CommitReads(s)
    BY <2>4 DEF EditReads, AddReads, CommitReads, See
  <2>5. CASE FileWrites(s) \/ ShellWrites(s) \/ ShellEnds(s) \/ Pushes(s)
    BY <2>5 DEF FileWrites, ShellWrites, ShellEnds, Pushes, Runs
  <2>6. CASE \E p \in Places : EditWrites(s, p)
    BY <2>6 DEF EditWrites, Runs
  <2>7. CASE AddWrites(s) \/ CommitWrites(s)
    BY <2>7 DEF AddWrites, CommitWrites, Runs
  <2>8. CASE TaskReturns(s) \/ \E kind \in SubagentKinds : Spawns(s, kind)
    BY <2>8 DEF TaskReturns, Spawns
  <2>9. QED
    BY <2>1, <2>2, <2>3, <2>4, <2>5, <2>6, <2>7, <2>8 DEF SessionStep
<1>2. ses[s].has.tool \in writeTools \ {"task"} /\ ses[s].has.tool \notin readOnlyTools
  BY <1>1 DEF writeTools, readOnlyTools
<1>3. ses[s].kind \notin {"plan", "explore"}
  BY <1>1, <1>2, CallType, DispatchedTool
<1>4. QED BY <1>1, <1>2, <1>3 DEF ReadOnly

\* A plan and an explore subagent leave no trace.
THEOREM ReadOnlyWork == Spec => ReadOnlyLeavesNoTrace
<1> DEFINE Traced ==
      work' # work =>
        \/ leftover /\ ses' = Race(ses, None, "file_edit")
        \/ \E s \in Session : At(s, "call") /\ ses[s].has.tool \in writeTools \ {"task"}
                                /\ ~ReadOnly(s)
<1>1. ASSUME TypeInv, [Next]_vars, work' # work
      PROVE  Traced
  <2>1. CASE LeftoverWrites
    BY <2>1 DEF LeftoverWrites, Overwrite
  <2>2. CASE \E t \in Trees : \E kind \in Roots[t] : StartRoot(t, kind)
    BY <1>1, <2>2 DEF StartRoot
  <2>3. CASE \E t \in Agents : CancelTask(t) \/ TimesOut(t)
    BY <1>1, <2>3 DEF CancelTask, TimesOut
  <2>4. CASE UNCHANGED vars
    BY <1>1, <2>4 DEF vars
  <2>5. ASSUME NEW s \in Session,
               SessionStep(s) \/ StreamEnds(s) \/ ShellWrites(s) \/ Hangs(s) \/ Resumes(s)
        PROVE  Traced
    BY <1>1, <2>5, SessionTrace
  <2>6. QED BY <1>1, <2>1, <2>2, <2>3, <2>4, <2>5 DEF Next
<1>2. Inv /\ [Next]_vars => [Traced]_vars
  BY <1>1 DEF Inv
<1>3. QED
  BY <1>2, Invariance, PTL DEF Spec, ReadOnlyLeavesNoTrace
=============================================================================
