---------------------------- MODULE ToolSessions ----------------------------
(***************************************************************************)
(* The sessions that call tools in one working directory: tasks with their *)
(* subagents, plans, and the tools clients call directly.  A task and the  *)
(* subagents it spawns are a tree.  The files and the Git repository are   *)
(* shared by all, with no lock: an edit, a staging and a commit each read, *)
(* and write what they read with their change.                             *)
(***************************************************************************)
EXTENDS Tools, Naturals

CONSTANTS
  None,
  Roots,        \* by tree, the kinds its root may have: agent, plan or client
  Asked,        \* by kind of session, the tools its model or client names, known or not
  Places,       \* the strings of the file that edits look for
  Contents,     \* what file_write and shell commands leave: times each place occurs
  MaxRounds,    \* bound: rounds of a session (the code's 25 or 15)
  MaxCalls      \* bound: calls of one reply, by kind of session

Trees == DOMAIN Roots

\* The trees that may have a subagent.
Agents == {t \in Trees : "agent" \in Roots[t]}

ASSUME SessionsAssumption ==
  /\ \A t \in Trees : Roots[t] \subseteq {"agent", "plan", "client"}
  /\ None \notin Trees \cup SessionKinds
  /\ DOMAIN Asked = SessionKinds
  /\ Contents \subseteq [Places -> Nat]
  /\ MaxRounds \in Nat \ {0} /\ MaxCalls \in [SessionKinds -> Nat \ {0}]

Root(t) == <<t, "root">>
Sub(t) == <<t, "sub">>
Session == {Root(t) : t \in Trees} \cup {Sub(t) : t \in Agents}

VARIABLES
  ses,        \* the sessions: kind, step, rounds, calls left, and what they hold
  cancelled,  \* trees whose task was cancelled
  expired,    \* trees whose subagent is past its 5 minutes
  file,       \* how often each place occurs in the file
  index,      \* the trees whose changes are staged
  head,       \* the trees that have a commit in the branch's history
  remote,     \* the history that was pushed
  leftover,   \* a process outlives the shell command that began it
  told,       \* what calls have reported: edits, stagings, commits
  after       \* calls a tree began after it was cancelled

work == <<file, index, head, remote>>
vars == <<ses, cancelled, expired, work, leftover, told, after>>

\* What a session holds: the call it runs, the message of its last call, or
\* how it ended.  seen is what the call has read; raced, whether another tree
\* has changed that since; held, whether nothing ends the call.
Call(tool) == [tool |-> tool, seen |-> None, raced |-> FALSE, held |-> FALSE]
Outcome(how) == [how |-> how, error |-> how = "stopped"]

Off == [kind |-> None, at |-> "off", round |-> 0, left |-> 0, has |-> None]
Begun(kind) == [kind |-> kind, at |-> "round", round |-> 0, left |-> 0, has |-> None]

At(s, step) == ses[s].at = step
Runs(s, tool) == At(s, "call") /\ ses[s].has.tool = tool
Held(s) == At(s, "call") /\ ses[s].has.held
ReadOnly(s) == ses[s].kind \in {"plan", "explore"}

TypeOK ==
  /\ \A s \in Session :
       /\ ses[s].kind \in SessionKinds \cup {None}
       /\ ses[s].at \in {"off", "round", "stream", "calls", "dispatch", "call", "message", "ended"}
       /\ ses[s].round \in 0 .. MaxRounds
       /\ ses[s].left \in IF At(s, "off") THEN {0} ELSE 0 .. MaxCalls[ses[s].kind]
       /\ At(s, "call") => ses[s].has.tool \in Registered(ses[s].kind)
  /\ cancelled \subseteq Agents /\ expired \subseteq Agents
  /\ file \in [Places -> Nat]
  /\ index \subseteq Trees /\ head \subseteq Trees /\ remote \subseteq Trees
  /\ leftover \in BOOLEAN
  /\ told.edits \subseteq Places /\ told.staged \subseteq Trees /\ told.commits \subseteq Trees
  /\ after \in [Agents -> 0 .. 2]

Init ==
  /\ ses = [s \in Session |-> Off]
  /\ cancelled = {} /\ expired = {}
  /\ file = [p \in Places |-> 1] /\ index = {} /\ head = {} /\ remote = {}
  /\ leftover = FALSE
  /\ told = [edits |-> {}, staged |-> {}, commits |-> {}]
  /\ after = [t \in Agents |-> 0]

\* Faults: the context of a subagent without its time limit; the loop is
\* given a context that Cancel does not reach.
CtxUnlimited(s) == s[1] \in cancelled
CtxUncancelled(s) == s[2] = "sub" /\ s[1] \in expired

\* The context of a session is done: its task was cancelled, or the time of
\* the task tool's call has passed.  Nothing cancels a plan: task.cancel looks
\* among the tasks only.
CtxDone(s) == s[1] \in cancelled \/ (s[2] = "sub" /\ s[1] \in expired)

-----------------------------------------------------------------------------
(***************************************************************************)
(* The loop of a session.                                                  *)
(***************************************************************************)
Goes(s, step) == ses' = [ses EXCEPT ![s].at = step]

\* A subagent hands its outcome to the task tool.
Ends(s, outcome) ==
  ses' = [ses EXCEPT ![s].at = "ended", ![s].left = 0,
                     ![s].has = IF s[2] = "sub" THEN outcome ELSE None]
Stops(s) == Ends(s, Outcome("stopped"))

StartRoot(t, kind) ==
  /\ At(Root(t), "off")
  /\ ses' = [ses EXCEPT ![Root(t)] =
       IF kind = "client" THEN [Begun(kind) EXCEPT !.at = "dispatch", !.left = 1]
       ELSE Begun(kind)]
  /\ UNCHANGED <<cancelled, expired, work, leftover, told, after>>

CancelTask(t) ==
  /\ ses[Root(t)].kind = "agent" /\ ~At(Root(t), "ended")
  /\ cancelled' = cancelled \cup {t}
  /\ UNCHANGED <<ses, expired, work, leftover, told, after>>

\* Fault: a session that runs out of rounds says nothing of it.
RoundEndsQuietly(s) ==
  /\ At(s, "round")
  /\ IF ses[s].round = MaxRounds
     THEN Ends(s, [how |-> "stopped", error |-> FALSE])
     ELSE Stops(s) \/ (~CtxDone(s) /\ Goes(s, "stream"))
  /\ UNCHANGED <<cancelled, expired, work, leftover, told, after>>

\* The top of the loop: its last round, the context, the request.
Round(s) ==
  /\ At(s, "round")
  /\ IF ses[s].round = MaxRounds \/ CtxDone(s)
     THEN Stops(s)
     ELSE Stops(s) \/ Goes(s, "stream")
  /\ UNCHANGED <<cancelled, expired, work, leftover, told, after>>

\* The stream closes.  The reply may have been cut: by the wire, or by a
\* context that ended in its middle.  A task's loop looks at the context once
\* more, a plan's and a subagent's do not.
StreamEnds(s) ==
  /\ At(s, "stream")
  /\ ses[s].kind = "agent" => ~CtxDone(s)
  /\ \/ \E how \in {"answered", "cut"} : Ends(s, Outcome(how))
     \/ \E n \in 1 .. MaxCalls[ses[s].kind] :
          ses' = [ses EXCEPT ![s].at = "calls", ![s].left = n]
  /\ UNCHANGED <<cancelled, expired, work, leftover, told, after>>

\* A loop that sees its context done while it collects, or just after.
StreamStopped(s) ==
  /\ At(s, "stream") /\ CtxDone(s)
  /\ Stops(s)
  /\ UNCHANGED <<cancelled, expired, work, leftover, told, after>>

\* Faults: the next call is taken without a look at the context; one call
\* too many.
NextCallUnchecked(s) ==
  /\ At(s, "calls")
  /\ IF ses[s].left = 0
     THEN ses' = [ses EXCEPT ![s].at = "round", ![s].round = @ + 1]
     ELSE Goes(s, "dispatch")
  /\ UNCHANGED <<cancelled, expired, work, leftover, told, after>>
NextCallMany(s) ==
  /\ At(s, "calls")
  /\ IF ses[s].left = 0
     THEN ses' = [ses EXCEPT ![s].at = "round", ![s].round = @ + 1, ![s].left = MaxCalls[ses[s].kind] + 1]
     ELSE IF CtxDone(s) THEN Stops(s) ELSE Goes(s, "dispatch")
  /\ UNCHANGED <<cancelled, expired, work, leftover, told, after>>

NextCall(s) ==
  /\ At(s, "calls")
  /\ IF ses[s].left = 0
     THEN ses' = [ses EXCEPT ![s].at = "round", ![s].round = @ + 1]
     ELSE IF CtxDone(s) THEN Stops(s) ELSE Goes(s, "dispatch")
  /\ UNCHANGED <<cancelled, expired, work, leftover, told, after>>

Message(s, tool, r) == Content(ses[s].kind, TruncateOutput(r, tool))
Answers(s, tool, r) ==
  ses' = [ses EXCEPT ![s].at = "message", ![s].has = Message(s, tool, r)]

\* Dispatch, some time after that look.
Dispatch(s, tool) ==
  /\ At(s, "dispatch")
  /\ IF Dispatches(ses[s].kind, tool)
     THEN ses' = [ses EXCEPT ![s].at = "call", ![s].has = Call(tool)]
     ELSE Answers(s, tool, Refused)
  /\ after' = [t \in Agents |-> IF t = s[1] /\ t \in cancelled /\ after[t] < 2
                                THEN after[t] + 1 ELSE after[t]]
  /\ UNCHANGED <<cancelled, expired, work, leftover, told>>

\* The result is sent, and added to the history.
Told(s) ==
  /\ At(s, "message")
  /\ IF ses[s].kind = "client" THEN Ends(s, Outcome("answered"))
     ELSE ses' = [ses EXCEPT ![s].at = "calls", ![s].left = @ - 1, ![s].has = None]
  /\ UNCHANGED <<cancelled, expired, work, leftover, told, after>>

-----------------------------------------------------------------------------
(***************************************************************************)
(* The tools.                                                              *)
(***************************************************************************)
Returns(s, r) == Answers(s, ses[s].has.tool, r)
Keeps == UNCHANGED <<cancelled, expired, after>>

\* A call that has read, as the others of its kind that other trees run: a
\* change races them.
Race(new, t, tool) ==
  [s \in Session |->
    IF s[1] # t /\ Runs(s, tool) /\ ses[s].has.seen # None
    THEN [new[s] EXCEPT !.has.raced = TRUE] ELSE new[s]]

\* Arguments that do not parse or name nothing, a path outside the directory,
\* a repository that does not open, a read that fails, a program that does not
\* start.  A write that fails midway is not modelled.
Refuses(s) ==
  /\ At(s, "call") /\ ses[s].has.seen = None /\ ~Held(s)
  /\ Returns(s, Refused)
  /\ UNCHANGED <<work, leftover, told>> /\ Keeps

\* The tools that change nothing: of the files; of the repository; the
\* question to the user, whose text is the result, so that the session goes on
\* without the answer; and of the web, where a refusal of the server (HTTP 4xx
\* or 5xx) sets no Error.
Looks(s, tools, r) ==
  /\ At(s, "call") /\ ses[s].has.tool \in tools
  /\ Returns(s, r)
  /\ UNCHANGED <<work, leftover, told>> /\ Keeps
ReadsFiles(s) == Looks(s, {"file_read", "file_list", "grep", "glob"}, Done)
ShowsRepository(s) == Looks(s, {"git_status", "git_diff", "git_log"}, Done)
AsksUser(s) == Looks(s, {"ask_user"}, Done)
Fetches(s) == \E r \in {Done, Unfetched} : Looks(s, {"web_fetch"}, r)

See(s, tool, what) ==
  /\ Runs(s, tool) /\ ses[s].has.seen = None
  /\ ses' = [ses EXCEPT ![s].has.seen = what]
  /\ UNCHANGED <<work, leftover, told>> /\ Keeps

\* What a call that wrote reports joins what was reported.  What it undid is
\* dropped when another tree had changed what it read.
Report(s, before, mine, still) ==
  mine \cup (IF ses[s].has.raced THEN before \cap still ELSE before)

Unedited(f) == {p \in Places : f[p] # 0}

EditReads(s) == See(s, "file_edit", file)
EditWrites(s, p) ==
  /\ Runs(s, "file_edit") /\ ses[s].has.seen # None
  /\ IF ses[s].has.seen[p] # 1
     THEN Returns(s, Refused) /\ UNCHANGED <<work, leftover, told>>
     ELSE LET new == [ses[s].has.seen EXCEPT ![p] = 0]
          IN /\ file' = new
             /\ told' = [told EXCEPT !.edits = Report(s, @, {p}, Places \ Unedited(new))]
             /\ ses' = Race([ses EXCEPT ![s].at = "message",
                               ![s].has = Message(s, "file_edit", Done)], s[1], "file_edit")
             /\ UNCHANGED <<index, head, remote, leftover>>
  /\ Keeps

\* The file is overwritten: nothing of an earlier edit is meant to stay.
Overwrite(new, content, t) ==
  /\ file' = content
  /\ told' = [told EXCEPT !.edits = @ \ Unedited(content)]
  /\ ses' = Race(new, t, "file_edit")
  /\ UNCHANGED <<index, head, remote>>

FileWrites(s) ==
  /\ Runs(s, "file_write")
  /\ \E content \in Contents :
       Overwrite([ses EXCEPT ![s].at = "message",
                    ![s].has = Message(s, "file_write", Done)], content, s[1])
  /\ UNCHANGED leftover /\ Keeps

\* A command writes, ends by itself, with its time or with its context, or
\* stays: a process it began holds its output.  It may leave one that does not.
ShellWrites(s) ==
  /\ Runs(s, "shell_exec")
  /\ \E content \in Contents : Overwrite(ses, content, s[1])
  /\ UNCHANGED leftover /\ Keeps
ShellEnds(s) ==
  /\ Runs(s, "shell_exec") /\ ~Held(s)
  /\ \E bad, long \in BOOLEAN : Returns(s, ShellResult(bad, long))
  /\ leftover' \in {leftover, TRUE}
  /\ UNCHANGED <<work, told>> /\ Keeps
LeftoverWrites ==
  /\ leftover
  /\ \E content \in Contents : Overwrite(ses, content, None)
  /\ UNCHANGED leftover /\ Keeps

AddReads(s) == See(s, "git_add", index)
AddWrites(s) ==
  /\ Runs(s, "git_add") /\ ses[s].has.seen # None
  /\ index' = ses[s].has.seen \cup {s[1]}
  /\ told' = [told EXCEPT !.staged = Report(s, @, {s[1]}, index')]
  /\ ses' = Race([ses EXCEPT ![s].at = "message",
                    ![s].has = Message(s, "git_add", Done)], s[1], "git_add")
  /\ UNCHANGED <<file, head, remote, leftover>> /\ Keeps

CommitReads(s) == See(s, "git_commit", head)
CommitWrites(s) ==
  /\ Runs(s, "git_commit") /\ ses[s].has.seen # None
  /\ head' = ses[s].has.seen \cup {s[1]}
  /\ told' = [told EXCEPT !.commits = Report(s, @, {s[1]}, head')]
  /\ ses' = Race([ses EXCEPT ![s].at = "message",
                    ![s].has = Message(s, "git_commit", Done)], s[1], "git_commit")
  /\ UNCHANGED <<file, index, remote, leftover>> /\ Keeps

\* A push has neither the context nor a time limit.
Pushes(s) ==
  /\ Runs(s, "git_push") /\ ~Held(s)
  /\ remote' = head
  /\ Returns(s, Done)
  /\ UNCHANGED <<file, index, head, leftover, told>> /\ Keeps

Hangs(s) ==
  /\ At(s, "call") /\ ses[s].has.tool \in {"shell_exec", "git_push"} /\ ~Held(s)
  /\ ses' = [ses EXCEPT ![s].has.held = TRUE]
  /\ UNCHANGED <<work, leftover, told>> /\ Keeps
Resumes(s) ==
  /\ Held(s)
  /\ ses' = [ses EXCEPT ![s].has.held = FALSE]
  /\ UNCHANGED <<work, leftover, told>> /\ Keeps

\* The task tool: Spawn runs the subagent to its end.
Spawns(s, kind) ==
  /\ Runs(s, "task") /\ ses[s].has.seen = None
  /\ ses' = [ses EXCEPT ![Sub(s[1])] = Begun(kind), ![s].has.seen = kind]
  /\ UNCHANGED <<work, leftover, told>> /\ Keeps

\* Fault: Spawn does not wait.
TaskReturnsAtOnce(s) ==
  /\ Runs(s, "task") /\ ses[s].has.seen # None
  /\ Returns(s, Done)
  /\ UNCHANGED <<work, leftover, told>> /\ Keeps

TaskReturns(s) ==
  /\ Runs(s, "task") /\ ses[s].has.seen # None /\ At(Sub(s[1]), "ended")
  /\ ses' = [ses EXCEPT ![Sub(s[1])] = Off, ![s].at = "message",
               ![s].has = Message(s, "task", TaskResult(ses[Sub(s[1])].has))]
  /\ expired' = expired \ {s[1]}
  /\ UNCHANGED <<cancelled, work, leftover, told, after>>

TimesOut(t) ==
  /\ ses[Sub(t)].at \notin {"off", "ended"} /\ t \notin expired
  /\ expired' = expired \cup {t}
  /\ UNCHANGED <<ses, cancelled, work, leftover, told, after>>

\* What a session does by itself, without a stream or a process to wait for.
SessionStep(s) ==
  \/ Round(s) \/ StreamStopped(s) \/ NextCall(s) \/ Told(s)
  \/ At(s, "dispatch") /\ \E tool \in Asked[ses[s].kind] : Dispatch(s, tool)
  \/ Refuses(s) \/ ReadsFiles(s) \/ ShowsRepository(s) \/ AsksUser(s) \/ Fetches(s)
  \/ FileWrites(s) \/ ShellEnds(s) \/ Pushes(s)
  \/ EditReads(s) \/ \E p \in Places : EditWrites(s, p)
  \/ AddReads(s) \/ AddWrites(s) \/ CommitReads(s) \/ CommitWrites(s)
  \/ \E kind \in SubagentKinds : Spawns(s, kind)
  \/ TaskReturns(s)

Next ==
  \/ \E t \in Trees : \E kind \in Roots[t] : StartRoot(t, kind)
  \/ \E t \in Agents : CancelTask(t) \/ TimesOut(t)
  \/ \E s \in Session : SessionStep(s) \/ StreamEnds(s)
                          \/ ShellWrites(s) \/ Hangs(s) \/ Resumes(s)
  \/ LeftoverWrites

Spec == Init /\ [][Next]_vars

\* Sessions go on, a shell's time limit and a subagent's pass.  A stream that
\* nobody cancels and a call that is held need not end.
FairSpec ==
  /\ Spec
  /\ \A s \in Session : WF_vars(SessionStep(s))
  /\ \A t \in Agents : WF_vars(TimesOut(t))

-----------------------------------------------------------------------------
(***************************************************************************)
(* Properties.                                                             *)
(***************************************************************************)

\* Whatever tools its model names, a plan changes neither the files nor the
\* repository, and neither does an explore subagent: Dispatch looks the name
\* up and asks the permissions, whatever the model was offered.
ReadOnlyLeavesNoTrace ==
  [][work' # work =>
       \/ leftover /\ ses' = Race(ses, None, "file_edit")
       \/ \E s \in Session : At(s, "call") /\ ses[s].has.tool \in writeTools \ {"task"}
                               /\ ~ReadOnly(s)]_vars

\* After a cancel, the whole tree begins one more call at most: the one its
\* loop had already decided on, in the task or in its subagent.
OneCallAfterCancel == \A t \in Agents : after[t] <= 1

\* What a call has reported stays, unless it was overwritten on purpose or by
\* a call that another tree's change had overtaken.  A task and its subagents
\* never undo each other's work by accident.
OwnWorkIsKept ==
  /\ \A p \in told.edits : file[p] = 0
  /\ told.staged \subseteq index
  /\ told.commits \subseteq head

\* The model that made a call that failed is told so, unless a shell's output
\* was too long and lost its last line, or a subagent's last reply was cut.
FailureIsTold ==
  \A s \in Session : At(s, "message") =>
    LET m == ses[s].has IN m.failed /\ ~m.says => m.long \/ m.cut

\* A cancelled task ends, with its subagent, unless a call of it is held: a
\* push that the remote does not answer, or a killed shell whose child keeps
\* the pipe (cmd.Run waits for it).
CancelledTreeEnds ==
  \A t \in Agents : t \in cancelled ~>
    (At(Root(t), "ended") /\ ses[Sub(t)].at \in {"off", "ended"})
      \/ Held(Root(t)) \/ Held(Sub(t))

\* A subagent ends, cancelled or not and whatever its provider does, unless a
\* call of it is held: the task tool gives it 5 minutes.
SubagentEnds ==
  \A t \in Agents : ses[Sub(t)].at \notin {"off", "ended"} ~>
    ses[Sub(t)].at \in {"off", "ended"} \/ Held(Sub(t))
=============================================================================
