------------------------------- MODULE Tools --------------------------------
(***************************************************************************)
(* The tools and who may use them: what each kind of session registers,    *)
(* what its permissions let through, and what the model is told of a call. *)
(*                                                                         *)
(* A kind is "agent" (a task), "plan" (a plan), "client" (a tool a client  *)
(* calls directly), "explore" or "general" (the two subagents).            *)
(***************************************************************************)

readOnlyTools == {"file_read", "file_list", "grep", "glob", "git_status",
                  "git_diff", "git_log", "ask_user", "web_fetch"}
writeTools == {"file_write", "file_edit", "shell_exec", "git_add",
               "git_commit", "git_push", "task"}
ToolNames == readOnlyTools \cup writeTools

SessionKinds == {"agent", "plan", "client", "explore", "general"}
SubagentKinds == {"explore", "general"}

\* DefaultDispatcherWithOpts: every tool, and task when there is a spawner.
DefaultTools(spawner) == IF spawner THEN ToolNames ELSE ToolNames \ {"task"}

\* subagentDispatcher.
ExploreTools == {"file_read", "file_list", "grep", "glob"}
GeneralTools == ExploreTools \cup {"file_write", "file_edit", "shell_exec",
                                   "git_status", "git_diff", "git_log"}
SubagentTools(kind) == IF kind = "explore" THEN ExploreTools ELSE GeneralTools

Registered(kind) ==
  IF kind \in SubagentKinds THEN SubagentTools(kind) ELSE DefaultTools(kind = "agent")

\* Permissions: only a plan's dispatcher is given any.
Level(kind) == IF kind = "plan" THEN "readonly" ELSE "none"

\* Fault: the filter decides what the model is offered, not what is run.
CanUseAny(level, tool) == TRUE

CanUseTool(level, tool) == level = "readonly" => tool \in readOnlyTools

\* ToolDefs, the offer to the model, and Dispatch, which does not rely on it:
\* the model may name any tool.
Offered(kind) == {t \in Registered(kind) : CanUseTool(Level(kind), t)}
Dispatches(kind, tool) == tool \in Registered(kind) /\ CanUseTool(Level(kind), tool)

-----------------------------------------------------------------------------
(***************************************************************************)
(* A result: whether the call did not do what it was asked, whether Error  *)
(* is set, whether Output says so, whether Output is past the limits of    *)
(* TruncateOutput, and whether it is a reply that was cut.                 *)
(***************************************************************************)
Result(failed, error, says, long, cut) ==
  [failed |-> failed, error |-> error, says |-> says, long |-> long, cut |-> cut]

Done == Result(FALSE, FALSE, FALSE, FALSE, FALSE)

\* Every early return of a tool: Error, and an Output that begins with it.  A
\* page that a server refuses has only the Output.
Refused == Result(TRUE, TRUE, TRUE, FALSE, FALSE)

Unfetched == Result(TRUE, FALSE, TRUE, FALSE, FALSE)

\* shell_exec ends its Output with the exit code.
ShellResult(bad, long) == Result(bad, bad, bad, long, FALSE)

\* The task tool sets no Error: a subagent's error is in its Output.
\* A subagent has answered, or was cut in its last reply, or was stopped.
TaskResult(sub) ==
  Result(sub.how # "answered", FALSE, sub.error, FALSE, sub.how = "cut")

\* TruncateOutput keeps the beginning, and loses a shell's last line.
TruncateOutput(r, tool) == [r EXCEPT !.says = @ /\ ~(r.long /\ tool = "shell_exec")]

\* The content of the tool message.  A subagent's is the error alone when
\* there is one, without the output.
Content(kind, r) ==
  [r EXCEPT !.says = IF kind \in SubagentKinds /\ r.error THEN TRUE ELSE @]
=============================================================================
