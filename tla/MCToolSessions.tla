--------------------------- MODULE MCToolSessions ---------------------------
\* An instance of ToolSessions for TLC.
EXTENDS ToolSessions
CONSTANTS t1, t2, x, y

\* A task, and next to it a plan or a client.
MCRoots == [t \in {t1, t2} |-> IF t = t1 THEN {"agent"} ELSE {"plan", "client"}]
MCPlaces == {x, y}
\* A text in which every place occurs again, one of them twice.
MCContents == {[p \in MCPlaces |-> IF p = x THEN 1 ELSE 2]}
MCAsked ==
  [kind \in SessionKinds |->
    CASE kind = "agent" -> {"task", "file_edit", "git_commit"}
      [] kind = "plan" -> {"git_log", "ask_user", "web_fetch", "file_edit"}
      [] kind = "client" -> {"file_edit", "git_add", "git_commit", "git_push"}
      [] kind = "general" -> {"file_edit", "file_write", "shell_exec"}
      [] kind = "explore" -> {"grep", "file_write", "no_such_tool"}]
MCMaxCalls ==
  [kind \in SessionKinds |-> IF kind = "agent" THEN 2 ELSE 1]
=============================================================================
