---------------------------- MODULE SessionStore ----------------------------
(***************************************************************************)
(* The session store: a cache of sessions under an RWMutex and one JSON    *)
(* file per session.  Every operation changes the cache under the lock and *)
(* brings the file up to date after it has let the lock go, in three steps *)
(* another goroutine can come between: marshal under the read lock, open   *)
(* with truncation, write.  A restart of the daemon keeps the files only.  *)
(*                                                                         *)
(* An operation holds a pointer to the session it changed.  As sessions    *)
(* are changed through the cache only, one that Delete or Create takes out *)
(* of the cache stays as it is, so the pointer is modelled by `held': None *)
(* for the cached session, else the value of the session taken out.        *)
(***************************************************************************)
EXTENDS Integers, Sequences

CONSTANTS
  Sessions,
  Callers,        \* goroutines that use the store: agent loops and handlers
  States,         \* the states UpdateState is called with
  None,
  Absent, Empty, Torn,  \* what a file can be besides a session's JSON;
                        \* Torn is text that is no JSON document
  DiskMayFill,    \* whether a write may fail for want of space
  MaxMessages,    \* bound: messages of a session
  MaxTokens,      \* bound: token counts of a session
  MaxCompactions  \* bound: compactions of a session

ASSUME StatesAssumption == "active" \in States
ASSUME BoundAssumption ==
  MaxMessages \in Nat /\ MaxTokens \in Nat /\ MaxCompactions \in Nat
ASSUME DiskAssumption == DiskMayFill \in BOOLEAN

Session ==
  [messages: Seq(Callers), state: States, tokens: Nat, compactions: Nat]

ASSUME FileAssumption ==
  /\ None \notin {Absent, Empty, Torn}
  /\ Absent # Empty /\ Absent # Torn /\ Empty # Torn
  /\ {Absent, Empty, Torn, None} \cap Session = {}
  /\ None \notin Sessions

VARIABLES
  cache,   \* SessionStore.sessions
  file,    \* the file of each session
  pc,      \* where the caller is in its operation
  on,      \* the session of the operation
  held,    \* the session the operation's pointer leads to
  alone,   \* history: no other operation on the session overlapped this one
  clean,   \* history: the session's last operation was alone and succeeded
  appended \* history: since the session was created or loaded, messages
           \* were added to it only

vars == <<cache, file, pc, on, held, alone, clean, appended>>

Busy == {"marshal", "open", "write", "lost", "unlink"}

TypeOK ==
  /\ cache \in [Sessions -> Session \cup {None}]
  /\ file \in [Sessions -> Session \cup {Absent, Empty, Torn}]
  /\ pc \in [Callers -> Busy \cup {"idle", "create"}]
  /\ on \in [Callers -> Sessions \cup {None}]
  /\ held \in [Callers -> Session \cup {None}]
  /\ alone \in [Callers -> BOOLEAN]
  /\ clean \in [Sessions -> BOOLEAN]
  /\ appended \in [Sessions -> BOOLEAN]

Init ==
  /\ cache = [i \in Sessions |-> None]
  /\ file = [i \in Sessions |-> Absent]
  /\ pc = [g \in Callers |-> "idle"]
  /\ on = [g \in Callers |-> None]
  /\ held = [g \in Callers |-> None]
  /\ alone = [g \in Callers |-> FALSE]
  /\ clean = [i \in Sessions |-> TRUE]
  /\ appended = [i \in Sessions |-> TRUE]

-----------------------------------------------------------------------------
(***************************************************************************)
(* The locked part of each operation.                                      *)
(***************************************************************************)

InFlight(g, i) == pc[g] \in Busy /\ on[g] = i

\* Operation of caller g on session i goes on at place p after the lock.
Begin(g, i, p) ==
  /\ pc' = [pc EXCEPT ![g] = p]
  /\ on' = [on EXCEPT ![g] = i]
  /\ alone' = [h \in Callers |->
       IF h = g THEN \A k \in Callers : ~InFlight(k, i)
       ELSE alone[h] /\ ~InFlight(h, i)]
  /\ UNCHANGED <<file, clean>>

\* Session i leaves the cache: pointers to it keep its last value.
TakeOut(i) ==
  held' = [h \in Callers |->
    IF pc[h] = "marshal" /\ on[h] = i /\ held[h] = None THEN cache[i] ELSE held[h]]

Change(g, i, s) ==
  /\ pc[g] = "idle"
  /\ cache' = [cache EXCEPT ![i] = s]
  /\ Begin(g, i, "marshal")
  /\ UNCHANGED held

-----------------------------------------------------------------------------
\* Faults: what a bug in the code could make of the operations below.

\* A new message in front of the history.
PrependMessage(g, i) ==
  /\ cache[i] # None
  /\ Len(cache[i].messages) < MaxMessages
  /\ Change(g, i, [cache[i] EXCEPT !.messages = <<g>> \o @])
  /\ UNCHANGED appended

\* The session is marshalled before the lock is taken for the change.
UpdateStateMarshalsFirst(g, i, s) ==
  /\ cache[i] # None
  /\ pc[g] = "idle"
  /\ cache' = [cache EXCEPT ![i].state = s]
  /\ held' = [held EXCEPT ![g] = cache[i]]
  /\ Begin(g, i, "open")
  /\ UNCHANGED appended

\* Delete ends as the other operations do, with writeToDisk.
DeleteWrites(g, i) ==
  /\ pc[g] = "idle"
  /\ cache' = [cache EXCEPT ![i] = None]
  /\ TakeOut(i)
  /\ appended' = [appended EXCEPT ![i] = FALSE]
  /\ Begin(g, i, "marshal")

-----------------------------------------------------------------------------
\* A session that is not in the cache is an error, and nothing changes.
AppendMessage(g, i) ==
  /\ cache[i] # None
  /\ Len(cache[i].messages) < MaxMessages
  /\ Change(g, i, [cache[i] EXCEPT !.messages = Append(@, g)])
  /\ UNCHANGED appended

UpdateState(g, i, s) ==
  /\ cache[i] # None
  /\ Change(g, i, [cache[i] EXCEPT !.state = s])
  /\ UNCHANGED appended

UpdateTokens(g, i, n) ==
  /\ cache[i] # None
  /\ Change(g, i, [cache[i] EXCEPT !.tokens = n])
  /\ UNCHANGED appended

IncrementCompaction(g, i) ==
  /\ cache[i] # None
  /\ cache[i].compactions < MaxCompactions
  /\ Change(g, i, [cache[i] EXCEPT !.compactions = @ + 1])
  /\ UNCHANGED appended

ClearMessages(g, i) ==
  /\ cache[i] # None
  /\ Change(g, i, [cache[i] EXCEPT !.messages = <<>>, !.tokens = 0, !.state = "active"])
  /\ appended' = [appended EXCEPT ![i] = FALSE]

\* Engine.Start: Get returns no session, or one without messages, so Create
\* is next; other callers may come between.
Get(g, i) ==
  /\ pc[g] = "idle"
  /\ cache[i] # None => cache[i].messages = <<>>
  /\ pc' = [pc EXCEPT ![g] = "create"]
  /\ on' = [on EXCEPT ![g] = i]
  /\ UNCHANGED <<cache, file, held, alone, clean, appended>>

NewSession ==
  [messages |-> <<>>, state |-> "active", tokens |-> 0, compactions |-> 0]

Create(g) ==
  LET i == on[g] IN
  /\ pc[g] = "create"
  /\ cache' = [cache EXCEPT ![i] = NewSession]
  /\ TakeOut(i)
  /\ appended' = [appended EXCEPT ![i] =
       file[i] = Absent /\ \A h \in Callers : ~InFlight(h, i)]
  /\ Begin(g, i, "marshal")

Delete(g, i) ==
  /\ pc[g] = "idle"
  /\ cache' = [cache EXCEPT ![i] = None]
  /\ TakeOut(i)
  /\ appended' = [appended EXCEPT ![i] = FALSE]
  /\ Begin(g, i, "unlink")

-----------------------------------------------------------------------------
(***************************************************************************)
(* writeToDisk and os.Remove, which no lock protects.                      *)
(***************************************************************************)

Return(g, ok) ==
  /\ held' = [held EXCEPT ![g] = None]
  /\ alone' = [alone EXCEPT ![g] = FALSE]
  /\ clean' = [clean EXCEPT ![on[g]] = ok /\ alone[g]]
  /\ UNCHANGED <<cache, on, appended>>

Marshal(g) ==
  /\ pc[g] = "marshal"
  /\ held' = [held EXCEPT ![g] = IF @ = None THEN cache[on[g]] ELSE @]
  /\ pc' = [pc EXCEPT ![g] = "open"]
  /\ UNCHANGED <<cache, file, on, alone, clean, appended>>

\* os.WriteFile opens the file, creating or truncating it ...
Open(g) ==
  /\ pc[g] = "open"
  /\ file' = [file EXCEPT ![on[g]] = Empty]
  /\ pc' = [pc EXCEPT ![g] = "write"]
  /\ UNCHANGED <<cache, on, held, alone, clean, appended>>

Beginning(a, b) == Len(a) <= Len(b) /\ a = SubSeq(b, 1, Len(a))
Longer(a, b) == a # b /\ Beginning(b, a)

\* What a file holding old becomes when new is written from offset 0.  A
\* longer old text sticks out behind the new one.  Which text is longer is
\* certain only if one has all messages of the other and more.
Overwritten(old, new) ==
  IF old = Empty THEN {new}
  ELSE IF old \notin Session THEN {new, Torn}
  ELSE (IF Longer(old.messages, new.messages) THEN {} ELSE {new})
       \cup (IF Longer(new.messages, old.messages) THEN {} ELSE {Torn})

\* ... and then writes it.
Write(g) ==
  /\ pc[g] = "write"
  /\ \E f \in Overwritten(file[on[g]], held[g]) : file' = [file EXCEPT ![on[g]] = f]
  /\ pc' = [pc EXCEPT ![g] = "idle"]
  /\ Return(g, TRUE)

\* The disk is full: the caller gets the error, the file a part of the text.
WriteFails(g) ==
  /\ DiskMayFill
  /\ pc[g] = "write"
  /\ \E f \in {file[on[g]], Torn} : file' = [file EXCEPT ![on[g]] = f]
  /\ pc' = [pc EXCEPT ![g] = "idle"]
  /\ Return(g, FALSE)

\* The file was unlinked after it was opened: the write succeeds, unseen.
WriteUnlinked(g) ==
  /\ pc[g] = "lost"
  /\ pc' = [pc EXCEPT ![g] = "idle"]
  /\ Return(g, TRUE)
  /\ UNCHANGED file

Remove(g) ==
  /\ pc[g] = "unlink"
  /\ file' = [file EXCEPT ![on[g]] = Absent]
  /\ pc' = [h \in Callers |->
       IF h = g THEN "idle"
       ELSE IF pc[h] = "write" /\ on[h] = on[g] THEN "lost"
       ELSE pc[h]]
  /\ Return(g, TRUE)

-----------------------------------------------------------------------------
\* What loadAll makes of a session's file: unreadable files are skipped.
Loaded(i) == IF file[i] \in Session THEN file[i] ELSE None

\* The daemon stops anywhere, and NewSessionStore reads the directory.
Restart ==
  /\ cache' = [i \in Sessions |-> Loaded(i)]
  /\ pc' = [g \in Callers |-> "idle"]
  /\ on' = [g \in Callers |-> None]
  /\ held' = [g \in Callers |-> None]
  /\ alone' = [g \in Callers |-> FALSE]
  /\ clean' = [i \in Sessions |-> TRUE]
  /\ appended' = [i \in Sessions |-> TRUE]
  /\ UNCHANGED file

Operation(g, i) ==
  \/ AppendMessage(g, i)
  \/ \E s \in States : UpdateState(g, i, s)
  \/ \E n \in 0 .. MaxTokens : UpdateTokens(g, i, n)
  \/ IncrementCompaction(g, i)
  \/ ClearMessages(g, i)
  \/ Get(g, i)
  \/ Delete(g, i)

Continue(g) ==
  \/ Create(g)
  \/ Marshal(g)
  \/ Open(g)
  \/ Write(g)
  \/ WriteFails(g)
  \/ WriteUnlinked(g)
  \/ Remove(g)

Next ==
  \/ \E g \in Callers, i \in Sessions : Operation(g, i)
  \/ \E g \in Callers : Continue(g)
  \/ Restart

Spec == Init /\ [][Next]_vars

-----------------------------------------------------------------------------
(***************************************************************************)
(* Properties.                                                             *)
(***************************************************************************)

Quiet(i) == \A g \in Callers : ~InFlight(g, i)

\* Once the last operation on a session, alone while it ran, has returned
\* without error, a restart would load exactly what the cache holds: the
\* deleted session is gone, any other complete, whatever overlapping
\* operations or failed writes had left of its file before.
LoneOperationPersists ==
  \A i \in Sessions : Quiet(i) /\ clean[i] => Loaded(i) = cache[i]

\* As long as a session's messages are only added to, its file is behind the
\* cache or level with it, in whichever order writeToDisk runs for several
\* callers: what a restart loads is a beginning of the history.
FileLagsHistory ==
  \A i \in Sessions : appended[i] /\ cache[i] # None /\ file[i] \in Session =>
    Beginning(file[i].messages, cache[i].messages)

\* The file's header says that the store enables `conversation history to
\* survive daemon restarts': with no operation under way, a restart loads
\* what the cache holds.
HistorySurvivesRestart ==
  \A i \in Sessions : Quiet(i) => Loaded(i) = cache[i]
=============================================================================
