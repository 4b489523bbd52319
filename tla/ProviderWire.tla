---------------------------- MODULE ProviderWire ----------------------------
(***************************************************************************)
(* What the model providers put on the wire and take from it: the body of  *)
(* a request as each API wants the conversation, and the reading of the    *)
(* answer, a stream of server-sent events, into the chunks the agent loop  *)
(* collects.  Claude and Gemini have a format of their own, Copilot reads  *)
(* and writes OpenAI's format with code of its own, and OpenRouter, Ollama *)
(* and Azure share openai_compat.go.                                       *)
(*                                                                         *)
(* A text is a number (0: empty), a tool call has the number of pieces of  *)
(* its arguments, and a field that is absent or empty is None.             *)
(***************************************************************************)
EXTENDS Integers, Sequences, SequencesExt

CONSTANTS
  Names,   \* the names of the tools an API may call
  IDs,     \* the IDs it may give to calls
  None

Kinds == {"claude", "gemini", "copilot", "openrouter", "ollama", "azure"}

Message(role, text, calls, id) ==
  [role |-> role, text |-> text, calls |-> calls, id |-> id]
ToolCall(id, name, args) == [id |-> id, name |-> name, args |-> args]

\* Gemini sends a call without an ID: its reader makes one of the name.
MadeUpID(name) == <<"call", name>>

SomeName == Names \cup {None}
SomeID == IDs \cup {None} \cup {MadeUpID(name) : name \in SomeName}
CallType == [id : SomeID, name : SomeName, args : Nat]
MessageType ==
  [role : {"system", "user", "assistant", "tool"}, text : Nat, calls : Seq(CallType), id : SomeID]

\* The elements of the sequence s that are in the set S, in their order.
Kept(s, S) ==
  LET upto[i \in 0 .. Len(s)] ==
        IF i = 0 THEN <<>>
        ELSE IF s[i] \in S THEN Append(upto[i - 1], s[i]) ELSE upto[i - 1]
  IN upto[Len(s)]

-----------------------------------------------------------------------------
(***************************************************************************)
(* Requests.  An entry of a body is a role and its parts.                  *)
(***************************************************************************)
Part(type, id, text) == [type |-> type, id |-> id, text |-> text]
TextPart(n) == Part("text", None, n)
CallPart(c) == Part("call", c.id, c.args)
ResultPart(m) == Part("result", m.id, m.text)
Entry(role, parts) == [role |-> role, parts |-> parts]

PartType == [type : {"text", "call", "result"}, id : SomeID \cup SomeName, text : Nat]
EntryType == [role : {"system", "user", "assistant", "tool", "model"}, parts : Seq(PartType)]
BodyType == [system : Nat, entries : Seq(EntryType)]

IfAny(n) == IF n = 0 THEN <<>> ELSE <<TextPart(n)>>
CallParts(m) == [i \in DOMAIN m.calls |-> CallPart(m.calls[i])]

\* The last of the system messages, which APIs that want it apart are sent.
SystemOf(h) ==
  LET s == Kept(h, {m \in MessageType : m.role = "system"})
  IN IF s = <<>> THEN 0 ELSE s[Len(s)].text
Conversation(h) == Kept(h, {m \in MessageType : m.role # "system"})

ClaudeEntry(m) ==
  IF m.role = "tool" THEN Entry("user", <<ResultPart(m)>>)
  ELSE IF m.calls # <<>> THEN Entry(m.role, IfAny(m.text) \o CallParts(m))
  ELSE Entry(m.role, <<TextPart(m.text)>>)

ClaudeBody(h) ==
  LET c == Conversation(h)
  IN [system |-> SystemOf(h), entries |-> [i \in DOMAIN c |-> ClaudeEntry(c[i])]]

\* Gemini's calls go without an ID.  The result that answers one goes under
\* the ID that its reader has made up, not under the function's name.
GeminiCalls(m) ==
  [i \in DOMAIN m.calls |-> Part("call", m.calls[i].name, m.calls[i].args)]

GeminiEntry(m) ==
  CASE m.role = "user"      -> Entry("user", <<TextPart(m.text)>>)
    [] m.role = "assistant" -> Entry("model", IfAny(m.text) \o GeminiCalls(m))
    [] m.role = "tool"      -> Entry("user", <<ResultPart(m)>>)

GeminiBody(h) ==
  LET c == Conversation(h)
  IN [system |-> SystemOf(h), entries |-> [i \in DOMAIN c |-> GeminiEntry(c[i])]]

\* OpenAI's format takes every message as it is; a tool's result is one with
\* the call's ID.
OpenAIEntry(m) ==
  Entry(m.role, (IF m.id # None THEN <<ResultPart(m)>> ELSE <<TextPart(m.text)>>) \o CallParts(m))
OpenAIBody(h) ==
  [system |-> 0, entries |-> [i \in DOMAIN h |-> OpenAIEntry(h[i])]]

CopilotBody(h) == OpenAIBody(h)

\* Fault: every message of the history is sent, but for the results of tools.
BodyNoResults(kind, h) ==
  ClaudeBody(Kept(h, {m \in MessageType : m.role # "tool"}))

Body(kind, h) ==
  CASE kind = "claude"  -> ClaudeBody(h)
    [] kind = "gemini"  -> GeminiBody(h)
    [] kind = "copilot" -> CopilotBody(h)
    [] OTHER            -> OpenAIBody(h)

-----------------------------------------------------------------------------
(***************************************************************************)
(* Answers.  A line is the data of one event; an event that carries        *)
(* several things is as many lines.  A "tool" line opens a call or brings  *)
(* pieces of its arguments.  Other lines (comments, text that is no JSON,  *)
(* events of no interest) are "noise".                                     *)
(***************************************************************************)
Line(t, idx, id, name, n) == [t |-> t, idx |-> idx, id |-> id, name |-> name, n |-> n]
LineType ==
  [t : {"text", "tool", "usage", "finish", "done", "noise"}, idx : Nat,
   id : IDs \cup {None}, name : SomeName, n : Nat]
TextLine(n) == Line("text", 0, None, None, n)
OpenCall(idx, id, name, n) == Line("tool", idx, id, name, n)
MoreArgs(idx, n) == Line("tool", idx, None, None, n)
UsageLine(n) == Line("usage", 0, None, None, n)
Finish == Line("finish", 0, None, None, 0)
DoneLine == Line("done", 0, None, None, 0)
Noise == Line("noise", 0, None, None, 0)

\* StreamChunk.  Usage comes with the last chunk only.
Chunk(t, n, call) == [t |-> t, n |-> n, call |-> call]
NoCall == ToolCall(None, None, 0)
TextChunk(n) == Chunk("text", n, NoCall)
CallChunk(c) == Chunk("call", 0, c)
DoneChunk(n) == Chunk("done", n, NoCall)

ChunkType == [t : {"text", "call", "done"}, n : Nat, call : CallType]

\* What a reader keeps: the chunks it has to send, the calls it gathers (a map
\* of calls by index), the usage, and whether it has seen the end.
Fresh == [out |-> <<>>, pending |-> {}, usage |-> 0, over |-> FALSE]
ReaderType ==
  [out : Seq(ChunkType), pending : SUBSET [idx : Nat, call : CallType], usage : Nat, over : BOOLEAN]
Emit(r, c) == [r EXCEPT !.out = Append(@, c)]
Over(r) == [Emit(r, DoneChunk(r.usage)) EXCEPT !.over = TRUE]

ClaudeLine(r, l) ==
  CASE l.t = "text"  -> IF l.n = 0 THEN r ELSE Emit(r, TextChunk(l.n))
    [] l.t = "tool"  -> \* content_block_start; input_json_delta is passed over
                        IF l.name = None THEN r ELSE Emit(r, CallChunk(ToolCall(l.id, l.name, 0)))
    [] l.t = "usage" -> [r EXCEPT !.usage = l.n]
    [] l.t = "done"  -> Over(r)
    [] OTHER         -> r

\* Gemini sends a call whole, without an ID.
GeminiLine(r, l) ==
  CASE l.t = "text"  -> IF l.n = 0 THEN r ELSE Emit(r, TextChunk(l.n))
    [] l.t = "tool"  -> Emit(r, CallChunk(ToolCall(MadeUpID(l.name), l.name, l.n)))
    [] l.t = "usage" -> [r EXCEPT !.usage = l.n]
    [] OTHER         -> r

\* A "tool" line of OpenAI's format: the first with an index opens the call,
\* the others replace the ID and the name when they have one, and add to the
\* arguments.
Gather(pending, l) ==
  IF \E p \in pending : p.idx = l.idx
  THEN {IF p.idx # l.idx THEN p
        ELSE [p EXCEPT !.call =
               ToolCall(IF l.id = None THEN @.id ELSE l.id,
                        IF l.name = None THEN @.name ELSE l.name,
                        @.args + l.n)] : p \in pending}
  ELSE pending \cup {[idx |-> l.idx, call |-> ToolCall(l.id, l.name, l.n)]}

\* flushTools sends the calls that have a name, in the order in which Go goes
\* through a map, which is any.
Named(pending) == {p \in pending : p.call.name # None}

\* Fault: the gathered calls are not forgotten once they are sent.
FlushKeeps(r) ==
  {[r EXCEPT !.out = @ \o [i \in DOMAIN walk |-> CallChunk(walk[i].call)]] :
   walk \in SetToSeqs(Named(r.pending))}

Flush(r) ==
  {[r EXCEPT !.out = @ \o [i \in DOMAIN walk |-> CallChunk(walk[i].call)], !.pending = {}] :
   walk \in SetToSeqs(Named(r.pending))}

OpenAILine(r, l) ==
  CASE l.t = "text"   -> {IF l.n = 0 THEN r ELSE Emit(r, TextChunk(l.n))}
    [] l.t = "tool"   -> {[r EXCEPT !.pending = Gather(@, l)]}
    [] l.t = "finish" -> Flush(r)
    [] l.t = "usage"  -> {[r EXCEPT !.usage = l.n]}
    [] l.t = "done"   -> {Over(f) : f \in Flush(r)}
    [] OTHER          -> {r}

\* copilot.go has the same loop once more, line for line.
CopilotLine(r, l) == OpenAILine(r, l)

\* What a line may make of a reader.
ReadLine(kind, r, l) ==
  CASE kind = "claude"  -> {ClaudeLine(r, l)}
    [] kind = "gemini"  -> {GeminiLine(r, l)}
    [] kind = "copilot" -> CopilotLine(r, l)
    [] OTHER            -> OpenAILine(r, l)

\* The body ends, with an error or not.  Claude's reader says nothing of an
\* end without error.
AtEnd(kind, r, failed) ==
  CASE kind = "claude" -> {IF failed THEN Over(r) ELSE [r EXCEPT !.over = TRUE]}
    [] kind = "gemini" -> {Over(r)}
    [] OTHER           -> {Over(f) : f \in Flush(r)}
=============================================================================
