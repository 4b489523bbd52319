--------------------------- MODULE ProviderStream ---------------------------
(***************************************************************************)
(* A run's calls of Provider.Stream: the request with its retries, the     *)
(* goroutine that reads the answer and sends chunks on a bounded channel,  *)
(* the agent loop that collects them, and a cancel at any step.            *)
(*                                                                         *)
(* The reader looks at the context before it reads, the loop when it       *)
(* receives, and nobody when the reader sends.                             *)
(***************************************************************************)
EXTENDS ProviderWire, FiniteSets

CONSTANTS
  Providers,    \* the providers a run may have
  MaxRetries,   \* RetryProvider.maxRetries
  Cap,          \* the capacity of the channel of chunks: 32
  Replies,      \* the answers an API may give: a set of sequences of lines by kind
  MaxTurns      \* bound: requests of the run with an answer (the loop's rounds)

ASSUME StreamAssumption ==
  /\ Providers \subseteq Kinds
  /\ MaxRetries \in Nat /\ Cap \in Nat \ {0} /\ MaxTurns \in Nat \ {0}

\* What the APIs keep to.  The end is said last.  Gemini's calls have names.
\* In OpenAI's format the first line of a call, and no later one, has the
\* call's ID and its name, and the end of a choice comes after its calls.
WellFormed(k, lines) ==
  /\ \A i \in DOMAIN lines : lines[i].t = "done" => i = Len(lines)
  /\ k = "gemini" => \A i \in DOMAIN lines : lines[i].t = "tool" => lines[i].name # None
  /\ k \notin {"claude", "gemini"} =>
       \A i \in DOMAIN lines : lines[i].t = "tool" =>
         LET first == \A j \in 1 .. i - 1 : lines[j].t = "tool" => lines[j].idx # lines[i].idx
         IN /\ first <=> lines[i].name # None
            /\ first <=> lines[i].id # None
            /\ \A j \in 1 .. i - 1 : lines[j].t # "finish"

ASSUME ReplyAssumption ==
  \A k \in Providers : \A reply \in Replies[k] : reply \in Seq(LineType) /\ WellFormed(k, reply)

\* How a request fails, by what the text of its error says: a busy server
\* (429, 5xx), a refused or broken connection, another failure of the round
\* trip (the client's timeout and a cancelled context among them), and a
\* refusal of the request itself.
Errors == {"busy", "broken", "trip", "rejected"}

VARIABLES
  kind,       \* the provider of the run
  wrapped,    \* whether it is in a RetryProvider: a subagent's is not
  keyed,      \* whether it has a key
  cancelled,  \* the run's context is done
  phase,      \* the loop: request, dial, backoff, collect, ended
  outcome,    \* how it ended: none before, completed, failed, canceled, exhausted
  attempt,    \* the attempt of RetryProvider.Stream
  history,    \* the messages the loop sends
  turn,       \* answers so far
  wire,       \* the body of the last request
  sent,       \* requests of this call that reached the API
  arriving,   \* the lines of the answer that arrive: a prefix of a reply
  broken,     \* the body ends with an error
  fetched,    \* lines that have been read
  pos,        \* lines that have been dealt with
  reader,     \* the goroutine: off, read, line, send, close, done
  rd,         \* what it keeps
  chan,       \* the channel of chunks
  body,       \* the response's body is open
  got         \* the loop's textBuf, toolCalls and usage

fixed == <<kind, wrapped, keyed>>
callVars == <<attempt, wire, sent>>
apiVars == <<arriving, broken>>
readerVars == <<fetched, pos, reader, rd, body>>
loopVars == <<phase, outcome, history, turn, got>>
vars == <<fixed, cancelled, callVars, apiVars, readerVars, chan, loopVars>>

Nothing == [text |-> <<>>, calls |-> <<>>, usage |-> 0]
Prompt == Message("user", 1, <<>>, None)
System == Message("system", 1, <<>>, None)

TypeOK ==
  /\ kind \in Providers /\ wrapped \in BOOLEAN /\ keyed \in BOOLEAN
  /\ cancelled \in BOOLEAN
  /\ phase \in {"request", "dial", "backoff", "collect", "ended"}
  /\ outcome \in {"none", "completed", "failed", "canceled", "exhausted"}
  /\ attempt \in 0 .. MaxRetries
  /\ history \in Seq(MessageType)
  /\ turn \in 0 .. MaxTurns
  /\ wire \in BodyType /\ sent \in Nat
  /\ arriving \in Seq(LineType) /\ broken \in BOOLEAN
  /\ fetched \in 0 .. Len(arriving) /\ pos \in 0 .. fetched
  /\ reader \in {"off", "read", "line", "send", "close", "done"}
  /\ rd \in ReaderType
  /\ chan \in Seq(ChunkType) /\ Len(chan) <= Cap
  /\ body \in BOOLEAN
  /\ got \in [text : Seq(Nat), calls : Seq(CallType), usage : Nat]

Init ==
  /\ kind \in Providers /\ wrapped \in BOOLEAN
  /\ keyed \in IF kind = "ollama" THEN {TRUE} ELSE BOOLEAN
  /\ cancelled = FALSE
  /\ phase = "request" /\ outcome = "none"
  /\ attempt = 0
  /\ history = <<System, Prompt>> /\ turn = 0
  /\ wire = [system |-> 0, entries |-> <<>>] /\ sent = 0
  /\ arriving = <<>> /\ broken = FALSE
  /\ fetched = 0 /\ pos = 0 /\ reader = "off" /\ rd = Fresh /\ chan = <<>> /\ body = FALSE
  /\ got = Nothing

-----------------------------------------------------------------------------
(***************************************************************************)
(* RetryProvider.Stream around the provider's Stream.                      *)
(***************************************************************************)

\* isRetryable looks for words in the text.  The URL of a Gemini request is
\* in the text of every failed round trip and has "rate" in it
\* (streamGenerateContent).
Retryable(e) == e \in {"busy", "broken"} \/ (kind = "gemini" /\ e = "trip")

End(how) == phase' = "ended" /\ outcome' = how

\* Stream returns an error: the loop fails.
Fail == End("failed") /\ UNCHANGED <<history, turn, got>>

\* Faults: one attempt too many; attempts that are not counted.
RetryOnceMore(e) ==
  IF wrapped /\ Retryable(e) /\ attempt <= MaxRetries
  THEN attempt' = attempt + 1 /\ phase' = "backoff" /\ UNCHANGED <<outcome, history, turn, got>>
  ELSE Fail /\ UNCHANGED attempt
RetryUncounted(e) ==
  IF wrapped /\ Retryable(e)
  THEN phase' = "backoff" /\ UNCHANGED <<attempt, outcome, history, turn, got>>
  ELSE Fail /\ UNCHANGED attempt

RetryOrFail(e) ==
  IF wrapped /\ Retryable(e) /\ attempt < MaxRetries
  THEN /\ attempt' = attempt + 1
       /\ phase' = "backoff"
       /\ UNCHANGED <<outcome, history, turn, got>>
  ELSE Fail /\ UNCHANGED attempt

NotConfigured ==
  /\ phase = "dial" /\ ~keyed
  /\ Fail
  /\ UNCHANGED <<fixed, cancelled, callVars, apiVars, readerVars, chan>>

\* Fault: the request is made without the context of the run.
DialFailsNoContext(e) ==
  /\ phase = "dial" /\ keyed
  /\ wire' = Body(kind, history)
  /\ sent' = sent + 1
  /\ RetryOrFail(e)
  /\ UNCHANGED <<fixed, cancelled, apiVars, readerVars, chan>>

\* The request fails.  One with a context that is done goes no further than
\* this process.
DialFails(e) ==
  /\ phase = "dial" /\ keyed
  /\ cancelled => e = "trip"
  /\ wire' = Body(kind, history)
  /\ sent' = IF cancelled THEN sent ELSE sent + 1
  /\ RetryOrFail(e)
  /\ UNCHANGED <<fixed, cancelled, apiVars, readerVars, chan>>

\* An answer with status 200.  The connection may break after any line, the
\* client's timeout of 120 seconds being one reason, and a line that has not
\* arrived in full is lost.
DialOpens(reply, n, err) ==
  /\ phase = "dial" /\ keyed /\ ~cancelled
  /\ reply \in Replies[kind] /\ n \in 0 .. Len(reply)
  /\ wire' = Body(kind, history)
  /\ sent' = sent + 1
  /\ arriving' = SubSeq(reply, 1, n) /\ broken' = err
  /\ fetched' = 0 /\ pos' = 0 /\ reader' = "read" /\ rd' = Fresh /\ body' = TRUE
  /\ phase' = "collect" /\ attempt' = 0
  /\ UNCHANGED <<fixed, cancelled, chan, outcome, history, turn, got>>

\* The timer fires, or the context is done; when both are so, select takes
\* either.
Backoff ==
  /\ phase = "backoff"
  /\ \/ phase' = "dial" /\ UNCHANGED <<outcome, history, turn, got>>
     \/ cancelled /\ Fail
  /\ UNCHANGED <<fixed, cancelled, callVars, apiVars, readerVars, chan>>

-----------------------------------------------------------------------------
(***************************************************************************)
(* The goroutine that reads the answer.                                    *)
(***************************************************************************)
SendNext(r) ==
  reader' = IF r.out # <<>> THEN "send" ELSE IF r.over THEN "close"
            ELSE IF pos' < fetched THEN "line" ELSE "read"

\* The context is done at the top of the loop.
ReaderStops ==
  /\ reader = "read" /\ cancelled
  /\ reader' = "close"
  /\ UNCHANGED <<fixed, cancelled, callVars, apiVars, fetched, pos, rd, body, chan, loopVars>>

\* One read brings k lines.
ReaderReads(k) ==
  /\ reader = "read" /\ k \in 1 .. Len(arriving) - pos
  /\ fetched' = pos + k
  /\ reader' = "line"
  /\ UNCHANGED <<fixed, cancelled, callVars, apiVars, pos, rd, body, chan, loopVars>>

\* The next of them.  The reader returns at the line that ends the stream.
ReaderTakesLine ==
  /\ reader = "line"
  /\ pos' = pos + 1
  /\ rd' \in ReadLine(kind, rd, arriving[pos + 1])
  /\ SendNext(rd')
  /\ UNCHANGED <<fixed, cancelled, callVars, apiVars, fetched, body, chan, loopVars>>

\* The read meets the end of the body, an error, or a context that is done.
ReaderAtEnd ==
  /\ reader = "read" /\ (pos = Len(arriving) \/ cancelled)
  /\ rd' \in AtEnd(kind, rd, broken \/ cancelled)
  /\ UNCHANGED pos
  /\ SendNext(rd')
  /\ UNCHANGED <<fixed, cancelled, callVars, apiVars, fetched, body, chan, loopVars>>

ReaderSends ==
  /\ reader = "send" /\ Len(chan) < Cap
  /\ chan' = Append(chan, Head(rd.out))
  /\ rd' = [rd EXCEPT !.out = Tail(@)]
  /\ UNCHANGED pos
  /\ SendNext(rd')
  /\ UNCHANGED <<fixed, cancelled, callVars, apiVars, fetched, body, loopVars>>

\* Fault: body and channel are closed where the stream ends, and not by
\* deferred calls.
ReaderClosesAtTheEnd ==
  /\ reader = "close" /\ rd.over
  /\ reader' = "done" /\ body' = FALSE
  /\ UNCHANGED <<fixed, cancelled, callVars, apiVars, fetched, pos, rd, chan, loopVars>>

\* The deferred calls: body.Close, then close(ch).
ReaderCloses ==
  /\ reader = "close"
  /\ IF body THEN body' = FALSE /\ UNCHANGED reader
             ELSE reader' = "done" /\ UNCHANGED body
  /\ UNCHANGED <<fixed, cancelled, callVars, apiVars, fetched, pos, rd, chan, loopVars>>

ReaderStep ==
  \/ ReaderStops \/ ReaderTakesLine \/ ReaderAtEnd \/ ReaderSends \/ ReaderCloses
  \/ \E k \in 1 .. Len(arriving) : ReaderReads(k)

-----------------------------------------------------------------------------
(***************************************************************************)
(* The agent loop: one request a round, until a reply calls no tool.       *)
(***************************************************************************)
Request ==
  /\ phase = "request"
  /\ IF cancelled THEN End("canceled") ELSE phase' = "dial" /\ UNCHANGED outcome
  /\ attempt' = 0 /\ sent' = IF cancelled THEN sent ELSE 0
  /\ got' = Nothing
  /\ reader' = IF cancelled THEN reader ELSE "off"
  /\ UNCHANGED <<fixed, cancelled, wire, apiVars, fetched, pos, rd, body, chan, history, turn>>

Collected(c) ==
  [got EXCEPT !.text = IF c.t = "text" THEN Append(@, c.n) ELSE @,
              !.calls = IF c.t = "call" THEN Append(@, c.call) ELSE @,
              !.usage = IF c.t = "done" THEN c.n ELSE @]

\* Fault: the chunk that ends the stream ends the collecting, too.
CollectToDone ==
  /\ phase = "collect" /\ chan # <<>>
  /\ chan' = Tail(chan)
  /\ IF cancelled THEN End("canceled") /\ UNCHANGED got
     ELSE /\ got' = Collected(Head(chan))
          /\ IF Head(chan).t = "done" THEN End("completed") ELSE UNCHANGED <<phase, outcome>>
  /\ UNCHANGED <<fixed, cancelled, callVars, apiVars, readerVars, history, turn>>

\* A chunk is received, and thrown away when the context is done.
Collect ==
  /\ phase = "collect" /\ chan # <<>>
  /\ chan' = Tail(chan)
  /\ IF cancelled THEN End("canceled") /\ UNCHANGED got
                  ELSE got' = Collected(Head(chan)) /\ UNCHANGED <<phase, outcome>>
  /\ UNCHANGED <<fixed, cancelled, callVars, apiVars, readerVars, history, turn>>

\* The text of a reply in history: how many pieces of text it has.
Assistant == Message("assistant", Len(got.text), got.calls, None)
Result(c) == Message("tool", 1, <<>>, c.id)
Results == [i \in DOMAIN got.calls |-> Result(got.calls[i])]

\* The channel is closed and empty.  The reply is recorded and its calls
\* are executed (AgentLoop has the cancels between them).
Record ==
  /\ phase = "collect" /\ chan = <<>> /\ reader = "done"
  /\ IF cancelled
     THEN End("canceled") /\ UNCHANGED <<history, turn>>
     ELSE /\ history' = history \o <<Assistant>> \o Results
          /\ turn' = turn + 1
          /\ IF got.calls = <<>> THEN End("completed")
             ELSE IF turn + 1 = MaxTurns THEN End("exhausted")
             ELSE phase' = "request" /\ UNCHANGED outcome
  /\ UNCHANGED <<fixed, cancelled, callVars, apiVars, readerVars, chan, got>>

LoopStep ==
  \/ Request \/ NotConfigured \/ Backoff \/ Collect \/ Record
  \/ \E e \in Errors : DialFails(e)
  \/ \E reply \in Replies[kind], err \in BOOLEAN :
       \E n \in 0 .. Len(reply) : DialOpens(reply, n, err)

Cancel ==
  /\ phase # "ended" /\ ~cancelled
  /\ cancelled' = TRUE
  /\ UNCHANGED <<fixed, callVars, apiVars, readerVars, chan, loopVars>>

Next == LoopStep \/ ReaderStep \/ Cancel

Spec == Init /\ [][Next]_vars

\* Both goroutines go on when they can: the API answers or the client's
\* timeout ends the wait, and timers fire.
FairSpec == Spec /\ WF_vars(LoopStep) /\ WF_vars(ReaderStep)

-----------------------------------------------------------------------------
(***************************************************************************)
(* Properties.                                                             *)
(***************************************************************************)

\* What the lines that arrived say, by definitions that know nothing of
\* reads, channels and flushes.
Texts(lines) ==
  LET t == Kept(lines, {l \in LineType : l.t = "text" /\ l.n > 0})
  IN [i \in DOMAIN t |-> t[i].n]
Opened(lines) == {i \in DOMAIN lines : lines[i].t = "tool" /\ lines[i].name # None}
Pieces(lines, idx) ==
  LET upto[i \in 0 .. Len(lines)] ==
        IF i = 0 THEN 0
        ELSE upto[i - 1] + IF lines[i].t = "tool" /\ lines[i].idx = idx THEN lines[i].n ELSE 0
  IN upto[Len(lines)]
CallAt(k, lines, i) ==
  CASE k = "claude" -> ToolCall(lines[i].id, lines[i].name, 0)
    [] k = "gemini" -> ToolCall(MadeUpID(lines[i].name), lines[i].name, lines[i].n)
    [] OTHER -> ToolCall(lines[i].id, lines[i].name, Pieces(lines, lines[i].idx))
Calls(k, lines) == {CallAt(k, lines, i) : i \in Opened(lines)}

\* A reply that is about to be recorded has the text that arrived, in order,
\* once, and each tool call that arrived, once, with all the pieces of its
\* arguments (with none for Claude, whose argument deltas are passed over),
\* however the lines were cut into reads, and whatever was sent at the end
\* of the stream (readSSE, readOpenAISSE, runLoop).
RecordedIsWhatArrived ==
  (phase = "collect" /\ chan = <<>> /\ reader = "done" /\ ~cancelled) =>
    /\ got.text = Texts(arriving)
    /\ {got.calls[i] : i \in DOMAIN got.calls} = Calls(kind, arriving)
    /\ Len(got.calls) = Cardinality(Opened(arriving))

\* The q-th entry of the last request is the result of the call `id', and only that.
Answers(q, id) ==
  /\ q \in DOMAIN wire.entries
  /\ Len(wire.entries[q].parts) = 1
  /\ wire.entries[q].parts[1].type = "result"
  /\ wire.entries[q].parts[1].id = IF kind = "gemini" THEN MadeUpID(id) ELSE id

\* In every request that is sent, the tool calls of an entry, which are its
\* last parts, are answered by the entries that follow, as many as calls, in
\* the same order, under the same IDs, before anything else (buildRequest,
\* buildOpenAIRequest): the APIs refuse a conversation in which a call is not
\* answered.  In Gemini's the IDs are names, and those of the results are not
\* those of the functions but what the reader has made of them.
RequestAnswersCalls ==
  \A p \in DOMAIN wire.entries :
    LET parts == wire.entries[p].parts
    IN \E first \in 1 .. Len(parts) + 1 :
         /\ \A i \in 1 .. first - 1 : parts[i].type # "call"
         /\ \A i \in first .. Len(parts) :
              parts[i].type = "call" /\ Answers(p + i - first + 1, parts[i].id)

\* A run that ends leaves no reader and no open body behind, unless it was
\* cancelled while it collected: only the loop's return at a cancel leaves
\* chunks unreceived (engine.go:265).
OnlyACancelStrands ==
  (phase = "ended" /\ outcome # "canceled") => (reader \in {"off", "done"} /\ ~body)

\* Once the run is cancelled no request goes out any more, whatever attempt
\* RetryProvider is at and whichever way its select goes.
NoRequestAfterCancel == [][cancelled => sent' = sent]_vars

\* A reader that is stuck: the channel is full and the loop is gone.
Stuck == reader = "send" /\ Len(chan) = Cap /\ phase = "ended"

\* After a run has ended its reader ends, too, or is stuck for ever in a send
\* on the full channel (claude.go:239, openai_compat.go:139, copilot.go:279).
ReaderEndsOrIsStuck == (phase = "ended") ~> (reader \in {"off", "done"} \/ []Stuck)

\* Every run ends, whatever the API does, and whether or not it is cancelled.
RunEnds == <>(phase = "ended")
=============================================================================
