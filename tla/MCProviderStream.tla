-------------------------- MODULE MCProviderStream --------------------------
\* An instance of ProviderStream for TLC.
EXTENDS ProviderStream

CONSTANTS c1, c2, read, grep

\* A reply in text only, and one that calls two tools.
OpenAIReplies ==
  {<<TextLine(1), TextLine(2), Finish, UsageLine(7), DoneLine>>,
   <<OpenCall(0, c1, read, 0), OpenCall(1, c2, read, 1), MoreArgs(0, 1), Finish, DoneLine>>}
ClaudeReplies ==
  {<<UsageLine(3), TextLine(1), TextLine(2), DoneLine>>,
   <<TextLine(1), OpenCall(0, c1, read, 0), MoreArgs(0, 1), OpenCall(1, c2, grep, 0), DoneLine>>}
GeminiReplies ==
  {<<TextLine(1), Noise, TextLine(2), UsageLine(7)>>,
   <<TextLine(1), OpenCall(0, None, read, 2), OpenCall(0, None, grep, 1)>>}

MCReplies == [k \in Kinds |->
  CASE k = "claude" -> ClaudeReplies [] k = "gemini" -> GeminiReplies [] OTHER -> OpenAIReplies]
=============================================================================
