------------------------------- MODULE Spans -------------------------------
(***************************************************************************)
(* The wire contract: a finished span as the harness exports it and as      *)
(* internal/model decodes it.  Timestamps and span ids are numbers; a span  *)
(* is named by the time it started, and no two start at the same time.  Of  *)
(* the attributes it keeps those a verifier reads; the token counts of a    *)
(* chat are one sum; the texts that only occur as identities (tool names,   *)
(* arguments, call ids) are left abstract, and an output is reduced to what *)
(* the contract check makes of it.                                          *)
(***************************************************************************)
EXTENDS Integers, Sequences

NoSpan == 0          \* no parent
ForeignSpan == -1    \* FOREIGN_SPAN_ID: an id no span of the run has
NoTool == "none"
NoCall == <<0, 0, 0>>
ForgedCall == <<-1, -1, -1>>   \* "forged-tool-result-id"

\* What the raw output amounts to under the contract: absent, a valid
\* document, or one that is not JSON or has a field of the wrong type.
Outputs == {"none", "good", "bad"}

\* A span with its structural fields and no attributes.
Span(name, id, parent, end) ==
    [name |-> name, id |-> id, parent |-> parent, start |-> id, end |-> end,
     error |-> FALSE, links |-> <<>>,
     system |-> FALSE, tokens |-> 0, calls |-> <<>>,
     tool |-> NoTool, args |-> NoTool, callId |-> NoCall, ok |-> FALSE,
     final |-> FALSE, output |-> "none", contract |-> FALSE,
     completed |-> FALSE, closed |-> FALSE, decisions |-> <<>>]

IsChat(s) == s.name = "chat"
IsTool(s) == s.name = "tool.call"
IsAgent(s) == s.name = "agent.run"

=============================================================================
