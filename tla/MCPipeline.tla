----------------------------- MODULE MCPipeline -----------------------------
(***************************************************************************)
(* Replies for the model checker: an allowed call, the same with other      *)
(* arguments, one that fails and one that is forbidden.                     *)
(***************************************************************************)
EXTENDS Pipeline

Search == [tool |-> "search", args |-> "p", ok |-> TRUE]
Other == [tool |-> "search", args |-> "q", ok |-> TRUE]
Fails == [tool |-> "search", args |-> "p", ok |-> FALSE]
Forbidden == [tool |-> "delete", args |-> "p", ok |-> FALSE]

MCCalls == {Search, Other, Fails, Forbidden}
MCCallLists == {<<c>> : c \in MCCalls} \cup {<<c, d>> : c, d \in {Search, Other}}
                  \cup {<<Search, Forbidden>>}
MCOneCall == {<<Search>>}
MCTokenCounts == {1, 3}
MCOneToken == {1}
MCAllowed == {"search"}

=============================================================================
