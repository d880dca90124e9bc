----------------------------- MODULE MCHarness -----------------------------
(***************************************************************************)
(* Replies for the model checker: a turn asks for one or two calls of a     *)
(* tool that works or fails.                                                *)
(***************************************************************************)
EXTENDS Harness

Works == [tool |-> "search", args |-> "q", ok |-> TRUE]
Fails == [tool |-> "search", args |-> "q", ok |-> FALSE]

MCCalls == {Works, Fails}
MCCallLists == {<<Works>>, <<Fails>>, <<Works, Fails>>}
MCTokenCounts == {0, 2}
MCTwoCalls == {<<Works>>, <<Works, Works>>}

=============================================================================
