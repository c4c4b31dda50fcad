---------------------------- MODULE MCLlmAttempt ----------------------------
(* A task that names a model whose provider has no key, and one that is    *)
(* routed by its type past the first candidate; one token in the bucket,   *)
(* two ticks for the next, more than the timeout; latency longer than the  *)
(* timeout.                                                                *)
EXTENDS LlmAttempt

MCNamed  == [model |-> "claude-haiku", taskType |-> "none"]
MCRouted == [model |-> "none", taskType |-> "code"]
MCRequests == {MCNamed, MCRouted}

\* The runs differ only in the model, so two sets of keys are enough for them.
MCInit ==
  /\ Init
  /\ \A t \in Task : configured = IF task[t].request = MCNamed THEN {} ELSE {"openai"}

MCSpec == MCInit /\ [][Next]_vars /\ Fairness

=============================================================================
