------------------------------- MODULE Router -------------------------------
(***************************************************************************)
(* The model registry and the router: which model a task runs on, given    *)
(* what the request names and which providers have an API key.             *)
(***************************************************************************)
EXTENDS Naturals

Provider == {"anthropic", "openai", "ollama"}

\* MODELS: the provider of each registered model.
Registry ==
  [m \in {"claude-haiku", "claude-sonnet", "gpt-4o-mini", "gpt-4o", "llama3.2"} |->
     IF m = "llama3.2" THEN "ollama"
     ELSE IF m \in {"gpt-4o-mini", "gpt-4o"} THEN "openai" ELSE "anthropic"]

Model == DOMAIN Registry
DefaultModel == "llama3.2"

\* ROUTING_TABLE
Candidates ==
  [simple  |-> <<"llama3.2", "gpt-4o-mini", "claude-haiku">>,
   code    |-> <<"claude-sonnet", "gpt-4o", "llama3.2">>,
   complex |-> <<"gpt-4o", "claude-sonnet", "llama3.2">>]

\* configured: the remote providers with a key.  The local one always answers.
IsAvailable(m, configured) == Registry[m] \in configured \cup {"ollama"}

\* Mutant: the first candidate, available or not.
FirstCandidate(taskType, configured) == Candidates[taskType][1]

\* The first candidate that is available; each list holds the local model.
FirstAvailable(taskType, configured) ==
  LET list == Candidates[taskType] IN
  list[CHOOSE i \in 1..3 : /\ IsAvailable(list[i], configured)
                           /\ \A k \in 1..i - 1 : ~IsAvailable(list[k], configured)]

\* A model that is named and registered is taken as it is, available or not.
Resolve(model, taskType, configured) ==
  IF model \in Model THEN model
  ELSE IF taskType \in DOMAIN Candidates THEN FirstAvailable(taskType, configured)
  ELSE DefaultModel

\* Only a request that names its model can get one that is not available.
OnlyNamedUnavailable ==
  \A model \in Model \cup {"none"}, taskType \in DOMAIN Candidates \cup {"none"},
     configured \in SUBSET (Provider \ {"ollama"}) :
    LET m == Resolve(model, taskType, configured)
    IN m \in Model /\ (m # model => IsAvailable(m, configured))

=============================================================================
