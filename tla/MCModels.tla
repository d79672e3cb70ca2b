------------------------------ MODULE MCModels ------------------------------
(* Small instances of Models for TLC. *)
EXTENDS Models

CONSTANTS k1, k2, k3

\* Groq with and without its key, OpenAI as the default, Ollama alone or with
\* DeepSeek, routing off.
SmallConf ==
    { [keys |-> {"groq", "deepseek"}, main |-> "groq", routing |-> TRUE],
      [keys |-> {"openai"}, main |-> "openai", routing |-> TRUE],
      [keys |-> {"ollama", "deepseek"}, main |-> "ollama", routing |-> TRUE],
      [keys |-> {"openai"}, main |-> "openai", routing |-> FALSE],
      [keys |-> {}, main |-> "groq", routing |-> TRUE] }

SmallBase(t) == IF t = "mistral" THEN "mistral" ELSE "llama3"

\* A third call comes only to three completions of a shared Ollama provider, with
\* no failure and one change of the server: what it takes for a first call to
\* overwrite the model of another that a third has already named.
Started == {c \in Call : ~At(c, "idle")}
ThirdCall ==
    Started = Call =>
      /\ conf.main = "ollama" /\ faults = 0 /\ changes <= 1
      /\ \A c \in Call : ~calls[c].own /\ ~calls[c].stream /\ ~At(c, "refused")

Symmetry == Permutations(Call)
=============================================================================
