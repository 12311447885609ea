---------------------------- MODULE ScenarioNaming ----------------------------
(* ML: the name a recompute gives a cluster. recompute/representatives.py      *)
(* picks the example texts, pipeline/summarization.py asks an LLM, job.py      *)
(* falls back on a technical name. A name is its number of words and who made  *)
(* it; what the LLM answers is a number of words, or AnswerRaises.             *)
EXTENDS RecordTypes, Sequences, FiniteSetsExt

CONSTANTS AnswerRaises,     \* a call that raised or an answer without the shape
          WordLimit         \* words a validated name keeps

\* The technical name fits into the limit.
ASSUME NamingAssumption == WordLimit \in Nat /\ WordLimit >= 3

\* Summarizer.from_settings()
NewSummarizer(settings) ==
    [backend |-> IF settings.llm.provider = "ollama" THEN "ollama" ELSE "openrouter",
     key |-> settings.key,
     attempts |-> Max({0, settings.knobs.retries}) + 1,
     words |-> settings.knobs.max_words]

IsAvailable(summarizer) == summarizer.backend = "ollama" \/ summarizer.key

\* "Сценарий <task type> <index>"
TechnicalName == [by |-> "technical", words |-> 3]

\* words[:limit] of a name of n words; a negative limit cuts from the end.
Sliced(n, limit) == IF limit >= 0 THEN Min({n, limit}) ELSE Max({0, n + limit})

\* Mistaken form: an empty name is let through.
ValidatedLoosely(answer) == IF answer = AnswerRaises THEN answer ELSE Min({answer, WordLimit})

\* The validators of ScenarioSummary: an empty name is an error, a long one is cut.
Validated(answer) ==
    CASE answer = AnswerRaises -> AnswerRaises
      [] answer # AnswerRaises /\ answer = 0 -> AnswerRaises
      [] OTHER -> Min({answer, WordLimit})

LlmName(summarizer, n) ==
    [by |-> "llm", words |-> IF n > summarizer.words THEN Sliced(n, summarizer.words) ELSE n]

\* summarize_scenario(): the first usable answer, and the technical name without
\* examples, without a key or when no attempt gave one.
SummarizeScenario(summarizer, examples, answers) ==
    LET good == {i \in 1..summarizer.attempts : Validated(answers[i]) # AnswerRaises}
        first == CHOOSE i \in good : \A j \in good : i <= j
    IN  IF examples = {} \/ ~IsAvailable(summarizer) \/ good = {} THEN TechnicalName
        ELSE LlmName(summarizer, Validated(answers[first]))

\* select_representatives(): the texts of the members, or count of them.
SelectRepresentatives(texts, count) ==
    {chosen \in SUBSET texts : Cardinality(chosen) = Min({Cardinality(texts), Max({1, count})})}

\* select_representatives_via_qdrant(): among the count points nearest to the
\* centroid, those that carry this scenario or none, and a text. A point carries
\* the scenario of its row before this recompute, and a text only once a recompute
\* has rewritten it.
ViaQdrant(assigned, scenario, count) ==
    {{assigned[id].text : id \in {i \in near : /\ assigned[i].rewritten
                                              /\ assigned[i].scenario \in {None, scenario}}} :
        near \in {ids \in SUBSET DOMAIN assigned :
                     Cardinality(ids) = Min({Cardinality(DOMAIN assigned), count})}}

\* What run() shows the LLM: post_recompute passes no summarization settings, so
\* ten examples are asked for whatever the configuration says.
ExampleCount == 10
Examples(assigned, members, scenario) ==
    LET nearest == ViaQdrant(assigned, scenario, ExampleCount)
    IN  (nearest \ {{}})
        \cup (IF {} \in nearest
              THEN SelectRepresentatives({assigned[id].text : id \in members}, ExampleCount) ELSE {})
===============================================================================
