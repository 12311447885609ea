------------------------------- MODULE MlConfig -------------------------------
(* ML core/config.py: the settings made of config.yaml and the environment,   *)
(* their validation, and what /health/ready (main.py) says of them.           *)
(* A yaml is [state |-> "absent", "unreadable" or "read", emb, llm, fallback,  *)
(* knobs]; emb and llm are [mode, provider] pairs. An environment has the same *)
(* fields with ml_mode and key. NotSet stands for a name that is missing (an   *)
(* empty variable counts as missing) and BadNumber for a value that does not   *)
(* parse as one. Numbers are knobs, a function from their names; thresholds    *)
(* are percentages. Addresses and model names are left out.                    *)
EXTENDS Integers, FiniteSets

CONSTANTS NotSet, BadNumber

\* The defaults of the dataclasses, which _settings_from_yaml repeats.
DefaultKnobs ==
    [threshold |-> 30, similarity |-> 85, batch |-> 200, neighbors |-> 15,
     min_cluster |-> 10, max_words |-> 4, retries |-> 2, examples |-> 10,
     direct |-> 8000, chunk |-> 512, overlap |-> 64,
     top_tasks |-> 7, top_scenarios |-> 9, trend_total |-> 20, trend_previous |-> 5,
     trend_percent |-> 15]
KnobNames == DOMAIN DefaultKnobs

\* The knobs no environment variable overrides.
YamlOnly == {"top_tasks", "top_scenarios", "trend_total", "trend_previous", "trend_percent"}

\* _as_int and _as_float: what is missing or does not parse keeps the default.
Parsed(value, default) == IF value \in {NotSet, BadNumber} THEN default ELSE value

Given(value, default) == IF value = NotSet THEN default ELSE value

OnlineWords == {"online", "cloud", "openrouter"}
OfflineWords == {"offline", "local", "ollama"}

\* EmbeddingsSettings.resolve_provider(): an explicit mock wins, then the mode.
EmbeddingProvider(e) ==
    CASE e.provider = "mock" -> "mock"
      [] e.provider # "mock" /\ e.mode \in {"mock", "test"} -> "mock"
      [] e.provider # "mock" /\ e.mode \in OnlineWords -> "openrouter"
      [] e.provider # "mock" /\ e.mode \in OfflineWords -> "ollama"
      [] OTHER -> IF e.provider \in {"ollama", "openrouter"} THEN e.provider ELSE "ollama"

\* LLMSettings.resolve_provider(): the mode wins.
LlmProvider(l) ==
    CASE l.mode \in OnlineWords -> "openrouter"
      [] l.mode \in OfflineWords -> "ollama"
      [] OTHER -> IF l.provider \in {"ollama", "openrouter"} THEN l.provider ELSE "ollama"

ModeOf(provider) ==
    CASE provider = "openrouter" -> "online"
      [] provider = "mock" -> "mock"
      [] OTHER -> "offline"

\* _embeddings_from_yaml() and _llm_from_yaml(): a missing mode is derived from the
\* provider, and the provider is overwritten by what the pair resolves to.
EmbeddingsFromYaml(e) ==
    LET provider == Given(e.provider, "ollama")
        pair == [mode |-> Given(e.mode, ModeOf(provider)), provider |-> provider]
    IN  [pair EXCEPT !.provider = EmbeddingProvider(pair)]
LlmFromYaml(l) ==
    LET provider == Given(l.provider, "ollama")
        derived  == IF provider = "openrouter" THEN "online" ELSE "offline"
        pair == [mode |-> Given(l.mode, derived), provider |-> provider]
    IN  [pair EXCEPT !.provider = LlmProvider(pair)]

DefaultSettings ==
    [emb |-> [mode |-> "offline", provider |-> "ollama"],
     llm |-> [mode |-> "offline", provider |-> "ollama"],
     fallback |-> "llm", knobs |-> DefaultKnobs, key |-> FALSE]

\* _settings_from_yaml()
SettingsFromYaml(yaml) ==
    [emb |-> EmbeddingsFromYaml(yaml.emb),
     llm |-> LlmFromYaml(yaml.llm),
     fallback |-> Given(yaml.fallback, "llm"),
     knobs |-> [k \in KnobNames |-> Parsed(yaml.knobs[k], DefaultKnobs[k])],
     key |-> FALSE]

\* Mistaken form: the mode is taken over and the provider left as it was.
LlmFromEnvUnresolved(l, env) ==
    [mode |-> Given(env.llm.mode, Given(env.ml_mode, l.mode)), provider |-> Given(env.llm.provider, l.provider)]

\* The two halves of _apply_env_overrides() that choose the providers. The own mode
\* variable beats ML_MODE; the legacy provider variable sets the mode only when
\* neither is there.
EmbeddingsFromEnv(e, env) ==
    LET named == env.emb.mode = NotSet /\ env.ml_mode = NotSet
                 /\ env.emb.provider \in {"openrouter", "mock", "ollama"}
        mode == CASE env.emb.mode # NotSet -> env.emb.mode
                  [] env.emb.mode = NotSet /\ env.ml_mode \in {"offline", "online", "mock"} -> env.ml_mode
                  [] named -> ModeOf(env.emb.provider)
                  [] OTHER -> e.mode
        pair == [mode |-> mode, provider |-> Given(env.emb.provider, e.provider)]
    IN  [pair EXCEPT !.provider = EmbeddingProvider(pair)]
LlmFromEnv(l, env) ==
    LET named == env.llm.mode = NotSet /\ env.ml_mode = NotSet /\ env.llm.provider # NotSet
        mode == CASE env.llm.mode # NotSet -> env.llm.mode
                  [] env.llm.mode = NotSet /\ env.ml_mode \in {"offline", "online"} -> env.ml_mode
                  [] named -> IF env.llm.provider = "openrouter" THEN "online" ELSE "offline"
                  [] OTHER -> l.mode
        pair == [mode |-> mode, provider |-> Given(env.llm.provider, l.provider)]
    IN  [pair EXCEPT !.provider = LlmProvider(pair)]

\* _apply_env_overrides()
ApplyEnv(s, env) ==
    [emb |-> EmbeddingsFromEnv(s.emb, env),
     llm |-> LlmFromEnv(s.llm, env),
     fallback |-> Given(env.fallback, s.fallback),
     knobs |-> [k \in KnobNames |-> IF k \in YamlOnly THEN s.knobs[k]
                                    ELSE Parsed(env.knobs[k], s.knobs[k])],
     key |-> env.key]

\* _validate(): the errors it finds replace the ones the loading left.
Problems(s) ==
    {p \in {"similarity", "threshold"} : s.knobs[p] \notin 0..100}
    \cup (IF s.fallback \in {"fail_fast", "llm", "embedding_centroid", "keyword"}
          THEN {} ELSE {"fallback"})
    \cup (IF s.emb.mode \in OnlineWords \cup OfflineWords \cup {"mock", "test", ""}
          THEN {} ELSE {"embeddings"})
    \cup (IF s.llm.mode \in OnlineWords \cup OfflineWords \cup {""} THEN {} ELSE {"llm"})
    \cup (IF s.knobs.batch < 1 THEN {"batch"} ELSE {})
    \cup {p \in {"neighbors", "min_cluster"} : s.knobs[p] < 2}

\* load_settings(): a config file that is missing or does not load leaves the
\* defaults, and the environment is applied on top of either.
LoadSettings(yaml, env) ==
    LET base == IF yaml.state = "read" THEN SettingsFromYaml(yaml) ELSE DefaultSettings
        s    == ApplyEnv(base, env)
    IN  [settings |-> s, errors |-> Problems(s)]

\* health_ready(): what it says of the settings, the classifier and Qdrant.
HealthReady(loaded, classifier, qdrantMock) ==
    LET llm == IF loaded.settings.llm.provider = "openrouter" /\ ~loaded.settings.key
               THEN "degraded" ELSE "ok"
    IN  CASE loaded.errors # {} -> "not_ready"
          [] loaded.errors = {} /\ (classifier = "degraded" \/ qdrantMock \/ llm = "degraded") -> "degraded"
          [] OTHER -> "ready"
===============================================================================
