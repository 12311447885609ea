-------------------------- MODULE InsightFlow_proofs --------------------------
(* Proofs about InsightFlow, for any deployments, uploads, answers and limits.*)
EXTENDS InsightFlow, Sums_proofs, TLAPS

------------------------------------------------------------------------------
(* The settings and what is built from them.                                   *)

\* The mode decides the provider of the LLM, which is always one of two.
LEMMA LlmProviderOf ==
    ASSUME NEW l
    PROVE  /\ LlmProvider(l) \in {"ollama", "openrouter"}
           /\ l.mode \in OnlineWords => LlmProvider(l) = "openrouter"
           /\ l.mode \in OfflineWords => LlmProvider(l) = "ollama"
BY DEF LlmProvider, OnlineWords, OfflineWords

LEMMA EmbeddingProviderOf ==
    ASSUME NEW e
    PROVE  /\ e.mode \in OnlineWords => EmbeddingProvider(e) \in {"openrouter", "mock"}
           /\ e.mode \in OfflineWords => EmbeddingProvider(e) \in {"ollama", "mock"}
BY DEF EmbeddingProvider, OnlineWords, OfflineWords

\* What the environment leaves of the LLM's settings was resolved from their mode.
LEMMA LlmResolved ==
    ASSUME NEW l, NEW env
    PROVE  LET t == LlmFromEnv(l, env) IN
           /\ t.provider \in {"ollama", "openrouter"}
           /\ t.mode \in OnlineWords => t.provider = "openrouter"
           /\ t.mode \in OfflineWords => t.provider = "ollama"
<1> DEFINE named == env.llm.mode = NotSet /\ env.ml_mode = NotSet /\ env.llm.provider # NotSet
           mode == CASE env.llm.mode # NotSet -> env.llm.mode
                     [] env.llm.mode = NotSet /\ env.ml_mode \in {"offline", "online"} -> env.ml_mode
                     [] named -> IF env.llm.provider = "openrouter" THEN "online" ELSE "offline"
                     [] OTHER -> l.mode
           pair == [mode |-> mode, provider |-> Given(env.llm.provider, l.provider)]
<1>1. LlmFromEnv(l, env) = [pair EXCEPT !.provider = LlmProvider(pair)]
  BY DEF LlmFromEnv
<1>2. pair = [mode |-> pair.mode, provider |-> pair.provider]
  OBVIOUS
<1> HIDE DEF pair
<1>3. LlmFromEnv(l, env).mode = pair.mode /\ LlmFromEnv(l, env).provider = LlmProvider(pair)
  BY <1>1, <1>2
<1>4. QED
  BY <1>3, LlmProviderOf

\* And of the embeddings' settings.
LEMMA EmbeddingsResolved ==
    ASSUME NEW e, NEW env
    PROVE  LET t == EmbeddingsFromEnv(e, env) IN
           /\ t.mode \in OnlineWords => t.provider \in {"openrouter", "mock"}
           /\ t.mode \in OfflineWords => t.provider \in {"ollama", "mock"}
<1> DEFINE named == env.emb.mode = NotSet /\ env.ml_mode = NotSet
                    /\ env.emb.provider \in {"openrouter", "mock", "ollama"}
           mode == CASE env.emb.mode # NotSet -> env.emb.mode
                     [] env.emb.mode = NotSet /\ env.ml_mode \in {"offline", "online", "mock"} -> env.ml_mode
                     [] named -> ModeOf(env.emb.provider)
                     [] OTHER -> e.mode
           pair == [mode |-> mode, provider |-> Given(env.emb.provider, e.provider)]
<1>1. EmbeddingsFromEnv(e, env) = [pair EXCEPT !.provider = EmbeddingProvider(pair)]
  BY DEF EmbeddingsFromEnv
<1>2. pair = [mode |-> pair.mode, provider |-> pair.provider]
  OBVIOUS
<1> HIDE DEF pair
<1>3. EmbeddingsFromEnv(e, env).mode = pair.mode /\ EmbeddingsFromEnv(e, env).provider = EmbeddingProvider(pair)
  BY <1>1, <1>2
<1>4. QED
  BY <1>3, EmbeddingProviderOf

\* Every knob is a number, whatever the file and the environment say.
LEMMA KnobsAreNumbers ==
    ASSUME NEW d \in Deployments, NEW k \in KnobNames
    PROVE  LoadSettings(d.yaml, d.env).settings.knobs[k] \in Int
<1> DEFINE base == IF d.yaml.state = "read" THEN SettingsFromYaml(d.yaml) ELSE DefaultSettings
<1>1. DefaultKnobs[k] \in Int
  BY DEF DefaultKnobs, KnobNames
<1>2. {d.yaml.knobs[k], d.env.knobs[k]} \subseteq Int \cup {NotSet, BadNumber}
  BY FlowAssumption
<1>3. base.knobs[k] \in Int
  BY <1>1, <1>2 DEF SettingsFromYaml, DefaultSettings, Parsed
<1>4. LoadSettings(d.yaml, d.env).settings = ApplyEnv(base, d.env)
  BY DEF LoadSettings
<1> HIDE DEF base
<1>5. QED
  BY <1>2, <1>3, <1>4 DEF ApplyEnv, Parsed

\* A deployment that reports ready works as configured.
LEMMA ReadyDeployment ==
    ASSUME NEW d \in Deployments, ml = StartMl(d)
    PROVE  ReadyIsRunnable
<1> DEFINE loaded == LoadSettings(d.yaml, d.env)
           s == loaded.settings
           mode == StartupFallback(d.file, s.fallback, s.key, Given(d.env.emb.provider, s.emb.provider))
           classifier == NewClassifier(d.file, mode, s.knobs.threshold, s.key)
<1>1. /\ ml.settings = s /\ ml.classifier = classifier /\ ml.summarizer = NewSummarizer(s)
      /\ ml.health = HealthReady(loaded, ReadinessStatus(classifier), d.qdrantMock)
  BY DEF StartMl
<1>2. \E base : s = ApplyEnv(base, d.env)
  BY DEF LoadSettings
<1>3. PICK base : s = ApplyEnv(base, d.env)
  BY <1>2
<1> HIDE DEF s, loaded, mode, classifier
<1>4. s.llm = LlmFromEnv(base.llm, d.env) /\ s.emb = EmbeddingsFromEnv(base.emb, d.env)
  BY <1>3 DEF ApplyEnv
<1>5. SUFFICES ASSUME ml.health = "ready"
               PROVE  /\ IsAvailable(ml.summarizer)
                      /\ ml.settings.llm.mode \in OnlineWords => ml.summarizer.backend = "openrouter"
                      /\ ml.settings.llm.mode \in OfflineWords => ml.summarizer.backend = "ollama"
                      /\ ml.settings.emb.mode \in OnlineWords => ml.settings.emb.provider \in {"openrouter", "mock"}
                      /\ ml.settings.emb.mode \in OfflineWords => ml.settings.emb.provider \in {"ollama", "mock"}
                      /\ \A hints \in Hints, model \in Answers, llm \in Answers :
                            LET verdict == PredictWithConfidence(ml.classifier, hints, model, llm)
                            IN  verdict # Raises /\ verdict.source # "catboost" => model = Raises
  BY DEF ReadyIsRunnable
<1>6. ReadinessStatus(classifier) # "degraded" /\ ~(s.llm.provider = "openrouter" /\ ~s.key)
  BY <1>1, <1>5 DEF HealthReady, s
<1>7. classifier.model
  BY <1>6 DEF ReadinessStatus
<1>8. /\ ml.summarizer.backend = IF s.llm.provider = "ollama" THEN "ollama" ELSE "openrouter"
      /\ ml.summarizer.key = s.key
  BY <1>1 DEF NewSummarizer
<1>9. IsAvailable(ml.summarizer)
  BY <1>4, <1>6, <1>8, LlmResolved DEF IsAvailable
<1>10. /\ s.llm.mode \in OnlineWords => ml.summarizer.backend = "openrouter"
       /\ s.llm.mode \in OfflineWords => ml.summarizer.backend = "ollama"
  BY <1>4, <1>8, LlmResolved
<1>11. /\ s.emb.mode \in OnlineWords => s.emb.provider \in {"openrouter", "mock"}
       /\ s.emb.mode \in OfflineWords => s.emb.provider \in {"ollama", "mock"}
  BY <1>4, EmbeddingsResolved
<1>12. ASSUME NEW hints \in Hints, NEW model \in Answers, NEW llm \in Answers,
              PredictWithConfidence(classifier, hints, model, llm) # Raises,
              PredictWithConfidence(classifier, hints, model, llm).source # "catboost",
              model # Raises
       PROVE  FALSE
  <2> DEFINE pred == Prediction(OrOther(model.label), model.confidence, "catboost")
  <2>1. Predict(classifier, hints, model, llm) = pred
    BY <1>7, <1>12 DEF Predict
  <2>2. PredictWithConfidence(classifier, hints, model, llm) \in {Raises, [pred EXCEPT !.type = "unknown"], pred}
    BY <2>1 DEF PredictWithConfidence
  <2>3. pred.source = "catboost" /\ [pred EXCEPT !.type = "unknown"].source = "catboost"
    BY DEF Prediction
  <2>4. QED
    BY <1>12, <2>2, <2>3
<1>13. QED
  BY <1>1, <1>9, <1>10, <1>11, <1>12

\* "ready" is only said by a service that works as configured, for any
\* configuration file, environment and model file (/health/ready).
THEOREM ReadyMeansRunnable == Spec => []ReadyIsRunnable
<1> DEFINE Started == \E d \in Deployments : ml = StartMl(d)
<1>1. Init => Started
  BY DEF Init
<1>2. Started /\ [Next]_vars => Started'
  <2>1. [Next]_vars => ml' = ml
    BY DEF Next, vars, Store, Classify, Recompute, SyncAssignments
  <2>2. QED
    BY <2>1
<1>3. Started => ReadyIsRunnable
  BY ReadyDeployment
<1> HIDE DEF Started
<1>4. QED
  BY <1>1, <1>2, <1>3, PTL DEF Spec

------------------------------------------------------------------------------
(* Naming.                                                                     *)

\* The smaller and the larger of two numbers.
LEMMA MinOfTwo ==
    ASSUME NEW a \in Int, NEW b \in Int
    PROVE  Min({a, b}) = IF a <= b THEN a ELSE b
BY DEF Min

LEMMA MaxOfTwo ==
    ASSUME NEW a \in Int, NEW b \in Int
    PROVE  Max({a, b}) = IF a >= b THEN a ELSE b
BY DEF Max

\* Whatever the LLM answers, a name has one to WordLimit words.
LEMMA NameHasWords ==
    ASSUME NEW d \in Deployments, NEW examples,
           LET s == LoadSettings(d.yaml, d.env).settings IN s.knobs.max_words >= 1,
           NEW answers \in [1..NewSummarizer(LoadSettings(d.yaml, d.env).settings).attempts -> NameAnswers]
    PROVE  SummarizeScenario(NewSummarizer(LoadSettings(d.yaml, d.env).settings), examples, answers).words \in 1..WordLimit
<1> DEFINE s == LoadSettings(d.yaml, d.env).settings
           summarizer == NewSummarizer(s)
           good == {i \in 1..summarizer.attempts : Validated(answers[i]) # AnswerRaises}
           first == CHOOSE i \in good : \A j \in good : i <= j
           given == Validated(answers[first])
<1>1. summarizer.words = s.knobs.max_words
  BY DEF NewSummarizer
<1>2. s.knobs.max_words \in Nat \ {0}
  <2>1. "max_words" \in KnobNames
    BY DEF KnobNames, DefaultKnobs
  <2>2. s.knobs["max_words"] \in Int
    BY <2>1, KnobsAreNumbers
  <2>3. QED
    BY <2>2
<1>3. TechnicalName.words \in 1..WordLimit
  BY NamingAssumption DEF TechnicalName
<1>4. ASSUME good # {}
      PROVE  LlmName(summarizer, given).words \in 1..WordLimit
  <2>1. first \in good
    <3>1. good \in SUBSET Nat
      OBVIOUS
    <3>2. \E m \in good : \A n \in good : m <= n
      BY <1>4, <3>1, LeastExists
    <3>3. QED
      BY <3>2
  <2>2. answers[first] \in Nat \cup {AnswerRaises} /\ given # AnswerRaises
    BY <2>1, FlowAssumption
  <2>3. answers[first] # AnswerRaises /\ answers[first] # 0
    BY <2>2 DEF Validated
  <2>4. given = Min({answers[first], WordLimit})
    BY <2>3 DEF Validated
  <2> HIDE DEF given, first, good
  <2>5. given \in 1..WordLimit
    <3> DEFINE a == answers[first]
    <3>1. a \in Nat \ {0}
      BY <2>2, <2>3
    <3>0. WordLimit \in Nat \ {0}
      BY NamingAssumption
    <3>2. given = Min({a, WordLimit})
      BY <2>4
    <3> HIDE DEF a
    <3>3. Min({a, WordLimit}) = IF a <= WordLimit THEN a ELSE WordLimit
      BY <3>0, <3>1, MinOfTwo
    <3>4. QED
      BY <3>0, <3>1, <3>2, <3>3
  <2> HIDE DEF summarizer, s
  <2>6. CASE given > summarizer.words
    <3>1. LlmName(summarizer, given).words = Min({given, summarizer.words})
      BY <1>1, <1>2, <2>6 DEF LlmName, Sliced
    <3>2. given \in Int /\ summarizer.words \in Nat \ {0}
      BY <1>1, <1>2, <2>5
    <3> DEFINE limit == summarizer.words
    <3>3. Min({given, limit}) = limit
      <4>1. given \in Int /\ limit \in Int /\ limit < given
        BY <2>6, <3>2
      <4> HIDE DEF limit
      <4>2. Min({given, limit}) = IF given <= limit THEN given ELSE limit
        BY <4>1, MinOfTwo
      <4>3. QED
        BY <4>1, <4>2
    <3>4. WordLimit \in Nat
      BY NamingAssumption
    <3>5. summarizer.words \in 1..WordLimit
      BY <2>5, <2>6, <3>2, <3>4
    <3>6. QED
      BY <3>1, <3>3, <3>5
  <2>7. CASE ~(given > summarizer.words)
    BY <2>5, <2>7 DEF LlmName
  <2>8. QED
    BY <2>6, <2>7
<1>5. SummarizeScenario(summarizer, examples, answers)
        = IF examples = {} \/ ~IsAvailable(summarizer) \/ good = {} THEN TechnicalName
          ELSE LlmName(summarizer, given)
  BY DEF SummarizeScenario
<1> HIDE DEF good, given, summarizer
<1>6. QED
  BY <1>3, <1>4, <1>5 DEF summarizer

\* The clusters that are published have names of a usable length.
NamesInv ==
    /\ \E d \in Deployments : ml = StartMl(d)
    /\ NamesUsable

\* No cluster is published without a name, or with one that was not cut to size,
\* whatever the LLM answers, as long as the configuration allows a word.
THEOREM NamesAlwaysUsable == Spec => []NamesUsable
<1>1. Init => NamesInv
  BY DEF Init, NamesInv, NamesUsable, Empty
<1>2. NamesInv /\ [Next]_vars => NamesInv'
  <2> SUFFICES ASSUME NamesInv, [Next]_vars
               PROVE  NamesInv'
    OBVIOUS
  <2>1. ml' = ml
    BY DEF Next, vars, Store, Classify, Recompute, SyncAssignments
  <2>2. CASE clusters' = clusters
    BY <2>1, <2>2 DEF NamesInv, NamesUsable
  <2>3. CASE Recompute
    <3>1. PICK d \in Deployments : ml = StartMl(d)
      BY DEF NamesInv
    <3>2. /\ ml.settings = LoadSettings(d.yaml, d.env).settings
          /\ ml.summarizer = NewSummarizer(LoadSettings(d.yaml, d.env).settings)
      BY <3>1 DEF StartMl
    <3>3. SUFFICES ASSUME ml.settings.knobs.max_words >= 1, NEW s \in DOMAIN clusters'
                   PROVE  clusters'[s].name.words \in 1..WordLimit
      BY <2>1, <3>1 DEF NamesInv, NamesUsable
    <3>4. PICK scenario \in Clusterings :
              LET found == {scenario[id] : id \in DOMAIN assigned} \ {None}
                  members(q) == {id \in DOMAIN assigned : scenario[id] = q}
              IN  \E name \in [found -> UNION {Names(q, members(q)) : q \in found}] :
                     /\ \A q \in found : name[q] \in Names(q, members(q))
                     /\ clusters' = Over([q \in found |-> [type |-> q[1], name |-> name[q],
                                                          size |-> Cardinality(members(q))]], clusters)
      BY <2>3 DEF Recompute
    <3> DEFINE found == {scenario[id] : id \in DOMAIN assigned} \ {None}
               members(q) == {id \in DOMAIN assigned : scenario[id] = q}
    <3>5. PICK name \in [found -> UNION {Names(q, members(q)) : q \in found}] :
             /\ \A q \in found : name[q] \in Names(q, members(q))
             /\ clusters' = Over([q \in found |-> [type |-> q[1], name |-> name[q],
                                                  size |-> Cardinality(members(q))]], clusters)
      BY <3>4
    <3>6. CASE s \in found
      <4>1. clusters'[s].name = name[s] /\ name[s] \in Names(s, members(s))
        BY <3>5, <3>6 DEF Over
      <4> HIDE DEF found, members
      <4>2. \E examples : \E answers \in [1..ml.summarizer.attempts -> NameAnswers] :
               name[s] = SummarizeScenario(ml.summarizer, examples, answers)
        BY <4>1 DEF Names
      <4>3. QED
        BY <3>2, <3>3, <4>1, <4>2, NameHasWords
    <3>7. CASE s \notin found
      <4>1. s \in DOMAIN clusters /\ clusters'[s] = clusters[s]
        BY <3>3, <3>5, <3>7 DEF Over
      <4>2. QED
        BY <3>3, <4>1 DEF NamesInv, NamesUsable
    <3>8. QED
      BY <3>6, <3>7
  <2>4. clusters' = clusters \/ Recompute
    BY DEF Next, vars, Store, Classify, SyncAssignments
  <2>5. QED
    BY <2>2, <2>3, <2>4
<1>3. NamesInv => NamesUsable
  BY DEF NamesInv
<1>4. QED
  BY <1>1, <1>2, <1>3, PTL DEF Spec

------------------------------------------------------------------------------
(* Long texts.                                                                 *)

\* Windows advance by at least one word and leave no word between them.
LEMMA StepRange ==
    ASSUME NEW size \in Nat \ {0}, NEW overlap \in Int
    PROVE  Step(size, overlap) \in 1..size
BY DEF Step, Max, Min

LEMMA TimesAtLeast ==
    ASSUME NEW n \in Nat, NEW step \in Nat \ {0}
    PROVE  n * step >= n
OBVIOUS

\* The windows of a text: the last is the first that reaches its end.
LEMMA ChunkFacts ==
    ASSUME NEW n \in Nat, NEW size \in Nat \ {0}, NEW overlap \in Int
    PROVE  \E last \in 0..n :
              /\ DOMAIN Chunks(n, size, overlap) = 1..(last + 1)
              /\ \A k \in 1..(last + 1) :
                    /\ Chunks(n, size, overlap)[k].first = (k - 1) * Step(size, overlap) + 1
                    /\ Chunks(n, size, overlap)[k].last = Min({n, (k - 1) * Step(size, overlap) + size})
              /\ last * Step(size, overlap) + size >= n
              /\ \A j \in 0..(last - 1) : j * Step(size, overlap) + size < n
<1> DEFINE step == Step(size, overlap)
           Reaches(k) == k * step + size >= n
           S == {k \in 0..n : Reaches(k)}
           last == CHOOSE k \in 0..n : /\ k * step + size >= n
                                       /\ \A j \in 0..(k - 1) : j * step + size < n
<1>1. step \in 1..size
  BY StepRange
<1>2. Chunks(n, size, overlap)
        = [k \in 1..(last + 1) |-> [first |-> (k - 1) * step + 1, last |-> Min({n, (k - 1) * step + size})]]
  BY DEF Chunks
<1> HIDE DEF step
<1>3. \E k \in 0..n : k * step + size >= n /\ \A j \in 0..(k - 1) : j * step + size < n
  <2>1. n \in S
    <3>1. n * step >= n
      BY <1>1, TimesAtLeast
    <3>2. n * step \in Int
      BY <1>1
    <3>3. QED
      BY <3>1, <3>2
  <2>2. PICK m \in S : \A k \in S : m <= k
    <3>1. S \in SUBSET Nat
      OBVIOUS
    <3> HIDE DEF S
    <3>2. QED
      BY <2>1, <3>1, LeastExists
  <2>3. ASSUME NEW j \in 0..(m - 1)
        PROVE  j * step + size < n
    <3>1. j \in 0..n /\ j \notin S
      BY <2>2
    <3>2. j * step \in Int
      BY <1>1
    <3>3. QED
      BY <3>1, <3>2
  <2>4. QED
    BY <2>2, <2>3
<1>4. last \in 0..n /\ last * step + size >= n /\ \A j \in 0..(last - 1) : j * step + size < n
  BY <1>3
<1> HIDE DEF last
<1>5. QED
  BY <1>2, <1>4 DEF step

\* Every word of a text lies in one of its windows.
LEMMA WindowsCover ==
    ASSUME NEW n \in Nat \ {0}, NEW size \in Nat \ {0}, NEW overlap \in Int, NEW w \in 1..n
    PROVE  \E k \in DOMAIN Chunks(n, size, overlap) :
              w \in Chunks(n, size, overlap)[k].first .. Chunks(n, size, overlap)[k].last
<1> DEFINE step == Step(size, overlap)
           chunks == Chunks(n, size, overlap)
<1>1. step \in 1..size
  BY StepRange
<1>2. PICK last \in 0..n :
              /\ DOMAIN chunks = 1..(last + 1)
              /\ \A k \in 1..(last + 1) : /\ chunks[k].first = (k - 1) * step + 1
                                          /\ chunks[k].last = Min({n, (k - 1) * step + size})
              /\ last * step + size >= n
              /\ \A j \in 0..(last - 1) : j * step + size < n
  BY ChunkFacts
<1> HIDE DEF step, chunks
<1> DEFINE S == {k \in 0..last : k * step + size >= w}
<1>3. \A k \in Int : k * step \in Int
  BY <1>1
<1>4. last \in S
  <2>1. last * step \in Int
    BY <1>3
  <2>2. QED
    BY <1>2, <2>1
<1>5. PICK m \in S : \A k \in S : m <= k
  <2>1. S \in SUBSET Nat
    OBVIOUS
  <2> HIDE DEF S
  <2>2. QED
    BY <1>4, <2>1, LeastExists
<1>6. m + 1 \in 1..(last + 1) /\ chunks[m + 1].first = m * step + 1 /\ chunks[m + 1].last = Min({n, m * step + size})
  <2>1. m + 1 \in 1..(last + 1) /\ (m + 1) - 1 = m
    BY <1>5
  <2>2. chunks[m + 1].first = ((m + 1) - 1) * step + 1 /\ chunks[m + 1].last = Min({n, ((m + 1) - 1) * step + size})
    BY <1>2, <2>1
  <2>3. QED
    BY <2>1, <2>2
<1>7. m * step + 1 <= w
  <2>1. CASE m = 0
    BY <1>1, <2>1
  <2>2. CASE m # 0
    <3>1. m - 1 \in 0..last /\ m - 1 \notin S /\ m \in Nat
      BY <1>5, <2>2
    <3>2. (m - 1) * step \in Int
      BY <1>3, <3>1
    <3>3. (m - 1) * step + size < w
      BY <3>1, <3>2
    <3>4. (m - 1) * step = m * step - step
      BY <1>1, <3>1
    <3>5. m * step \in Int
      BY <1>3, <3>1
    <3>6. QED
      BY <1>1, <3>3, <3>4, <3>5
  <2>3. QED
    BY <2>1, <2>2
<1>8. w <= Min({n, m * step + size})
  <2>1. m * step \in Int /\ m * step + size >= w
    BY <1>3, <1>5
  <2>2. QED
    BY <2>1, MinOfTwo
<1>9. w \in chunks[m + 1].first .. chunks[m + 1].last
  <2>1. m * step \in Int /\ Min({n, m * step + size}) \in Int
    BY <1>3, <1>5, MinOfTwo
  <2>2. QED
    BY <1>6, <1>7, <1>8, <2>1
<1>10. QED
  BY <1>2, <1>6, <1>9 DEF chunks

LEMMA MinOfThree ==
    ASSUME NEW a \in Int, NEW b \in Int, NEW c \in Int
    PROVE  Min({a, b, c}) \in Int /\ Min({a, b, c}) <= a /\ Min({a, b, c}) <= b /\ Min({a, b, c}) <= c
<1>1. \E x \in {a, b, c} : \A y \in {a, b, c} : x <= y
  <2>1. CASE a <= b /\ a <= c
    BY <2>1
  <2>2. CASE b <= a /\ b <= c
    BY <2>2
  <2>3. CASE c <= a /\ c <= b
    BY <2>3
  <2>4. QED
    BY <2>1, <2>2, <2>3
<1>2. QED
  BY <1>1 DEF Min

\* What is kept of a long text.
Kept(n, size, overlap) ==
    UNION {KeptWords(Chunks(n, size, overlap)[k]) : k \in SelectedChunks(Chunks(n, size, overlap))}

\* Its opening words, as far as the first window reaches.
LEMMA OpeningKept ==
    ASSUME NEW n \in Nat \ {0}, NEW size \in Nat \ {0}, NEW overlap \in Int
    PROVE  1..Min({n, size, ChunkWords}) \subseteq Kept(n, size, overlap)
<1> DEFINE step == Step(size, overlap)
           chunks == Chunks(n, size, overlap)
<1>1. PICK last \in 0..n :
              /\ DOMAIN chunks = 1..(last + 1)
              /\ \A k \in 1..(last + 1) : /\ chunks[k].first = (k - 1) * step + 1
                                          /\ chunks[k].last = Min({n, (k - 1) * step + size})
              /\ last * step + size >= n
              /\ \A j \in 0..(last - 1) : j * step + size < n
  BY ChunkFacts
<1>2. 1 \in SelectedChunks(chunks)
  BY <1>1, LongTextAssumption DEF SelectedChunks
<1>3. step \in Int
  BY StepRange
<1> HIDE DEF step, chunks
<1>4. chunks[1].first = 1 /\ chunks[1].last = Min({n, size})
  <2>1. 1 \in 1..(last + 1) /\ (1 - 1) * step = 0
    BY <1>3
  <2>2. chunks[1].first = (1 - 1) * step + 1 /\ chunks[1].last = Min({n, (1 - 1) * step + size})
    BY <1>1, <2>1
  <2>3. (1 - 1) * step + 1 = 1 /\ (1 - 1) * step + size = size
    BY <2>1
  <2>4. QED
    BY <2>2, <2>3
<1>5. ChunkWords \in Nat \ {0}
  BY LongTextAssumption
<1>6. KeptWords(chunks[1]) = 1..Min({Min({n, size}), 1 + ChunkWords - 1})
  BY <1>4 DEF KeptWords
<1>7. /\ Min({n, size, ChunkWords}) \in Int
      /\ Min({n, size, ChunkWords}) <= n /\ Min({n, size, ChunkWords}) <= size
      /\ Min({n, size, ChunkWords}) <= ChunkWords
  <2>1. n \in Int /\ size \in Int /\ ChunkWords \in Int
    BY <1>5
  <2>2. QED
    BY <2>1, MinOfThree, Zenon
<1>8. Min({n, size}) = IF n <= size THEN n ELSE size
  BY MinOfTwo
<1>9. Min({Min({n, size}), 1 + ChunkWords - 1}) = IF Min({n, size}) <= ChunkWords THEN Min({n, size}) ELSE ChunkWords
  BY <1>5, <1>8, MinOfTwo
<1>10. Min({n, size, ChunkWords}) <= Min({Min({n, size}), 1 + ChunkWords - 1}) /\ Min({Min({n, size}), 1 + ChunkWords - 1}) \in Int
  BY <1>5, <1>7, <1>8, <1>9
<1>11. 1..Min({n, size, ChunkWords}) \subseteq KeptWords(chunks[1])
  BY <1>6, <1>7, <1>10
<1>12. QED
  BY <1>2, <1>11 DEF Kept, chunks

\* A word of its last window.
LEMMA ClosingKept ==
    ASSUME NEW n \in Nat \ {0}, NEW size \in Nat \ {0}, NEW overlap \in Int
    PROVE  \E w \in Kept(n, size, overlap) : w > n - size
<1> DEFINE step == Step(size, overlap)
           chunks == Chunks(n, size, overlap)
<1>1. PICK last \in 0..n :
              /\ DOMAIN chunks = 1..(last + 1)
              /\ \A k \in 1..(last + 1) : /\ chunks[k].first = (k - 1) * step + 1
                                          /\ chunks[k].last = Min({n, (k - 1) * step + size})
              /\ last * step + size >= n
              /\ \A j \in 0..(last - 1) : j * step + size < n
  BY ChunkFacts
<1>2. step \in 1..size
  BY StepRange
<1> HIDE DEF step, chunks
<1>3. last + 1 \in SelectedChunks(chunks)
  <2>1. Cardinality(DOMAIN chunks) = last + 1
    BY <1>1, FS_Interval
  <2>2. QED
    BY <1>1, <2>1 DEF SelectedChunks
<1> DEFINE w == last * step + 1
<1>4. last * step \in Int
  BY <1>2
<1>5. chunks[last + 1].first = w /\ chunks[last + 1].last = Min({n, last * step + size})
  <2>1. last + 1 \in 1..(last + 1) /\ (last + 1) - 1 = last
    OBVIOUS
  <2>2. /\ chunks[last + 1].first = ((last + 1) - 1) * step + 1
        /\ chunks[last + 1].last = Min({n, ((last + 1) - 1) * step + size})
    BY <1>1, <2>1
  <2>3. QED
    BY <2>1, <2>2
<1>6. w <= n
  <2>1. CASE last = 0
    BY <1>2, <2>1
  <2>2. CASE last # 0
    <3>1. last - 1 \in 0..(last - 1)
      BY <2>2
    <3>2. (last - 1) * step + size < n
      BY <1>1, <3>1
    <3>3. (last - 1) * step = last * step - step
      BY <1>2
    <3>4. QED
      BY <1>2, <1>4, <3>2, <3>3
  <2>3. QED
    BY <2>1, <2>2
<1>7. Min({n, last * step + size}) = IF n <= last * step + size THEN n ELSE last * step + size
  BY <1>4, MinOfTwo
<1>8. ChunkWords \in Nat \ {0}
  BY LongTextAssumption
<1>9. Min({chunks[last + 1].last, w + ChunkWords - 1}) >= w
  <2>1. chunks[last + 1].last \in Int /\ chunks[last + 1].last >= w
    BY <1>2, <1>4, <1>5, <1>6, <1>7
  <2>2. w + ChunkWords - 1 \in Int /\ w + ChunkWords - 1 >= w /\ w \in Int
    BY <1>4, <1>8
  <2> HIDE DEF w
  <2>3. QED
    BY <2>1, <2>2, MinOfTwo
<1>10. w \in KeptWords(chunks[last + 1])
  <2>1. w \in Int /\ Min({chunks[last + 1].last, w + ChunkWords - 1}) \in Int
    BY <1>4, <1>5, <1>7, <1>8, MinOfTwo
  <2> HIDE DEF w
  <2>2. QED
    BY <1>5, <1>9, <2>1 DEF KeptWords
<1>11. w > n - size
  BY <1>1, <1>4
<1>12. w \in Kept(n, size, overlap)
  BY <1>3, <1>10 DEF Kept, chunks
<1>13. QED
  BY <1>11, <1>12

\* And no more words than the selected windows may contribute.
LEMMA KeptIsShort ==
    ASSUME NEW n \in Nat \ {0}, NEW size \in Nat \ {0}, NEW overlap \in Int
    PROVE  Cardinality(Kept(n, size, overlap)) <= SummaryChunks * ChunkWords
<1> DEFINE step == Step(size, overlap)
           chunks == Chunks(n, size, overlap)
           count == Cardinality(DOMAIN chunks)
           pick(j) == IF count <= SummaryChunks \/ j < SummaryChunks THEN j ELSE count
           D == (1..SummaryChunks) \X (0..(ChunkWords - 1))
           f == [x \in D |-> chunks[pick(x[1])].first + x[2]]
           T == {f[x] : x \in D}
<1>1. SummaryChunks \in Nat \ {0, 1} /\ ChunkWords \in Nat \ {0}
  BY LongTextAssumption
<1>2. IsFiniteSet(D) /\ Cardinality(D) = SummaryChunks * ChunkWords
  <2>1. 1 \in Int /\ SummaryChunks \in Int /\ 0 \in Int /\ ChunkWords - 1 \in Int
    BY <1>1
  <2>2. /\ IsFiniteSet(1..SummaryChunks)
        /\ Cardinality(1..SummaryChunks) = IF 1 > SummaryChunks THEN 0 ELSE SummaryChunks - 1 + 1
    BY <2>1, FS_Interval
  <2>3. /\ IsFiniteSet(0..(ChunkWords - 1))
        /\ Cardinality(0..(ChunkWords - 1)) = IF 0 > ChunkWords - 1 THEN 0 ELSE ChunkWords - 1 - 0 + 1
    BY <2>1, FS_Interval
  <2>4. Cardinality(1..SummaryChunks) = SummaryChunks
    BY <1>1, <2>2
  <2>5. Cardinality(0..(ChunkWords - 1)) = ChunkWords
    BY <1>1, <2>3
  <2>6. /\ IsFiniteSet((1..SummaryChunks) \X (0..(ChunkWords - 1)))
        /\ Cardinality((1..SummaryChunks) \X (0..(ChunkWords - 1)))
           = Cardinality(1..SummaryChunks) * Cardinality(0..(ChunkWords - 1))
    BY <2>2, <2>3, FS_Product
  <2>7. QED
    BY <2>4, <2>5, <2>6
<1>3. PICK last \in 0..n :
              /\ DOMAIN chunks = 1..(last + 1)
              /\ \A k \in 1..(last + 1) : /\ chunks[k].first = (k - 1) * step + 1
                                          /\ chunks[k].last = Min({n, (k - 1) * step + size})
              /\ last * step + size >= n
              /\ \A j \in 0..(last - 1) : j * step + size < n
  BY ChunkFacts
<1>10. step \in Int
  BY StepRange
<1> HIDE DEF chunks, step
<1>4. count = last + 1
  BY <1>3, FS_Interval
<1>5. IsFiniteSet(T) /\ Cardinality(T) <= SummaryChunks * ChunkWords
  <2>1. f \in Surjection(D, T)
    BY DEF Surjection
  <2> HIDE DEF f, T, D
  <2>2. QED
    BY <1>2, <2>1, FS_Surjection
<1>6. ASSUME NEW k \in SelectedChunks(chunks)
      PROVE  k \in 1..(last + 1) /\ \E j \in 1..SummaryChunks : pick(j) = k
  <2>1. CASE count <= SummaryChunks
    BY <1>1, <1>3, <1>4, <1>6, <2>1 DEF SelectedChunks
  <2>2. CASE ~(count <= SummaryChunks)
    <3>1. k \in 1..(SummaryChunks - 1) \cup {count}
      BY <1>6, <2>2 DEF SelectedChunks
    <3>2. CASE k \in 1..(SummaryChunks - 1)
      BY <1>1, <1>4, <2>2, <3>2
    <3>3. CASE k = count
      <4>1. pick(SummaryChunks) = k /\ SummaryChunks \in 1..SummaryChunks
        BY <1>1, <2>2, <3>3
      <4>2. QED
        BY <1>4, <3>3, <4>1
    <3>4. QED
      BY <3>1, <3>2, <3>3
  <2>3. QED
    BY <2>1, <2>2
<1> HIDE DEF count
<1>7. ASSUME NEW k \in SelectedChunks(chunks), NEW w \in KeptWords(chunks[k])
      PROVE  w \in T
  <2>1. PICK j \in 1..SummaryChunks : pick(j) = k
    BY <1>6
  <2>2. chunks[k].first \in Int /\ chunks[k].last \in Int
    <3>1. k \in 1..(last + 1)
      BY <1>6
    <3>2. (k - 1) * step \in Int
      BY <3>1, <1>10
    <3>3. chunks[k].first = (k - 1) * step + 1 /\ chunks[k].last = Min({n, (k - 1) * step + size})
      BY <1>3, <3>1
    <3>4. Min({n, (k - 1) * step + size}) \in Int
      BY <3>2, MinOfTwo
    <3>5. QED
      BY <3>2, <3>3, <3>4
  <2>3. /\ Min({chunks[k].last, chunks[k].first + ChunkWords - 1}) <= chunks[k].first + ChunkWords - 1
        /\ Min({chunks[k].last, chunks[k].first + ChunkWords - 1}) \in Int
    BY <1>1, <2>2, MinOfTwo
  <2>4. w \in Int /\ chunks[k].first <= w /\ w <= chunks[k].first + ChunkWords - 1
    BY <2>2, <2>3, <1>1 DEF KeptWords
  <2>5. w - chunks[k].first \in 0..(ChunkWords - 1)
    BY <1>1, <2>2, <2>4
  <2>6. <<j, w - chunks[k].first>> \in D
    BY <2>1, <2>5
  <2>7. f[<<j, w - chunks[k].first>>] = chunks[k].first + (w - chunks[k].first)
    BY <2>1, <2>6
  <2>8. chunks[k].first + (w - chunks[k].first) = w
    BY <2>2, <2>4
  <2> HIDE DEF f, D
  <2>9. QED
    BY <2>6, <2>7, <2>8
<1>8. Kept(n, size, overlap) \in SUBSET T
  BY <1>7 DEF Kept, chunks
<1> HIDE DEF T
<1>9. QED
  <2>1. Cardinality(Kept(n, size, overlap)) <= Cardinality(T)
    BY <1>5, <1>8, FS_Subset
  <2>2. Cardinality(Kept(n, size, overlap)) \in Nat /\ Cardinality(T) \in Nat
    BY <1>5, <1>8, FS_Subset, FS_CardinalityType
  <2>3. SummaryChunks * ChunkWords \in Nat
    BY <1>1
  <2>4. QED
    BY <1>5, <2>1, <2>2, <2>3

------------------------------------------------------------------------------
(* What is stored, sent, classified and mirrored.                              *)

\* A stored row: some text, a status that is a spelling of a word, an instant, and
\* numbers under the counts.
Stored(row) ==
    /\ row.text \in Nat \ {0} /\ IsWord(row.status) /\ row.ts \in Stamps
    /\ row.tokens \in Int \cup {None} /\ row.manual \in Int \cup {None}

\* What of a raw record becomes these five.
Readable(raw) ==
    /\ raw.text \in Nat \ {0} \/ raw.text = None
    /\ raw.ts \in {None, Garbled} \/ raw.ts \in Stamps
    /\ DOMAIN raw.status = 1..2
    /\ \A i \in 1..2 : raw.status[i] = None \/ IsWord(raw.status[i])
    /\ raw.tokens \in [1..3 -> Int \cup {None, Garbled}]
    /\ raw.manual \in [1..4 -> Int \cup {None, Garbled}]

\* A count is the first of its sources that is a number, or missing.
LEMMA TokensAreNumbers ==
    ASSUME NEW raw, Readable(raw)
    PROVE  Tokens(raw) \in Int \cup {None}
<1> DEFINE at == {i \in DOMAIN raw.tokens : raw.tokens[i] \notin {None, Garbled}}
           first == CHOOSE i \in at : \A j \in at : i <= j
<1>1. Tokens(raw) = IF at = {} THEN None ELSE raw.tokens[first]
  BY DEF Tokens, FirstOf
<1>2. \A i \in at : i \in Nat /\ raw.tokens[i] \in Int
  BY DEF Readable
<1>3. ASSUME at # {} PROVE first \in at
  <2>1. at \in SUBSET Nat
    BY <1>2
  <2>2. \E m \in at : \A n \in at : m <= n
    <3> HIDE DEF at
    <3>1. QED
      BY <1>3, <2>1, LeastExists
  <2>3. QED
    BY <2>2
<1> HIDE DEF at, first
<1>4. QED
  BY <1>1, <1>2, <1>3

\* And so is a manual time: a garbled one counts as missing.
LEMMA ManualIsNumber ==
    ASSUME NEW raw, Readable(raw)
    PROVE  ManualTime(raw) \in Int \cup {None}
<1> DEFINE at == {i \in DOMAIN raw.manual : raw.manual[i] \notin {None, 0}}
           first == CHOOSE i \in at : \A j \in at : i <= j
           truthy == IF at = {} THEN None ELSE raw.manual[first]
<1>1. ManualTime(raw) = IF truthy = None THEN raw.manual[4] ELSE AsNumber(truthy)
  BY DEF ManualTime, FirstOf
<1>2. \A i \in at : i \in Nat /\ raw.manual[i] \in Int \cup {Garbled} /\ raw.manual[i] # None
  BY DEF Readable
<1>3. ASSUME at # {} PROVE first \in at
  <2>1. at \in SUBSET Nat
    BY <1>2
  <2>2. \E m \in at : \A n \in at : m <= n
    <3> HIDE DEF at
    <3>1. QED
      BY <1>3, <2>1, LeastExists
  <2>3. QED
    BY <2>2
<1>4. at = {} => raw.manual[4] \in {None, 0}
  BY DEF Readable
<1> HIDE DEF at, first
<1>5. CASE at = {}
  BY <1>1, <1>4, <1>5
<1>6. CASE at # {}
  BY <1>1, <1>2, <1>3, <1>6 DEF AsNumber
<1>7. QED
  BY <1>5, <1>6

\* The first status a record gives, or plain success when it gives none.
LEMMA StatusIsWord ==
    ASSUME NEW raw, Readable(raw)
    PROVE  IsWord(StoredStatus(raw))
<1> DEFINE at == {i \in DOMAIN raw.status : raw.status[i] # None}
           first == CHOOSE i \in at : \A j \in at : i <= j
<1>1. RawStatus(raw) = IF at = {} THEN None ELSE raw.status[first]
  BY DEF RawStatus, FirstOf
<1>2. IsWord(PlainSuccess)
  BY DEF PlainSuccess, IsWord, Forms
<1>3. CASE at = {}
  BY <1>1, <1>2, <1>3 DEF StoredStatus
<1>4. CASE at # {}
  <2>1. \A i \in at : i \in 1..2 /\ IsWord(raw.status[i])
    BY DEF Readable
  <2>2. \E m \in at : \A n \in at : m <= n
    <3>1. at \in SUBSET Nat
      BY <2>1
    <3> HIDE DEF at
    <3>2. QED
      BY <1>4, <3>1, LeastExists
  <2>3. first \in at
    BY <2>2
  <2> HIDE DEF first, at
  <2>4. IsWord(raw.status[first])
    BY <2>1, <2>3
  <2>5. QED
    BY <1>1, <1>2, <1>4, <2>4 DEF StoredStatus
<1>5. QED
  BY <1>3, <1>4

\* A time that is missing or does not parse is replaced by an instant.
LEMMA TimestampIsInstant ==
    ASSUME NEW raw, Readable(raw), NEW index \in Nat, NEW total \in Nat
    PROVE  Timestamp(raw, index, total) \in Stamps
<1>1. ASSUME NEW at \in Int
      PROVE  Utc(at) \in Stamps
  BY DEF Utc, Stamps
<1>2. Now \in Int /\ Span \in Int
  BY NormalizerAssumption
<1>3. SynthesizedTime(index, total) \in Stamps
  <2>1. CASE ~Synthesize \/ total <= 0
    BY <1>1, <1>2, <2>1 DEF SynthesizedTime
  <2>2. CASE ~(~Synthesize \/ total <= 0)
    <3>1. Span * index \in Int
      BY <1>2
    <3>2. (Span * index) \div total \in Int
      BY <2>2, <3>1
    <3> DEFINE part == (Span * index) \div total
    <3>3. part \in Int
      BY <3>2
    <3>4. SynthesizedTime(index, total) = Utc(Now - Span + part)
      BY <2>2 DEF SynthesizedTime
    <3> HIDE DEF part
    <3>5. Now - Span + part \in Int
      BY <1>2, <3>3
    <3>6. QED
      BY <1>1, <3>4, <3>5
  <2>3. QED
    BY <2>1, <2>2
<1>4. QED
  BY <1>3 DEF Timestamp, Readable

\* Every record of a batch that is stored is complete, and is sent as it is stored.
LEMMA NormalizeStores ==
    ASSUME NEW upload \in Uploads,
           NEW i \in DOMAIN Normalize(ParseRaw(upload.raws, upload.format), upload.source, upload.source).rows
    PROVE  LET made == Normalize(ParseRaw(upload.raws, upload.format), upload.source, upload.source) IN
           /\ Stored(made.rows[i])
           /\ made.logs[i] = LogRecord(made.rows[i], Lower(made.rows[i].status))
<1> DEFINE raws == ParseRaw(upload.raws, upload.format)
           source == upload.source
           made == Normalize(raws, source, source)
           total == Len(raws)
           kept == {j \in 1..total : ~Rejected(raws[j])}
           row(j) == DatasetRow(raws[j], j - 1, total, source, source)
<1>1. /\ made.rows = [j \in kept |-> row(j)]
      /\ made.logs = [j \in kept |-> LogRecord(row(j), Lower(StoredStatus(raws[j])))]
  BY DEF Normalize
<1>2. DOMAIN upload.raws = 1..Len(upload.raws) /\ Len(upload.raws) \in Nat
  BY FlowAssumption
<1>3. total = Len(upload.raws)
  <2>1. CASE upload.format = "csv"
    <3>1. raws = [j \in 1..Len(upload.raws) |-> FromCsv(upload.raws[j])]
      BY <1>2, <2>1 DEF ParseRaw
    <3>2. QED
      BY <1>2, <3>1
  <2>2. CASE upload.format # "csv"
    BY <2>2 DEF ParseRaw
  <2>3. QED
    BY <2>1, <2>2
<1>4. i \in 1..total /\ ~Rejected(raws[i]) /\ i \in DOMAIN upload.raws /\ total \in Nat
  <2>1. i \in kept
    BY <1>1
  <2>2. QED
    BY <1>2, <1>3, <2>1
<1>5. Readable(raws[i])
  <2>1. WellFormed(upload.raws[i])
    BY <1>4, FlowAssumption
  <2>2. CASE upload.format = "csv"
    <3> DEFINE raw == upload.raws[i]
    <3>1. raws[i] = FromCsv(raw)
      BY <1>4, <2>2 DEF ParseRaw
    <3>2. /\ {"text", "ts", "status", "tokens", "manual"} \subseteq DOMAIN raw
          /\ Readable(raw)
      BY <2>1 DEF WellFormed, Readable
    <3> DEFINE N == Int \cup {None, Garbled}
    <3>5. \A x \in N : AsNumber(x) \in N
      BY DEF AsNumber
    <3>6. raw.tokens[1] \in N /\ raw.tokens[2] \in N /\ \A k \in 1..4 : raw.manual[k] \in N
      BY <3>2 DEF Readable
    <3> HIDE DEF raw
    <3>3. FromCsv(raw).text = raw.text /\ FromCsv(raw).ts = raw.ts /\ FromCsv(raw).status = raw.status
      BY <3>2 DEF FromCsv
    <3>7. /\ FromCsv(raw).tokens = <<AsNumber(raw.tokens[1]), AsNumber(raw.tokens[2]), None>>
          /\ FromCsv(raw).manual = [k \in 1..4 |-> IF k < 4 THEN AsNumber(raw.manual[k]) ELSE raw.manual[k]]
      BY <3>2 DEF FromCsv
    <3>8. FromCsv(raw).tokens \in [1..3 -> N]
      <4> DEFINE a == AsNumber(raw.tokens[1])
                 b == AsNumber(raw.tokens[2])
      <4>1. a \in N /\ b \in N /\ None \in N
        BY <3>5, <3>6
      <4>2. FromCsv(raw).tokens = <<a, b, None>>
        BY <3>7
      <4> HIDE DEF a, b, N
      <4>3. <<a, b, None>> \in [1..3 -> N]
        BY <4>1
      <4>4. QED
        BY <4>2, <4>3
    <3>9. FromCsv(raw).manual \in [1..4 -> N]
      <4> HIDE DEF N
      <4>1. QED
        BY <3>5, <3>6, <3>7
    <3>4. QED
      BY <3>1, <3>2, <3>3, <3>8, <3>9 DEF Readable
  <2>3. CASE upload.format # "csv"
    BY <2>1, <2>3 DEF ParseRaw, WellFormed, Readable
  <2>4. QED
    BY <2>2, <2>3
<1> HIDE DEF raws, total
<1>6. /\ row(i).text = raws[i].text /\ row(i).status = StoredStatus(raws[i])
      /\ row(i).ts = Timestamp(raws[i], i - 1, total)
      /\ row(i).tokens = Tokens(raws[i]) /\ row(i).manual = ManualTime(raws[i])
  BY DEF DatasetRow
<1>14. row(i).tokens \in Int \cup {None} /\ row(i).manual \in Int \cup {None}
  BY <1>5, <1>6, TokensAreNumbers, ManualIsNumber
<1>7. row(i).text \in Nat \ {0}
  BY <1>4, <1>5, <1>6 DEF Rejected, Readable
<1>8. row(i).ts \in Stamps
  <2>1. i - 1 \in Nat /\ total \in Nat
    BY <1>4
  <2>2. QED
    BY <1>5, <1>6, <2>1, TimestampIsInstant
<1>9. IsWord(row(i).status)
  BY <1>5, <1>6, StatusIsWord
<1>10. i \in kept
  BY <1>4
<1> HIDE DEF kept
<1>11. /\ made.rows[i] = row(i)
       /\ made.logs[i] = LogRecord(row(i), Lower(StoredStatus(raws[i])))
  BY <1>1, <1>10
<1> HIDE DEF made, row
<1>12. Stored(made.rows[i]) /\ made.logs[i] = LogRecord(made.rows[i], Lower(made.rows[i].status))
  BY <1>6, <1>7, <1>8, <1>9, <1>11, <1>14 DEF Stored
<1>13. QED
  BY <1>12 DEF made, raws

\* An error that ML is told of is never one of the successes ROI pays for.
LEMMA ErrorIsNoSuccess ==
    ASSUME NEW row, Stored(row), NEW log,
           \/ log = LogRecord(row, Lower(row.status))
           \/ log = RebuiltRecord(row)
    PROVE  /\ FailureSignals(log) # {} => ~Succeeded(row)
           /\ log.source = row.source /\ log.ts \in Stamps /\ log.ts.at = row.ts.at
<1>1. PICK w \in {row.status, Lower(row.status)} :
         /\ log.status = StatusMap(w).status /\ log.code = StatusMap(w).code
         /\ log.feedback = None /\ log.retries = None
  BY DEF LogRecord, RebuiltRecord
<1>2. w.word = row.status.word
  BY DEF Lower, Stored, IsWord
<1>3. FailureSignals(log) # {} => w.word \in {"error_tool", "hallucination_loop"}
  BY <1>1 DEF FailureSignals, StatusMap, FailureStatuses
<1>4. FailureSignals(log) # {} => ~Succeeded(row)
  BY <1>2, <1>3 DEF Succeeded, SuccessWords
<1>5. log.source = row.source
  BY DEF LogRecord, RebuiltRecord
<1>6. log.ts \in Stamps /\ log.ts.at = row.ts.at
  <2>1. log.ts = row.ts \/ log.ts = Utc(row.ts.at)
    BY DEF LogRecord, RebuiltRecord
  <2>2. row.ts.at \in Int
    BY DEF Stored, Stamps
  <2>3. Utc(row.ts.at) \in Stamps /\ Utc(row.ts.at).at = row.ts.at
    BY <2>2 DEF Utc, Stamps
  <2>4. QED
    BY <2>1, <2>3 DEF Stored
<1>7. QED
  BY <1>4, <1>5, <1>6

\* Whatever the model or an LLM answers, a type the taxonomy knows is stored.
LEMMA TypeIsKnown ==
    ASSUME NEW clf, NEW hints, NEW model, NEW llm,
           PredictWithConfidence(clf, hints, model, llm) # Raises
    PROVE  PredictWithConfidence(clf, hints, model, llm).type \in KnownTypes
<1> DEFINE pred == Predict(clf, hints, model, llm)
           Typed(p) == p = Raises \/ \E t \in CoreTypes : \E c, s : p = Prediction(t, c, s)
<1>1. \A label : OrOther(label) \in CoreTypes
  BY DEF OrOther, NormalizeLabel, CoreTypes
<1>2. "other" \in CoreTypes
  BY DEF CoreTypes
<1>3. Typed(LlmFallback(clf, llm))
  BY <1>1, <1>2 DEF LlmFallback
<1>4. Typed(CentroidFallback)
  BY <1>2 DEF CentroidFallback
<1>5. Typed(KeywordHeuristic(hints))
  <2> DEFINE hit == {i \in DOMAIN KeywordOrder : KeywordOrder[i] \in hints}
             first == CHOOSE i \in hit : \A j \in hit : i <= j
  <2>1. DOMAIN KeywordOrder = 1..6 /\ \A i \in 1..6 : KeywordOrder[i] \in CoreTypes
    BY DEF KeywordOrder, CoreTypes
  <2>2. CASE hit = {}
    BY <1>2, <2>2 DEF KeywordHeuristic
  <2>3. CASE hit # {}
    <3>1. \E m \in hit : \A n \in hit : m <= n
      <4>1. hit \in SUBSET Nat
        BY <2>1
      <4> HIDE DEF hit
      <4>2. QED
        BY <2>3, <4>1, LeastExists
    <3>2. first \in hit
      BY <3>1
    <3>3. KeywordOrder[first] \in CoreTypes
      BY <2>1, <3>2
    <3>4. KeywordHeuristic(hints) = Prediction(KeywordOrder[first], IF first <= 2 THEN 85 ELSE 80, "keyword")
      BY <2>3 DEF KeywordHeuristic
    <3> HIDE DEF first
    <3>5. QED
      BY <3>3, <3>4
  <2>4. QED
    BY <2>2, <2>3
<1>6. Typed(pred)
  <2>1. CASE clf.model /\ model # Raises
    BY <1>1, <2>1 DEF Predict
  <2>2. CASE ~(clf.model /\ model # Raises)
    <3>1. pred = ApplyFallback(clf, hints, llm)
      BY <2>2 DEF Predict
    <3>2. ApplyFallback(clf, hints, llm) \in
             {Raises, LlmFallback(clf, llm), CentroidFallback, KeywordHeuristic(hints)}
      BY DEF ApplyFallback
    <3> HIDE DEF pred, Typed
    <3>3. Typed(Raises)
      BY DEF Typed
    <3>4. QED
      BY <1>3, <1>4, <1>5, <3>1, <3>2, <3>3
  <2>3. QED
    BY <2>1, <2>2
<1> HIDE DEF pred
<1>7. PredictWithConfidence(clf, hints, model, llm) \in {Raises, [pred EXCEPT !.type = "unknown"], pred} /\ pred # Raises
  BY DEF PredictWithConfidence, pred
<1>8. PICK t \in CoreTypes : \E c, s : pred = Prediction(t, c, s)
  BY <1>6, <1>7
<1>9. pred.type \in KnownTypes /\ [pred EXCEPT !.type = "unknown"].type \in KnownTypes
  BY <1>8 DEF Prediction, KnownTypes, ServiceTypes
<1>10. QED
  BY <1>7, <1>9

------------------------------------------------------------------------------
(* What every step keeps of a record, in the four places it is kept.           *)

\* An assignment repeats what its row says: source, instant and success; its type is
\* known, and it has a scenario unless it is an outlier.
Faithful(a, row) ==
    /\ a.type \in KnownTypes
    /\ {"scenario", "outlier"} \subseteq DOMAIN a
    /\ a.outlier <=> a.scenario = None
    /\ a.signals # {} => ~Succeeded(row)
    /\ a.source = row.source
    /\ a.ts \in Stamps /\ a.ts.at = row.ts.at

Mirrored(m, row) == m.type \in KnownTypes /\ (m.failure = TRUE => ~Succeeded(row))

Domains ==
    /\ DOMAIN logs = DOMAIN rows
    /\ DOMAIN assigned \subseteq DOMAIN rows
    /\ DOMAIN mirror \subseteq DOMAIN assigned
    /\ synced \in BOOLEAN
RowsInv == \A id \in DOMAIN rows : /\ Stored(rows[id])
                                   /\ logs[id] = LogRecord(rows[id], Lower(rows[id].status))
AssignedInv == \A id \in DOMAIN assigned : Faithful(assigned[id], rows[id])
MirrorInv == \A id \in DOMAIN mirror : Mirrored(mirror[id], rows[id])
FlowInv ==
    /\ \E d \in Deployments : ml = StartMl(d)
    /\ Domains
    /\ RowsInv
    /\ AssignedInv
    /\ MirrorInv

LEMMA InitFlow == Init => FlowInv
BY DEF Init, FlowInv, Domains, RowsInv, AssignedInv, MirrorInv, Empty

LEMMA StoreKeeps ==
    ASSUME FlowInv, NEW upload \in Uploads, Store(upload)
    PROVE  FlowInv'
<1> DEFINE made == Normalize(ParseRaw(upload.raws, upload.format), upload.source, upload.source)
           newRows == [id \in Ids(made) |-> made.rows[Position(made, id)]]
           newLogs == [id \in Ids(made) |-> made.logs[Position(made, id)]]
<1>1. /\ Ids(made) \cap DOMAIN rows = {}
      /\ rows' = Over(newRows, rows) /\ logs' = Over(newLogs, logs)
      /\ UNCHANGED <<ml, assigned, clusters, mirror, synced>>
  BY DEF Store
<1>2. \A i \in DOMAIN made.rows : /\ Stored(made.rows[i])
                                  /\ made.logs[i] = LogRecord(made.rows[i], Lower(made.rows[i].status))
  BY NormalizeStores
<1>3. \A id \in Ids(made) : Position(made, id) \in DOMAIN made.rows
  <2> HIDE DEF made
  <2>1. QED
    BY DEF Ids, Position
<1>4. /\ DOMAIN rows' = Ids(made) \cup DOMAIN rows /\ DOMAIN logs' = Ids(made) \cup DOMAIN logs
      /\ \A id \in Ids(made) : rows'[id] = made.rows[Position(made, id)] /\ logs'[id] = made.logs[Position(made, id)]
      /\ \A id \in DOMAIN rows : rows'[id] = rows[id]
      /\ \A id \in DOMAIN logs : id \notin Ids(made) => logs'[id] = logs[id]
  <2> HIDE DEF made
  <2>1. QED
    BY <1>1 DEF Over
<1> HIDE DEF made, newRows, newLogs
<1>5. Domains'
  BY <1>1, <1>4 DEF FlowInv, Domains
<1>6. RowsInv'
  <2> SUFFICES ASSUME NEW id \in DOMAIN rows'
               PROVE  Stored(rows'[id]) /\ logs'[id] = LogRecord(rows'[id], Lower(rows'[id].status))
    BY DEF RowsInv
  <2>1. CASE id \in Ids(made)
    BY <1>2, <1>3, <1>4, <2>1
  <2>2. CASE id \notin Ids(made)
    <3>1. id \in DOMAIN rows /\ id \in DOMAIN logs
      BY <1>4, <2>2 DEF FlowInv, Domains
    <3>2. rows'[id] = rows[id] /\ logs'[id] = logs[id]
      BY <1>4, <2>2, <3>1
    <3>3. QED
      BY <3>1, <3>2 DEF FlowInv, RowsInv
  <2>3. QED
    BY <2>1, <2>2
<1>7. AssignedInv' /\ MirrorInv'
  BY <1>1, <1>4 DEF FlowInv, Domains, AssignedInv, MirrorInv
<1>8. QED
  BY <1>1, <1>5, <1>6, <1>7 DEF FlowInv

LEMMA ClassifyKeeps ==
    ASSUME FlowInv, NEW id \in DOMAIN rows, Classify(id)
    PROVE  FlowInv'
<1>1. PICK log \in Sent(id), hints \in Hints, model \in Answers, llm \in Answers :
         LET verdict == PredictWithConfidence(ml.classifier, hints, model, llm)
         IN  /\ verdict # Raises
             /\ assigned' = Over([i \in {id} |->
                                   [type |-> verdict.type, scenario |-> <<verdict.type, 0>>,
                                    outlier |-> FALSE, signals |-> FailureSignals(log),
                                    source |-> log.source, ts |-> log.ts, text |-> log.text,
                                    rewritten |-> FALSE]], assigned)
  BY DEF Classify
<1> DEFINE verdict == PredictWithConfidence(ml.classifier, hints, model, llm)
           new == [type |-> verdict.type, scenario |-> <<verdict.type, 0>>,
                   outlier |-> FALSE, signals |-> FailureSignals(log),
                   source |-> log.source, ts |-> log.ts, text |-> log.text,
                   rewritten |-> FALSE]
<1>2. verdict # Raises /\ assigned' = Over([i \in {id} |-> new], assigned)
  BY <1>1
<1>3. synced' = FALSE /\ UNCHANGED <<ml, rows, logs, clusters, mirror>>
  BY DEF Classify
<1>4. verdict.type \in KnownTypes
  BY <1>2, TypeIsKnown
<1>5. Stored(rows[id]) /\ (log = LogRecord(rows[id], Lower(rows[id].status)) \/ log = RebuiltRecord(rows[id]))
  BY <1>1 DEF FlowInv, RowsInv, Sent
<1>6. /\ FailureSignals(log) # {} => ~Succeeded(rows[id])
      /\ log.source = rows[id].source /\ log.ts \in Stamps /\ log.ts.at = rows[id].ts.at
  BY <1>5, ErrorIsNoSuccess
<1>7. <<verdict.type, 0>> # None
  BY <1>4, FlowAssumption DEF KnownTypes
<1> HIDE DEF verdict
<1>8. Faithful(new, rows[id])
  BY <1>4, <1>6, <1>7 DEF Faithful
<1> HIDE DEF new
<1>9. /\ DOMAIN assigned' = {id} \cup DOMAIN assigned
      /\ assigned'[id] = new
      /\ \A i \in DOMAIN assigned : i # id => assigned'[i] = assigned[i]
  BY <1>2 DEF Over
<1>10. Domains'
  BY <1>3, <1>9 DEF FlowInv, Domains
<1>11. AssignedInv'
  BY <1>3, <1>8, <1>9 DEF FlowInv, AssignedInv
<1>12. RowsInv' /\ MirrorInv'
  BY <1>3 DEF FlowInv, RowsInv, MirrorInv
<1>13. QED
  BY <1>3, <1>10, <1>11, <1>12 DEF FlowInv

\* An assignment after a recompute put it into a scenario.
Placed(a, s) == [a EXCEPT !.scenario = s, !.outlier = (s = None), !.rewritten = TRUE]

LEMMA RecomputeKeeps ==
    ASSUME FlowInv, Recompute
    PROVE  FlowInv'
<1>1. PICK scenario \in Clusterings :
         assigned' = [id \in DOMAIN assigned |->
                         [assigned[id] EXCEPT !.scenario = scenario[id],
                                              !.outlier = (scenario[id] = None),
                                              !.rewritten = TRUE]]
  BY DEF Recompute
<1>2. synced' = FALSE /\ UNCHANGED <<ml, rows, logs, mirror>>
  BY DEF Recompute
<1>3. ASSUME NEW a, NEW row, NEW s, Faithful(a, row)
      PROVE  Faithful(Placed(a, s), row)
  <2> DEFINE b == Placed(a, s)
  <2>1. {"scenario", "outlier"} \subseteq DOMAIN a
    BY <1>3 DEF Faithful
  <2>2. DOMAIN b = DOMAIN a /\ b.scenario = s /\ b.outlier = (s = None)
    BY <2>1 DEF Placed
  <2>3. b.type = a.type /\ b.signals = a.signals /\ b.source = a.source /\ b.ts = a.ts
    BY DEF Placed
  <2> HIDE DEF b
  <2>4. b.outlier <=> b.scenario = None
    BY <2>2
  <2>5. Faithful(b, row)
    BY <1>3, <2>2, <2>3, <2>4 DEF Faithful
  <2>6. QED
    BY <2>5 DEF b
<1>4. DOMAIN assigned' = DOMAIN assigned
  BY <1>1
<1>5. AssignedInv'
  <2> SUFFICES ASSUME NEW id \in DOMAIN assigned
               PROVE  Faithful(assigned'[id], rows[id])
    BY <1>2, <1>4 DEF AssignedInv
  <2>1. Faithful(assigned[id], rows[id])
    BY DEF FlowInv, AssignedInv
  <2>2. assigned'[id] = Placed(assigned[id], scenario[id])
    BY <1>1 DEF Placed
  <2>3. Faithful(Placed(assigned[id], scenario[id]), rows[id])
    BY <1>3, <2>1
  <2>4. QED
    BY <2>2, <2>3
<1>6. Domains'
  BY <1>2, <1>4 DEF FlowInv, Domains
<1>7. RowsInv' /\ MirrorInv'
  BY <1>2 DEF FlowInv, RowsInv, MirrorInv
<1>8. QED
  BY <1>2, <1>5, <1>6, <1>7 DEF FlowInv

LEMMA SyncKeeps ==
    ASSUME FlowInv, SyncAssignments
    PROVE  FlowInv'
<1>1. mirror' = Over(Fetched, mirror) /\ synced' = TRUE /\ UNCHANGED <<ml, rows, logs, assigned, clusters>>
  BY DEF SyncAssignments
<1>2. DOMAIN Fetched = DOMAIN assigned
  BY DEF Fetched
<1>3. \A id \in DOMAIN assigned : Mirrored(Fetched[id], rows[id])
  <2> SUFFICES ASSUME NEW id \in DOMAIN assigned
               PROVE  Mirrored(Fetched[id], rows[id])
    OBVIOUS
  <2>1. Fetched[id].type = assigned[id].type /\ Fetched[id].failure = (assigned[id].signals # {})
    BY DEF Fetched, MirrorRow
  <2>2. Faithful(assigned[id], rows[id])
    BY DEF FlowInv, AssignedInv
  <2>3. QED
    BY <2>1, <2>2 DEF Faithful, Mirrored
<1>4. /\ DOMAIN mirror' = DOMAIN assigned
      /\ \A id \in DOMAIN assigned : mirror'[id] = Fetched[id]
  BY <1>1, <1>2 DEF Over, FlowInv, Domains
<1>5. Domains'
  BY <1>1, <1>4 DEF FlowInv, Domains
<1>6. MirrorInv'
  BY <1>1, <1>3, <1>4 DEF MirrorInv
<1>7. RowsInv' /\ AssignedInv'
  BY <1>1 DEF FlowInv, RowsInv, AssignedInv
<1>8. QED
  BY <1>1, <1>5, <1>6, <1>7 DEF FlowInv

\* What is stored, assigned and mirrored of a record keeps its shape and its story.
THEOREM FlowInvariant == Spec => []FlowInv
<1>1. FlowInv /\ [Next]_vars => FlowInv'
  <2> SUFFICES ASSUME FlowInv, [Next]_vars
               PROVE  FlowInv'
    OBVIOUS
  <2>1. ASSUME NEW upload \in Uploads, Store(upload)
        PROVE  FlowInv'
    BY <2>1, StoreKeeps
  <2>2. ASSUME NEW id \in DOMAIN rows, Classify(id)
        PROVE  FlowInv'
    BY <2>2, ClassifyKeeps
  <2>3. CASE Recompute
    BY <2>3, RecomputeKeeps
  <2>4. CASE SyncAssignments
    BY <2>4, SyncKeeps
  <2>5. CASE UNCHANGED vars
    BY <2>5 DEF vars, FlowInv, Domains, RowsInv, AssignedInv, MirrorInv
  <2>6. QED
    BY <2>1, <2>2, <2>3, <2>4, <2>5 DEF Next
<1>2. QED
  BY <1>1, InitFlow, PTL DEF Spec

\* The tables refer to each other's rows only, and no type outside the taxonomy is
\* stored or mirrored, whatever a model, an LLM or a fallback answers.
THEOREM TypeCorrect == Spec => []TypeOK
<1>1. FlowInv => TypeOK
  BY DEF FlowInv, Domains, AssignedInv, MirrorInv, Faithful, Mirrored, TypeOK
<1>2. QED
  BY <1>1, FlowInvariant, PTL

\* No screen shows as a failure what ROI pays for, in whatever spelling the status
\* came and whether or not its assignment has been mirrored yet.
THEOREM FailuresNeverDisagree == Spec => []FailuresAgree
<1>1. FlowInv => FailuresAgree
  <2> SUFFICES ASSUME FlowInv, NEW id \in DOMAIN rows
               PROVE  /\ Succeeded(rows[id]) => ~LogFailure(rows, mirror, id)
                      /\ Succeeded(rows[id]) => ~ShownFailure(rows, mirror, id, UserFailureWords)
                      /\ LogFailure(rows, mirror, id) => ShownFailure(rows, mirror, id, UserFailureWords)
                      /\ id \in DOMAIN assigned /\ assigned[id].signals # {} => ~Succeeded(rows[id])
    BY DEF FailuresAgree
  <2>1. id \in DOMAIN assigned /\ assigned[id].signals # {} => ~Succeeded(rows[id])
    BY DEF FlowInv, AssignedInv, Faithful
  <2>2. rows[id].status.word \in UserFailureWords => ~Succeeded(rows[id])
    BY DEF UserFailureWords, Succeeded, SuccessWords
  <2>3. Joined(mirror, id, "failure", FALSE) => ~Succeeded(rows[id])
    <3>1. CASE id \in DOMAIN mirror
      <4>1. Mirrored(mirror[id], rows[id])
        BY <3>1 DEF FlowInv, MirrorInv
      <4>2. CASE mirror[id].failure = None
        BY <3>1, <4>2 DEF Joined, OrElse
      <4>3. CASE mirror[id].failure # None
        <5>1. Joined(mirror, id, "failure", FALSE) = mirror[id].failure
          BY <3>1, <4>3 DEF Joined, OrElse
        <5>2. QED
          BY <4>1, <5>1 DEF Mirrored
      <4>4. QED
        BY <4>2, <4>3
    <3>2. CASE id \notin DOMAIN mirror
      BY <3>2 DEF Joined
    <3>3. QED
      BY <3>1, <3>2
  <2>4. QED
    BY <2>1, <2>2, <2>3 DEF LogFailure, ShownFailure
<1>2. QED
  BY <1>1, FlowInvariant, PTL

\* Two sums whose parts are in order are in order, and equal only where the parts are.
LEMMA SumsInOrder ==
    ASSUME NEW a \in Int, NEW o \in Int, NEW b \in Int, NEW p \in Int, a <= b, o <= p
    PROVE  a + o < b + p \/ (a + o = b + p /\ o = p)
OBVIOUS

\* The order of the texts is that of the instants where the offsets are in order too.
LEMMA TextOrder ==
    ASSUME NEW s \in Stamps, NEW t \in Stamps, s.at <= t.at, s.off <= t.off
    PROVE  TextAtMost(s, t)
<1>1. s.at \in Int /\ s.off \in Int /\ t.at \in Int /\ t.off \in Int
  BY DEF Stamps
<1>2. Local(s) < Local(t) \/ (Local(s) = Local(t) /\ s.off = t.off)
  BY <1>1, SumsInOrder DEF Local
<1>3. s.off = t.off => OffsetAtMost(s.off, t.off)
  BY <1>1 DEF OffsetAtMost
<1>4. QED
  BY <1>2, <1>3 DEF TextAtMost

\* Whatever the filter and the offsets of its bounds: ML counts in a period nothing the
\* backend does not count in it, and of what the backend counts it leaves out only what
\* was written west of the start's offset or east of the end's.
THEOREM RangesAlwaysAgree == Spec => []RangesAgree
<1>1. FlowInv => RangesAgree
  <2> SUFFICES ASSUME FlowInv, NEW filter \in Filters, NEW id \in DOMAIN assigned
               PROVE  /\ id \in Selected(assigned, filter) => id \in Loaded(rows, filter)
                      /\ (/\ id \in Loaded(rows, filter)
                          /\ filter.from # None => ~(assigned[id].ts.off < filter.from.off)
                          /\ filter.to # None => ~(assigned[id].ts.off > filter.to.off))
                         => id \in Selected(assigned, filter)
    BY DEF RangesAgree, Selected
  <2> DEFINE ts == assigned[id].ts
  <2>1. /\ id \in DOMAIN rows
        /\ assigned[id].source = rows[id].source /\ ts.at = rows[id].ts.at
        /\ ts \in Stamps
    BY DEF FlowInv, Domains, AssignedInv, Faithful
  <2>2. /\ filter.from = None \/ filter.from \in Stamps
        /\ filter.to = None \/ filter.to \in Stamps
    BY FlowAssumption
  <2>3. id \in Selected(assigned, filter) => id \in Loaded(rows, filter)
    BY <2>1 DEF Selected, Loaded, InPeriod, InRange
  <2>4. ASSUME id \in Loaded(rows, filter),
               filter.from # None => ~(assigned[id].ts.off < filter.from.off),
               filter.to # None => ~(assigned[id].ts.off > filter.to.off)
        PROVE  id \in Selected(assigned, filter)
    <3>1. ts.at \in Int /\ ts.off \in Int
      BY <2>1 DEF Stamps
    <3>2. ASSUME filter.from # None
          PROVE  filter.from.at <= ts.at /\ TextAtMost(filter.from, ts)
      <4>1. filter.from \in Stamps /\ filter.from.at \in Int /\ filter.from.off \in Int
        BY <2>2, <3>2 DEF Stamps
      <4>2. filter.from.at <= ts.at /\ filter.from.off <= ts.off
        BY <2>1, <2>4, <3>1, <3>2, <4>1 DEF Loaded, InPeriod
      <4>3. QED
        BY <2>1, <4>1, <4>2, TextOrder
    <3>3. ASSUME filter.to # None
          PROVE  ts.at <= filter.to.at /\ TextAtMost(ts, filter.to)
      <4>1. filter.to \in Stamps /\ filter.to.at \in Int /\ filter.to.off \in Int
        BY <2>2, <3>3 DEF Stamps
      <4>2. ts.at <= filter.to.at /\ ts.off <= filter.to.off
        BY <2>1, <2>4, <3>1, <3>3, <4>1 DEF Loaded, InPeriod
      <4>3. QED
        BY <2>1, <4>1, <4>2, TextOrder
    <3>4. filter.from # None => ts.at >= filter.from.at
      BY <2>2, <3>1, <3>2 DEF Stamps
    <3>5. filter.source # None => assigned[id].source = filter.source
      BY <2>1, <2>4 DEF Loaded, InPeriod
    <3>6. InClause(assigned[id], filter)
      BY <3>2, <3>3, <3>5 DEF InClause
    <3>7. InRange(assigned[id], filter)
      BY <3>3, <3>4, <3>5 DEF InRange
    <3>8. QED
      BY <3>6, <3>7 DEF Selected
  <2>5. QED
    BY <2>3, <2>4
<1>2. QED
  BY <1>1, FlowInvariant, PTL

\* Whatever the lengths of the texts and the sizes configured, a text that is longer
\* than the model takes keeps its opening words and some of its last window.
THEOREM LongTextAlwaysKept == Spec => []LongTextKept
<1>1. FlowInv => LongTextKept
  <2> SUFFICES ASSUME FlowInv, NEW id \in DOMAIN rows,
                      PrepareForEmbedding(rows[id].text, ml.settings.knobs) # ChunkError
               PROVE  LET n == rows[id].text
                          knobs == ml.settings.knobs
                          kept == PrepareForEmbedding(n, knobs)
                          chunks == Chunks(n, knobs.chunk, knobs.overlap)
                      IN  /\ kept.words # 1..n => kept.strategy = "chunk_summary"
                          /\ 1..Min({n, knobs.chunk, ChunkWords}) \subseteq kept.words
                          /\ kept.strategy = "chunk_summary" =>
                                /\ \A w \in 1..n : \E k \in DOMAIN chunks : w \in chunks[k].first .. chunks[k].last
                                /\ \E w \in kept.words : w > n - knobs.chunk
                                /\ Cardinality(kept.words) <= SummaryChunks * ChunkWords
    BY DEF LongTextKept
  <2> DEFINE n == rows[id].text
             knobs == ml.settings.knobs
             kept == PrepareForEmbedding(n, knobs)
             chunks == Chunks(n, knobs.chunk, knobs.overlap)
  <2>1. n \in Nat \ {0}
    BY DEF FlowInv, RowsInv, Stored
  <2>2. knobs.direct \in Int /\ knobs.chunk \in Int /\ knobs.overlap \in Int
    <3>1. PICK d \in Deployments : ml = StartMl(d)
      BY DEF FlowInv
    <3>2. knobs = LoadSettings(d.yaml, d.env).settings.knobs
      BY <3>1 DEF StartMl
    <3>3. {"direct", "chunk", "overlap"} \subseteq KnobNames
      BY DEF KnobNames, DefaultKnobs
    <3> HIDE DEF knobs
    <3>4. QED
      BY <3>2, <3>3, KnobsAreNumbers
  <2>3. CASE n <= knobs.direct
    <3>1. kept.words = 1..n /\ kept.strategy = "direct"
      BY <2>3 DEF PrepareForEmbedding
    <3>4. n \in Int /\ knobs.chunk \in Int /\ ChunkWords \in Int
      BY <2>1, <2>2, LongTextAssumption
    <3> HIDE DEF n, knobs, kept, chunks
    <3>2. Min({n, knobs.chunk, ChunkWords}) \in Int /\ Min({n, knobs.chunk, ChunkWords}) <= n
      BY <3>4, MinOfThree
    <3>3. 1..Min({n, knobs.chunk, ChunkWords}) \subseteq 1..n
      BY <2>1, <3>2
    <3>5. QED
      BY <3>1, <3>3 DEF n, knobs, kept
  <2>4. CASE ~(n <= knobs.direct)
    <3>1. knobs.chunk \in Nat \ {0}
      BY <2>2, <2>4 DEF PrepareForEmbedding
    <3>2. kept.words = Kept(n, knobs.chunk, knobs.overlap) /\ kept.strategy = "chunk_summary"
      BY <2>2, <2>4, <3>1 DEF PrepareForEmbedding, Kept
    <3> HIDE DEF n, knobs, kept
    <3>3. 1..Min({n, knobs.chunk, ChunkWords}) \subseteq kept.words
      BY <2>1, <2>2, <3>1, <3>2, OpeningKept
    <3>4. \E w \in kept.words : w > n - knobs.chunk
      BY <2>1, <2>2, <3>1, <3>2, ClosingKept
    <3>5. Cardinality(kept.words) <= SummaryChunks * ChunkWords
      BY <2>1, <2>2, <3>1, <3>2, KeptIsShort
    <3>6. \A w \in 1..n : \E k \in DOMAIN chunks : w \in chunks[k].first .. chunks[k].last
      BY <2>1, <2>2, <3>1, WindowsCover
    <3>7. QED
      BY <3>2, <3>3, <3>4, <3>5, <3>6 DEF n, knobs, kept, chunks
  <2>5. QED
    BY <2>3, <2>4
<1>2. QED
  BY <1>1, FlowInvariant, PTL
------------------------------------------------------------------------------
(* What the tables hold besides.                                               *)

\* Parsing keeps the number of records of an upload.
LEMMA ParsedLength ==
    ASSUME NEW upload \in Uploads
    PROVE  Len(ParseRaw(upload.raws, upload.format)) = Len(upload.raws) /\ Len(upload.raws) \in Nat
<1>1. DOMAIN upload.raws = 1..Len(upload.raws) /\ Len(upload.raws) \in Nat
  BY FlowAssumption
<1> DEFINE raws == ParseRaw(upload.raws, upload.format)
<1>2. CASE upload.format = "csv"
  <2>1. raws = [j \in 1..Len(upload.raws) |-> FromCsv(upload.raws[j])]
    BY <1>1, <1>2 DEF ParseRaw
  <2>2. QED
    BY <1>1, <2>1
<1>3. CASE upload.format # "csv"
  BY <1>1, <1>3 DEF ParseRaw
<1>4. QED
  BY <1>2, <1>3

\* The ids of an upload are finitely many.
LEMMA UploadIsFinite ==
    ASSUME NEW upload \in Uploads
    PROVE  IsFiniteSet(Ids(Normalize(ParseRaw(upload.raws, upload.format), upload.source, upload.source)))
<1> DEFINE raws == ParseRaw(upload.raws, upload.format)
           made == Normalize(raws, upload.source, upload.source)
           total == Len(raws)
           kept == {i \in 1..total : ~Rejected(raws[i])}
           key == [i \in kept |-> made.rows[i].id]
<1>1. DOMAIN made.rows = kept
  BY DEF Normalize
<1>2. total \in Nat
  BY ParsedLength
<1>3. IsFiniteSet(1..total)
  <2>1. 1 \in Int /\ total \in Int
    BY <1>2
  <2> HIDE DEF total
  <2>2. QED
    BY <2>1, FS_Interval
<1>4. IsFiniteSet(kept)
  <2>1. kept \in SUBSET (1..total)
    OBVIOUS
  <2> HIDE DEF kept, total
  <2>2. QED
    BY <1>3, <2>1, FS_Subset
<1>5. Ids(made) = {key[i] : i \in kept}
  <2> HIDE DEF kept, made
  <2>1. QED
    BY <1>1 DEF Ids
<1> HIDE DEF kept, key, made, raws
<1>6. IsFiniteSet({key[i] : i \in kept})
  BY <1>4, FiniteImage
<1>7. IsFiniteSet(Ids(made))
  BY <1>5, <1>6
<1>8. QED
  BY <1>7 DEF made, raws

\* The mirror repeats every assignment, with the name its scenario is published under.
InStep ==
    /\ DOMAIN mirror = DOMAIN assigned
    /\ \A id \in DOMAIN assigned : mirror[id] = Fetched[id]
TablesInv ==
    /\ IsFiniteSet(DOMAIN rows)
    /\ DOMAIN clusters \subseteq KnownTypes \X (0 .. MaxIndex)
    /\ synced => InStep

LEMMA TablesKept ==
    ASSUME FlowInv, TablesInv, [Next]_vars
    PROVE  TablesInv'
<1>1. ASSUME NEW upload \in Uploads, Store(upload)
      PROVE  TablesInv'
  <2> DEFINE made == Normalize(ParseRaw(upload.raws, upload.format), upload.source, upload.source)
  <2>1. /\ DOMAIN rows' = Ids(made) \cup DOMAIN rows
        /\ UNCHANGED <<assigned, clusters, mirror, synced>>
    BY <1>1 DEF Store, Over
  <2>2. IsFiniteSet(Ids(made))
    BY UploadIsFinite
  <2> HIDE DEF made
  <2>3. IsFiniteSet(DOMAIN rows')
    BY <2>1, <2>2, FS_Union DEF TablesInv
  <2>4. QED
    BY <2>1, <2>3 DEF TablesInv, InStep, Fetched
<1>2. ASSUME NEW id \in DOMAIN rows, Classify(id)
      PROVE  TablesInv'
  BY <1>2 DEF Classify, TablesInv
<1>3. CASE Recompute
  <2>1. PICK scenario \in Clusterings :
            LET found == {scenario[id] : id \in DOMAIN assigned} \ {None}
                members(s) == {id \in DOMAIN assigned : scenario[id] = s}
            IN  \E name \in [found -> UNION {Names(s, members(s)) : s \in found}] :
                   /\ \A s \in found : name[s] \in Names(s, members(s))
                   /\ clusters' = Over([s \in found |-> [type |-> s[1], name |-> name[s],
                                                        size |-> Cardinality(members(s))]], clusters)
    BY <1>3 DEF Recompute
  <2> DEFINE found == {scenario[id] : id \in DOMAIN assigned} \ {None}
  <2>2. DOMAIN clusters' = found \cup DOMAIN clusters
    BY <2>1 DEF Over
  <2>3. ASSUME NEW id \in DOMAIN assigned, scenario[id] # None
        PROVE  scenario[id] \in KnownTypes \X (0 .. MaxIndex)
    <3>1. scenario[id] \in ScenariosOf(assigned[id].type)
      BY <2>3 DEF Clusterings
    <3>2. assigned[id].type \in KnownTypes
      BY DEF FlowInv, AssignedInv, Faithful
    <3>3. QED
      BY <3>1, <3>2, FlowAssumption DEF ScenariosOf
  <2>4. found \subseteq KnownTypes \X (0 .. MaxIndex)
    BY <2>3
  <2>5. rows' = rows /\ synced' = FALSE
    BY <1>3 DEF Recompute
  <2> HIDE DEF found
  <2>6. QED
    BY <2>2, <2>4, <2>5 DEF TablesInv
<1>4. CASE SyncAssignments
  <2>1. /\ mirror' = Over(Fetched, mirror)
        /\ UNCHANGED <<rows, assigned, clusters>>
    BY <1>4 DEF SyncAssignments
  <2>2. DOMAIN Fetched = DOMAIN assigned /\ Fetched' = Fetched
    BY <2>1 DEF Fetched
  <2>3. DOMAIN mirror' = DOMAIN assigned /\ \A id \in DOMAIN assigned : mirror'[id] = Fetched[id]
    BY <2>1, <2>2 DEF Over, FlowInv, Domains
  <2>4. InStep'
    BY <2>1, <2>2, <2>3 DEF InStep
  <2>5. QED
    BY <2>1, <2>4 DEF TablesInv
<1>5. CASE UNCHANGED vars
  BY <1>5 DEF vars, TablesInv, InStep, Fetched
<1>6. QED
  BY <1>1, <1>2, <1>3, <1>4, <1>5 DEF Next

\* The tables stay finite, clusters are named by a known type and an index, and a mirror
\* that was written after ML's last change repeats every assignment.
THEOREM TablesInvariant == Spec => []TablesInv
<1>1. Init => TablesInv
  <2> SUFFICES ASSUME Init PROVE TablesInv
    OBVIOUS
  <2>1. DOMAIN rows = {} /\ DOMAIN assigned = {} /\ DOMAIN mirror = {} /\ DOMAIN clusters = {}
    BY DEF Init, Empty
  <2>2. QED
    BY <2>1, FS_EmptySet DEF TablesInv, InStep
<1>2. FlowInv /\ TablesInv /\ [Next]_vars => TablesInv'
  BY TablesKept
<1>3. QED
  BY <1>1, <1>2, FlowInvariant, PTL DEF Spec

------------------------------------------------------------------------------
(* The screens add up.                                                         *)

\* A category may be any value; the minutes it saves are a number.
LEMMA SavedIsNatural ==
    ASSUME NEW row, Stored(row), NEW cat
    PROVE  Saved(row, cat) \in Nat
<1> DEFINE minutes == IF Measured(row) THEN row.manual ELSE ManualMinutes(cat)
           coeff == SessionCoeff(OrElse(row.tokens, 0))
<1>1. minutes \in Nat
  <2>1. ManualMinutes(cat) \in Nat
    BY DEF ManualMinutes, TableMinutes
  <2>2. Measured(row) => row.manual \in Nat
    BY DEF Measured, Stored
  <2>3. QED
    BY <2>1, <2>2
<1>2. coeff \in Nat
  <2>1. CoeffShort \in Nat /\ CoeffMedium \in Nat /\ CoeffLong \in Nat
    BY RoiAssumption
  <2>2. coeff \in {CoeffShort, CoeffMedium, CoeffLong}
    BY DEF SessionCoeff
  <2>3. QED
    BY <2>1, <2>2
<1>3. Saved(row, cat) = IF Succeeded(row) THEN minutes * coeff ELSE 0
  BY DEF Saved
<1> HIDE DEF minutes, coeff
<1>4. minutes * coeff \in Nat
  BY <1>1, <1>2
<1>5. QED
  BY <1>3, <1>4

\* Every row belongs to one user: the users' queries, failures and saved times add up to
\* those of the rows the screen was given (get_users_analytics).
LEMMA UsersAddUp ==
    ASSUME FlowInv, TablesInv, NEW fetched \in SUBSET DOMAIN rows
    PROVE  LET users == UsersAnalytics(rows, mirror, fetched).users
               failing == {id \in fetched : ShownFailure(rows, mirror, id, UserFailureWords)}
           IN  /\ SumFunction([u \in DOMAIN users |-> users[u].queries]) = Cardinality(fetched)
               /\ SumFunction([u \in DOMAIN users |-> users[u].failures]) = Cardinality(failing)
               /\ SumFunction([u \in DOMAIN users |-> users[u].saved])
                  = SumFunction([id \in fetched |-> Saved(rows[id], ShownCategory(rows, mirror, id))])
<1> DEFINE users == UsersAnalytics(rows, mirror, fetched).users
           failing == {id \in fetched : ShownFailure(rows, mirror, id, UserFailureWords)}
           key == [id \in fetched |-> UserOf(rows[id])]
           K == {key[id] : id \in fetched}
           saved == [id \in fetched |-> Saved(rows[id], ShownCategory(rows, mirror, id))]
           own(u) == {id \in fetched : UserOf(rows[id]) = u}
<1>1. IsFiniteSet(fetched) /\ IsFiniteSet(failing)
  BY FS_Subset DEF TablesInv
<1>2. IsFiniteSet(K)
  <2> HIDE DEF key
  <2>1. QED
    BY <1>1, FiniteImage
<1>3. DOMAIN users = K
  BY DEF UsersAnalytics
<1>4. ASSUME NEW u \in K
      PROVE  /\ users[u].queries = Cardinality(own(u))
             /\ users[u].failures = Cardinality({id \in own(u) : ShownFailure(rows, mirror, id, UserFailureWords)})
             /\ users[u].saved = SumFunction([id \in own(u) |-> Saved(rows[id], ShownCategory(rows, mirror, id))])
  BY <1>4 DEF UsersAnalytics
<1>5. ASSUME NEW u \in K
      PROVE  /\ own(u) = Group(fetched, key, u)
             /\ {id \in own(u) : ShownFailure(rows, mirror, id, UserFailureWords)} = Group(failing, key, u)
  BY DEF Group
<1>6. Grouped(fetched, key, K) = fetched /\ Grouped(failing, key, K) = failing
  BY DEF Grouped
<1>7. ASSUME NEW u \in K
      PROVE  SumFunction([id \in own(u) |-> Saved(rows[id], ShownCategory(rows, mirror, id))])
             = SumFunctionOnSet(saved, own(u))
  <2> DEFINE S == own(u)
             f == [id \in S |-> Saved(rows[id], ShownCategory(rows, mirror, id))]
  <2>1. IsFiniteSet(S)
    BY <1>1, FS_Subset
  <2>2. \A id \in S : f[id] = saved[id]
    OBVIOUS
  <2>3. \A id \in S : f[id] \in Int
    <3>1. \A id \in S : Stored(rows[id])
      BY DEF FlowInv, RowsInv
    <3>2. \A id \in S : Saved(rows[id], ShownCategory(rows, mirror, id)) \in Int
      BY <3>1, SavedIsNatural
    <3>3. QED
      BY <3>2
  <2>4. DOMAIN f = S
    OBVIOUS
  <2> HIDE DEF f, S, saved
  <2>5. SumFunctionOnSet(f, S) = SumFunctionOnSet(saved, S)
    BY <2>1, <2>2, <2>3, SumEqual
  <2>6. SumFunction(f) = SumFunctionOnSet(saved, S)
    BY <2>4, <2>5 DEF SumFunction
  <2>7. QED
    BY <2>6 DEF f, S
<1>8. \A id \in fetched : saved[id] \in Int
  <2>1. \A id \in fetched : Stored(rows[id])
    BY DEF FlowInv, RowsInv
  <2>2. \A id \in fetched : Saved(rows[id], ShownCategory(rows, mirror, id)) \in Int
    BY <2>1, SavedIsNatural
  <2>3. QED
    BY <2>2
<1>9. SumFunction(saved) = SumFunctionOnSet(saved, fetched)
  BY DEF SumFunction
<1> DEFINE queries == [u \in DOMAIN users |-> users[u].queries]
           failures == [u \in DOMAIN users |-> users[u].failures]
           times == [u \in DOMAIN users |-> users[u].saved]
<1>10. /\ SumFunction(queries) = SumFunctionOnSet(queries, K)
       /\ SumFunction(failures) = SumFunctionOnSet(failures, K)
       /\ SumFunction(times) = SumFunctionOnSet(times, K)
  <2> HIDE DEF users, K
  <2>1. QED
    BY <1>3 DEF SumFunction
<1> HIDE DEF users, K, key, failing
<1>11. \A u \in K : queries[u] = Cardinality(Group(fetched, key, u))
  BY <1>3, <1>4, <1>5
<1>12. \A u \in K : failures[u] = Cardinality(Group(failing, key, u))
  BY <1>3, <1>4, <1>5
<1>13. \A u \in K : times[u] = SumFunctionOnSet(saved, Group(fetched, key, u))
  <2> HIDE DEF saved, own
  <2>1. QED
    BY <1>3, <1>4, <1>5, <1>7
<1> HIDE DEF queries, failures, times, saved
<1>14. SumFunctionOnSet(queries, K) = Cardinality(Grouped(fetched, key, K))
  BY <1>1, <1>2, <1>11, CountByGroup
<1>15. SumFunctionOnSet(failures, K) = Cardinality(Grouped(failing, key, K))
  BY <1>1, <1>2, <1>12, CountByGroup
<1>16. SumFunctionOnSet(times, K) = SumFunctionOnSet(saved, Grouped(fetched, key, K))
  BY <1>1, <1>2, <1>8, <1>13, SumByGroup
<1>17. /\ SumFunction(queries) = Cardinality(fetched)
       /\ SumFunction(failures) = Cardinality(failing)
       /\ SumFunction(times) = SumFunction(saved)
  BY <1>6, <1>9, <1>10, <1>14, <1>15, <1>16
<1>18. QED
  BY <1>17 DEF queries, failures, times, saved, users, failing

\* The models a row names, and the one it is counted under.
NamedModels(id) == {tool[2] : tool \in {t \in rows[id].tools : IsModelTag(t)}}
ModelOf(id) == CHOOSE name \in NamedModels(id) : TRUE

\* Every row that names a model belongs to one: the models' tokens and failures add up
\* to those of the rows that name one (get_models_analytics).
LEMMA ModelsAddUp ==
    ASSUME FlowInv, TablesInv, NEW fetched \in SUBSET DOMAIN rows
    PROVE  LET models == ModelsAnalytics(rows, mirror, fetched)
               named == {id \in fetched : NamedModels(id) # {}}
               failing == {id \in named : ShownFailure(rows, mirror, id, ModelFailureWords)}
           IN  /\ SumFunction([m \in DOMAIN models |-> models[m].tokens])
                  = SumFunctionOnSet([id \in fetched |-> OrElse(rows[id].tokens, 0)], named)
               /\ SumFunction([m \in DOMAIN models |-> models[m].failures]) = Cardinality(failing)
<1> DEFINE models == ModelsAnalytics(rows, mirror, fetched)
           named == {id \in fetched : NamedModels(id) # {}}
           failing == {id \in named : ShownFailure(rows, mirror, id, ModelFailureWords)}
           key == [id \in named |-> ModelOf(id)]
           K == {key[id] : id \in named}
           tokens == [id \in fetched |-> OrElse(rows[id].tokens, 0)]
           own(m) == {id \in named : ModelOf(id) = m}
<1>1. IsFiniteSet(named) /\ IsFiniteSet(failing)
  BY FS_Subset DEF TablesInv
<1>2. IsFiniteSet(K)
  <2> HIDE DEF key, named
  <2>1. QED
    BY <1>1, FiniteImage
<1>3. models = [m \in {ModelOf(id) : id \in named} |->
                   [queries |-> Cardinality(own(m)),
                    tokens |-> SumFunction([id \in own(m) |-> OrElse(rows[id].tokens, 0)]),
                    failures |-> Cardinality({id \in own(m) : ShownFailure(rows, mirror, id, ModelFailureWords)})]]
  BY DEF ModelsAnalytics, ModelOf, NamedModels
<1>4. DOMAIN models = K
  BY <1>3
<1>5. ASSUME NEW m \in K
      PROVE  /\ models[m].tokens = SumFunction([id \in own(m) |-> OrElse(rows[id].tokens, 0)])
             /\ models[m].failures = Cardinality({id \in own(m) : ShownFailure(rows, mirror, id, ModelFailureWords)})
  <2> HIDE DEF own, named, models
  <2>1. m \in {ModelOf(id) : id \in named}
    BY <1>5
  <2>2. QED
    BY <1>3, <2>1
<1>6. ASSUME NEW m \in K
      PROVE  /\ own(m) = Group(named, key, m)
             /\ {id \in own(m) : ShownFailure(rows, mirror, id, ModelFailureWords)} = Group(failing, key, m)
  <2> HIDE DEF named
  <2>1. QED
    BY DEF Group
<1>7. Grouped(named, key, K) = named /\ Grouped(failing, key, K) = failing
  <2> HIDE DEF named
  <2>1. QED
    BY DEF Grouped
<1>8. \A id \in named : tokens[id] \in Int
  BY DEF FlowInv, RowsInv, Stored, OrElse
<1>9. ASSUME NEW m \in K
      PROVE  SumFunction([id \in own(m) |-> OrElse(rows[id].tokens, 0)]) = SumFunctionOnSet(tokens, own(m))
  <2> DEFINE S == own(m)
             f == [id \in S |-> OrElse(rows[id].tokens, 0)]
  <2>1. IsFiniteSet(S)
    BY <1>1, FS_Subset
  <2>2. DOMAIN f = S /\ \A id \in S : f[id] \in Int /\ f[id] = tokens[id]
    BY <1>8
  <2> HIDE DEF f, S, tokens
  <2>3. SumFunction(f) = SumFunctionOnSet(tokens, S)
    BY <2>1, <2>2, SumOfFunction
  <2>4. QED
    BY <2>3 DEF f, S
<1> DEFINE sums == [m \in DOMAIN models |-> models[m].tokens]
           failures == [m \in DOMAIN models |-> models[m].failures]
<1>10. SumFunction(sums) = SumFunctionOnSet(sums, K) /\ SumFunction(failures) = SumFunctionOnSet(failures, K)
  <2> HIDE DEF models, K
  <2>1. QED
    BY <1>4 DEF SumFunction
<1> HIDE DEF models, K, key, failing, named, own
<1>11. \A m \in K : failures[m] = Cardinality(Group(failing, key, m))
  BY <1>4, <1>5, <1>6
<1>12. \A m \in K : sums[m] = SumFunctionOnSet(tokens, Group(named, key, m))
  <2> HIDE DEF tokens
  <2>1. QED
    BY <1>4, <1>5, <1>6, <1>9
<1> HIDE DEF sums, failures, tokens
<1>13. SumFunctionOnSet(failures, K) = Cardinality(Grouped(failing, key, K))
  BY <1>1, <1>2, <1>11, CountByGroup
<1>14. SumFunctionOnSet(sums, K) = SumFunctionOnSet(tokens, Grouped(named, key, K))
  BY <1>1, <1>2, <1>8, <1>12, SumByGroup
<1>15. SumFunction(failures) = Cardinality(failing) /\ SumFunction(sums) = SumFunctionOnSet(tokens, named)
  BY <1>7, <1>10, <1>13, <1>14
<1>16. QED
  BY <1>15 DEF failures, sums, tokens, named, failing, models

\* Once no row waits for its assignment with only a gold category to go by, the two
\* screens save the same time on each row.
LEMMA SameSaved ==
    ASSUME FlowInv, NEW id \in DOMAIN rows,
           id \in DOMAIN mirror \/ rows[id].gold = None \/ Measured(rows[id])
    PROVE  Saved(rows[id], ShownCategory(rows, mirror, id)) = Saved(rows[id], Category(mirror, id))
<1>1. CASE id \in DOMAIN mirror
  <2>1. mirror[id].type \in KnownTypes
    BY <1>1 DEF FlowInv, MirrorInv, Mirrored
  <2>2. mirror[id].type # None
    BY <2>1, FlowAssumption DEF KnownTypes
  <2>3. mirror[id]["type"] = mirror[id].type
    OBVIOUS
  <2>4. ShownCategory(rows, mirror, id) = Category(mirror, id)
    BY <1>1, <2>2, <2>3 DEF ShownCategory, Category, Joined, OrElse
  <2>5. QED
    BY <2>4
<1>2. CASE id \notin DOMAIN mirror /\ rows[id].gold = None
  <2>1. ShownCategory(rows, mirror, id) = Category(mirror, id)
    BY <1>2 DEF ShownCategory, Category, Joined, OrElse
  <2>2. QED
    BY <2>1
<1>3. CASE Measured(rows[id])
  BY <1>3 DEF Saved
<1>4. QED
  BY <1>1, <1>2, <1>3

\* The figures of one filter, one limit and one choice of the rows within it.
LEMMA FiguresOfRows ==
    ASSUME FlowInv, TablesInv, NEW filter \in Filters,
           NEW limit \in 1..Cardinality(Loaded(rows, filter)),
           NEW fetched \in FetchedJoined(rows, filter, limit)
    PROVE  LET loaded == Loaded(rows, filter)
               failures == DOMAIN Logs(rows, mirror, filter, TRUE)
               roi == ComputeRoi(rows, mirror, filter).summary
               settled == \A id \in loaded : id \in DOMAIN mirror \/ rows[id].gold = None \/ Measured(rows[id])
               counts == \A id \in loaded : OrElse(rows[id].tokens, 0) >= 0
               whole == limit = Cardinality(loaded)
               users == UsersAnalytics(rows, mirror, fetched).users
               models == ModelsAnalytics(rows, mirror, fetched)
               failed == SumFunction([u \in DOMAIN users |-> users[u].failures])
               saved == SumFunction([u \in DOMAIN users |-> users[u].saved])
           IN  /\ SumFunction([u \in DOMAIN users |-> users[u].queries]) = limit
               /\ whole => limit = roi.count
               /\ failed <= Cardinality(failures)
               /\ whole => failed = Cardinality(failures)
               /\ SumFunction([m \in DOMAIN models |-> models[m].failures]) <= failed
               /\ counts => SumFunction([m \in DOMAIN models |-> models[m].tokens]) <= roi.tokens
               /\ settled => saved <= roi.saved
               /\ whole /\ settled => saved = roi.saved
<1> DEFINE loaded == Loaded(rows, filter)
           failures == DOMAIN Logs(rows, mirror, filter, TRUE)
           roi == ComputeRoi(rows, mirror, filter).summary
           settled == \A id \in loaded : id \in DOMAIN mirror \/ rows[id].gold = None \/ Measured(rows[id])
           counts == \A id \in loaded : OrElse(rows[id].tokens, 0) >= 0
           whole == limit = Cardinality(loaded)
           users == UsersAnalytics(rows, mirror, fetched).users
           models == ModelsAnalytics(rows, mirror, fetched)
           queries == SumFunction([u \in DOMAIN users |-> users[u].queries])
           failed == SumFunction([u \in DOMAIN users |-> users[u].failures])
           saved == SumFunction([u \in DOMAIN users |-> users[u].saved])
           modelFailed == SumFunction([m \in DOMAIN models |-> models[m].failures])
           modelTokens == SumFunction([m \in DOMAIN models |-> models[m].tokens])
           failing == {id \in fetched : ShownFailure(rows, mirror, id, UserFailureWords)}
           named == {id \in fetched : NamedModels(id) # {}}
           modelFailing == {id \in named : ShownFailure(rows, mirror, id, ModelFailureWords)}
           shown(id) == Saved(rows[id], ShownCategory(rows, mirror, id))
           paid == [id \in loaded |-> Saved(rows[id], Category(mirror, id))]
           tokens == [id \in loaded |-> OrElse(rows[id].tokens, 0)]
(* What was loaded and what was fetched of it.                                 *)
<1>1. loaded \subseteq DOMAIN rows /\ IsFiniteSet(loaded) /\ Cardinality(loaded) \in Nat
  BY FS_Subset, FS_CardinalityType DEF Loaded, TablesInv
<1>2. fetched \subseteq loaded /\ Cardinality(fetched) = limit
  <2>1. Cardinality(fetched) = Min({limit, Cardinality(loaded)}) /\ fetched \subseteq loaded
    BY DEF FetchedJoined
  <2>2. limit \in Int /\ Cardinality(loaded) \in Int /\ limit <= Cardinality(loaded)
    BY <1>1
  <2> HIDE DEF loaded
  <2>3. Min({limit, Cardinality(loaded)}) = limit
    BY <2>2, MinOfTwo
  <2>4. QED
    BY <2>1, <2>3
<1>3. IsFiniteSet(fetched) /\ fetched \in SUBSET DOMAIN rows
  BY <1>1, <1>2, FS_Subset
<1>4. whole => fetched = loaded
  <2> HIDE DEF loaded
  <2>1. QED
    BY <1>1, <1>2, FS_Subset
<1>5. /\ queries = Cardinality(fetched)
      /\ failed = Cardinality(failing)
      /\ saved = SumFunction([id \in fetched |-> shown(id)])
  BY <1>3, UsersAddUp
<1>6. /\ modelTokens = SumFunctionOnSet([id \in fetched |-> OrElse(rows[id].tokens, 0)], named)
      /\ modelFailed = Cardinality(modelFailing)
  BY <1>3, ModelsAddUp
<1>7. /\ roi.count = Cardinality(loaded)
      /\ roi.saved = SumFunction(paid)
      /\ roi.tokens = SumFunction(tokens)
  BY DEF ComputeRoi, Bucket
<1>8. failures = {id \in loaded : ShownFailure(rows, mirror, id, UserFailureWords)}
  BY DEF Logs
<1> HIDE DEF queries, failed, saved, modelFailed, modelTokens, roi, users, models, failures
(* The failures.                                                               *)
<1>9. IsFiniteSet(failing) /\ IsFiniteSet(failures) /\ failing \subseteq failures /\ IsFiniteSet(named)
  <2>1. failing \subseteq fetched /\ failures \subseteq loaded /\ failing \subseteq failures /\ named \subseteq fetched
    BY <1>2, <1>8
  <2> HIDE DEF loaded, failing, named
  <2>2. QED
    BY <1>1, <1>3, <2>1, FS_Subset
<1>10. failed <= Cardinality(failures)
  <2> HIDE DEF failing
  <2>1. QED
    BY <1>5, <1>9, FS_Subset
<1>11. whole => failed = Cardinality(failures)
  BY <1>4, <1>5, <1>8
<1>12. modelFailed <= failed
  <2>1. modelFailing \in SUBSET failing
    BY DEF ShownFailure, ModelFailureWords, UserFailureWords
  <2> HIDE DEF failing, modelFailing
  <2>2. QED
    BY <1>5, <1>6, <1>9, <2>1, FS_Subset
(* The tokens.                                                                 *)
<1>13. ASSUME counts PROVE modelTokens <= roi.tokens
  <2> DEFINE own == [id \in fetched |-> OrElse(rows[id].tokens, 0)]
  <2>1. \A id \in loaded : tokens[id] \in Int /\ tokens[id] >= 0
    BY <1>1, <1>13 DEF FlowInv, RowsInv, Stored, OrElse
  <2>2. \A id \in named : own[id] \in Int /\ own[id] = tokens[id]
    BY <1>2, <2>1
  <2>3. named \in SUBSET loaded /\ DOMAIN tokens = loaded
    BY <1>2
  <2> HIDE DEF tokens, own, named, loaded
  <2>4. SumFunctionOnSet(own, named) = SumFunctionOnSet(tokens, named)
    BY <1>9, <2>2, SumEqual
  <2>5. SumFunctionOnSet(tokens, named) <= SumFunctionOnSet(tokens, loaded)
    BY <1>1, <2>1, <2>3, SumSubset
  <2>6. roi.tokens = SumFunctionOnSet(tokens, loaded)
    BY <1>7, <2>3 DEF SumFunction
  <2>7. modelTokens = SumFunctionOnSet(own, named)
    BY <1>6 DEF own
  <2>8. QED
    BY <2>4, <2>5, <2>6, <2>7
(* The saved time.                                                             *)
<1>14. ASSUME settled PROVE saved <= roi.saved /\ (whole => saved = roi.saved)
  <2> DEFINE own == [id \in fetched |-> shown(id)]
  <2>1. \A id \in loaded : paid[id] \in Nat
    <3>1. \A id \in loaded : Stored(rows[id])
      BY <1>1 DEF FlowInv, RowsInv
    <3>2. \A id \in loaded : Saved(rows[id], Category(mirror, id)) \in Nat
      BY <3>1, SavedIsNatural
    <3>3. QED
      BY <3>2
  <2>2. \A id \in loaded : shown(id) = paid[id]
    <3>1. \A id \in loaded : shown(id) = Saved(rows[id], Category(mirror, id))
      BY <1>1, <1>14, SameSaved
    <3>2. QED
      BY <3>1
  <2>3. \A id \in fetched : own[id] \in Int /\ own[id] = paid[id]
    BY <1>2, <2>1, <2>2
  <2>4. DOMAIN own = fetched /\ DOMAIN paid = loaded
    OBVIOUS
  <2> HIDE DEF own, paid, loaded, shown
  <2>5. SumFunction(own) = SumFunctionOnSet(paid, fetched)
    BY <1>3, <2>3, <2>4, SumOfFunction
  <2>6. SumFunctionOnSet(paid, fetched) <= SumFunctionOnSet(paid, loaded)
    <3>1. \A id \in loaded : paid[id] \in Int
      BY <2>1
    <3>2. \A id \in loaded \ fetched : paid[id] >= 0
      BY <2>1
    <3>3. QED
      BY <1>1, <1>2, <3>1, <3>2, SumSubset
  <2>7. roi.saved = SumFunctionOnSet(paid, loaded)
    BY <1>7, <2>4 DEF SumFunction
  <2>8. saved = SumFunction(own)
    BY <1>5 DEF own
  <2>9. QED
    BY <1>4, <2>5, <2>6, <2>7, <2>8
<1> HIDE DEF loaded, settled, counts
<1>15. whole => limit = roi.count
  BY <1>7
<1>16. queries = limit
  BY <1>2, <1>5
<1>17. QED
  BY <1>10, <1>11, <1>12, <1>13, <1>14, <1>15, <1>16
     DEF queries, failed, saved, modelFailed, modelTokens, roi, users, models, failures, loaded, settled, counts

\* Whatever rows, assignments, filter and limit: the users screen adds up to the rows it
\* was given, and with the ROI, models and logs screens to one story of them.
THEOREM FiguresAlwaysAgree == Spec => []FiguresAgree
<1>1. FlowInv /\ TablesInv => FiguresAgree
  BY FiguresOfRows DEF FiguresAgree
<1>2. QED
  BY <1>1, FlowInvariant, TablesInvariant, PTL

\* Whatever the limit, the top of a list and its rest add up to all of it; unknown is
\* shown for itself (top_n_distribution).
LEMMA TopKeepsSum ==
    ASSUME NEW counts, IsFiniteSet(DOMAIN counts), \A k \in DOMAIN counts : counts[k] \in Nat \ {0},
           NEW rank, NEW limit
    PROVE  LET top == TopDistribution(counts, rank, limit)
           IN  /\ IsFiniteSet(DOMAIN top)
               /\ \A k \in DOMAIN top : top[k] \in Int
               /\ SumFunction(top) = SumFunctionOnSet(counts, DOMAIN counts)
               /\ "unknown" \in DOMAIN counts => top["unknown"] = counts["unknown"]
<1> DEFINE all == DOMAIN counts
           rest == all \ {"unknown"}
           head == Leaders(counts, rank, rest, limit)
           tail == SumFunctionOnSet(counts, rest \ head)
           own == head \cup (all \cap {"unknown"})
           keys == own \cup (IF tail > 0 THEN {"other"} ELSE {})
           top == TopDistribution(counts, rank, limit)
           F(S) == SumFunctionOnSet(counts, S)
           T(S) == SumFunctionOnSet(top, S)
<1>1. all = {k \in all : counts[k] > 0}
  OBVIOUS
<1>2. top = [k \in keys |-> (IF k \in head \cup {"unknown"} THEN counts[k] ELSE 0)
                            + (IF k = "other" THEN tail ELSE 0)]
  <2> HIDE DEF head, tail
  <2>1. top = [k \in head \cup ({k \in all : counts[k] > 0} \cap {"unknown"})
                        \cup (IF tail > 0 THEN {"other"} ELSE {}) |->
                   (IF k \in head \cup {"unknown"} THEN counts[k] ELSE 0) + (IF k = "other" THEN tail ELSE 0)]
    BY <1>1 DEF TopDistribution, head, tail
  <2>2. QED
    BY <1>1, <2>1
<1>3. head \subseteq rest
  BY DEF Leaders
<1>4. \A S \in SUBSET all : IsFiniteSet(S) /\ F(S) \in Nat
  <2>1. \A S \in SUBSET all : IsFiniteSet(S) /\ \A k \in S : counts[k] \in Nat
    BY FS_Subset
  <2>2. QED
    BY <2>1, SumNatural
<1> HIDE DEF head, top
<1>5. tail \in Nat
  <2>1. rest \ head \in SUBSET all
    OBVIOUS
  <2> HIDE DEF all, rest
  <2>2. QED
    BY <1>4, <2>1
<1>6. own \subseteq all /\ own \cup (rest \ head) = all /\ own \cap (rest \ head) = {}
  BY <1>3
<1>7. F(all) = F(own) + tail
  <2>1. \A k \in own \cup (rest \ head) : counts[k] \in Int
    BY <1>6
  <2>2. IsFiniteSet(own) /\ IsFiniteSet(rest \ head)
    BY <1>4, <1>6
  <2> HIDE DEF all, own, rest
  <2>3. QED
    BY <1>6, <2>1, <2>2, SumUnion
<1>8. DOMAIN top = keys
  BY <1>2
<1>9. \A k \in keys : top[k] = (IF k \in head \cup {"unknown"} THEN counts[k] ELSE 0)
                               + (IF k = "other" THEN tail ELSE 0)
  <2> HIDE DEF keys, tail
  <2>1. QED
    BY <1>2
<1>10. \A k \in own : k # "other" => top[k] = counts[k]
  <2>1. \A k \in own : counts[k] \in Int /\ k \in keys /\ k \in head \cup {"unknown"}
    BY <1>6
  <2> HIDE DEF own, keys, tail
  <2>2. QED
    BY <1>9, <2>1
<1>11. \A k \in keys : top[k] \in Int
  <2>1. \A k \in keys : k \in head \cup {"unknown"} => k \in own \/ k = "other"
    OBVIOUS
  <2>2. \A k \in keys : k \in head \cup {"unknown"} => k \in own
    BY <2>1
  <2>3. \A k \in own : counts[k] \in Int
    BY <1>6
  <2> HIDE DEF own, keys, tail
  <2>4. QED
    BY <1>5, <1>9, <2>2, <2>3
<1>12. IsFiniteSet(own) /\ IsFiniteSet(keys)
  <2>1. IsFiniteSet(own)
    BY <1>4, <1>6
  <2>2. IsFiniteSet(own \cup {"other"})
    <3> HIDE DEF own
    <3>1. QED
      BY <2>1, FS_AddElement
  <2>3. keys = own \/ keys = own \cup {"other"}
    OBVIOUS
  <2> HIDE DEF own, keys
  <2>4. QED
    BY <2>1, <2>2, <2>3
<1>13. T(keys) = F(own) + tail
  <2>1. CASE tail = 0
    <3>1. keys = own
      BY <2>1
    <3>2. \A k \in own : top[k] = counts[k] /\ top[k] \in Int
      <4>1. \A k \in own : k \in keys /\ k \in head \cup {"unknown"} /\ counts[k] \in Int
        BY <1>6
      <4> HIDE DEF own, keys, tail
      <4>2. QED
        BY <1>9, <1>11, <2>1, <4>1
    <3>3. F(own) \in Nat
      BY <1>4, <1>6
    <3> HIDE DEF own, keys, tail
    <3>4. T(own) = F(own)
      BY <1>12, <3>2, SumEqual
    <3>5. QED
      BY <2>1, <3>1, <3>3, <3>4
  <2>2. CASE tail # 0 /\ "other" \in own
    <3>1. keys = own
      BY <2>2
    <3>2. top["other"] = counts["other"] + tail
      <4>1. "other" \in keys /\ "other" \in head \cup {"unknown"}
        BY <2>2
      <4> HIDE DEF keys, tail
      <4>2. QED
        BY <1>9, <4>1
    <3> DEFINE less == own \ {"other"}
    <3>3. \A k \in less : top[k] = counts[k] /\ top[k] \in Int
      BY <1>10, <1>11
    <3>4. \A k \in own : top[k] \in Int /\ counts[k] \in Int
      BY <1>6, <1>11
    <3>5. F(own) \in Nat /\ F(less) \in Nat /\ IsFiniteSet(less)
      BY <1>4, <1>6
    <3> HIDE DEF keys, tail, own
    <3>6. F(own) = counts["other"] + F(less)
      BY <1>12, <2>2, <3>4, SumRemove
    <3>7. T(own) = top["other"] + T(less)
      BY <1>12, <2>2, <3>4, SumRemove
    <3> HIDE DEF less
    <3>8. T(less) = F(less)
      BY <3>3, <3>5, SumEqual
    <3>9. QED
      BY <1>5, <2>2, <3>1, <3>2, <3>4, <3>5, <3>6, <3>7, <3>8
  <2>3. CASE tail # 0 /\ "other" \notin own
    <3>1. keys = own \cup {"other"}
      BY <1>5, <2>3
    <3>2. top["other"] = tail
      <4>1. "other" \in keys /\ "other" \notin head \cup {"unknown"}
        BY <2>3, <3>1
      <4> HIDE DEF keys, tail
      <4>2. QED
        BY <1>5, <1>9, <4>1
    <3>3. \A k \in own : top[k] = counts[k] /\ top[k] \in Int
      BY <1>10, <1>11, <2>3
    <3>4. F(own) \in Nat
      BY <1>4, <1>6
    <3> HIDE DEF keys, tail, own
    <3>5. T(own) = F(own)
      BY <1>12, <3>3, SumEqual
    <3>6. \A k \in own \cup {"other"} : top[k] \in Int
      BY <1>11, <3>1
    <3>7. T(own \cup {"other"}) = top["other"] + T(own)
      BY <1>12, <2>3, <3>6, SumAdd
    <3>8. QED
      BY <1>5, <3>1, <3>2, <3>4, <3>5, <3>7
  <2>4. QED
    BY <2>1, <2>2, <2>3
<1>14. SumFunction(top) = F(all)
  <2> HIDE DEF all, own, keys, tail
  <2>1. QED
    BY <1>7, <1>8, <1>13 DEF SumFunction
<1>15. "unknown" \in all => top["unknown"] = counts["unknown"]
  BY <1>10
<1>16. IsFiniteSet(DOMAIN top) /\ \A k \in DOMAIN top : top[k] \in Int
  <2> HIDE DEF keys
  <2>1. QED
    BY <1>8, <1>11, <1>12
<1>17. QED
  BY <1>14, <1>15, <1>16 DEF top

\* Whatever the limit, the scenarios listed and the bucket of the others add up to all of
\* them, and no more is listed than there is (top_n_scenarios).
LEMMA ScenariosKeepSum ==
    ASSUME NEW counts, IsFiniteSet(DOMAIN counts), \A k \in DOMAIN counts : counts[k] \in Nat \ {0},
           NEW rank, NEW limit, NEW published
    PROVE  LET top == TopScenarios(counts, rank, limit, published)
           IN  /\ SumFunction([s \in DOMAIN top.items |-> top.items[s].count]) + top.other
                  = SumFunctionOnSet(counts, DOMAIN counts)
               /\ Cardinality(DOMAIN top.items) + (IF top.other > 0 THEN 1 ELSE 0)
                  <= Cardinality(DOMAIN counts)
<1> DEFINE all == DOMAIN counts
           head == Leaders(counts, rank, all, limit)
           tail == all \ head
           top == TopScenarios(counts, rank, limit, published)
           listed == [s \in DOMAIN top.items |-> top.items[s].count]
           F(S) == SumFunctionOnSet(counts, S)
<1>1. all = {k \in all : counts[k] > 0}
  OBVIOUS
<1>2. head \subseteq all
  BY DEF Leaders
<1>3. /\ DOMAIN top.items = head /\ \A k \in head : top.items[k].count = counts[k]
      /\ top.other = F(tail)
  BY <1>1 DEF TopScenarios
<1> HIDE DEF head, top
<1>4. \A S \in SUBSET all : IsFiniteSet(S) /\ F(S) \in Nat /\ Cardinality(S) \in Nat
  <2>1. \A S \in SUBSET all : IsFiniteSet(S) /\ \A k \in S : counts[k] \in Nat
    BY FS_Subset
  <2>2. QED
    BY <2>1, SumNatural, FS_CardinalityType
<1>5. /\ IsFiniteSet(head) /\ IsFiniteSet(tail) /\ head \cup tail = all /\ head \cap tail = {}
      /\ F(head) \in Nat /\ F(tail) \in Nat /\ Cardinality(head) \in Nat /\ Cardinality(all) \in Nat
  <2>1. head \in SUBSET all /\ tail \in SUBSET all /\ all \in SUBSET all /\ head \cup tail = all /\ head \cap tail = {}
    BY <1>2
  <2> HIDE DEF all, tail
  <2>2. QED
    BY <1>4, <2>1
<1>6. SumFunction(listed) = F(head)
  <2>1. DOMAIN listed = head /\ \A k \in head : listed[k] \in Int /\ listed[k] = counts[k]
    BY <1>2, <1>3
  <2> HIDE DEF listed
  <2>2. QED
    BY <1>5, <2>1, SumOfFunction
<1>7. F(all) = F(head) + F(tail)
  <2>1. \A k \in head \cup tail : counts[k] \in Int
    BY <1>2
  <2> HIDE DEF all, tail
  <2>2. QED
    BY <1>5, <2>1, SumUnion
<1>8. Cardinality(head) + (IF F(tail) > 0 THEN 1 ELSE 0) <= Cardinality(all)
  <2>1. Cardinality(head) <= Cardinality(all) /\ (Cardinality(all) = Cardinality(head) => all = head)
    <3>1. head \in SUBSET all /\ IsFiniteSet(all)
      BY <1>2
    <3> HIDE DEF all, tail
    <3>2. QED
      BY <3>1, FS_Subset
  <2>2. all = head => F(tail) = 0
    <3>1. all = head => tail = {}
      OBVIOUS
    <3> HIDE DEF tail
    <3>2. QED
      BY <3>1, SumEmpty
  <2> HIDE DEF all, tail
  <2>3. QED
    BY <1>5, <2>1, <2>2
<1>9. QED
  <2> HIDE DEF listed, tail, all
  <2>1. SumFunction(listed) + top.other = F(all)
    BY <1>3, <1>6, <1>7
  <2>2. Cardinality(DOMAIN top.items) + (IF top.other > 0 THEN 1 ELSE 0) <= Cardinality(all)
    BY <1>3, <1>8
  <2>3. QED
    BY <2>1, <2>2 DEF listed, top, all

\* The statistics of one filter.
LEMMA StatisticsAddUp ==
    ASSUME FlowInv, TablesInv, NEW filter
    PROVE  LET stats == BuildStatistics(assigned, clusters, filter, ml.settings.knobs)
               shown(t) == Dashboard(stats).tasks[t].count
           IN  /\ SumFunction([t \in DOMAIN stats.tasks |-> shown(t)]) = stats.records
               /\ SumFunction(stats.dynamics) = stats.records
               /\ stats.unknown > 0 => stats.tasks["unknown"] = stats.unknown
               /\ SumFunction([s \in DOMAIN stats.top.items |-> stats.top.items[s].count])
                  + stats.top.other + stats.outliers <= stats.records
               /\ Cardinality(DOMAIN stats.top.items) + (IF stats.top.other > 0 THEN 1 ELSE 0)
                  <= stats.scenarios
<1> DEFINE stats == BuildStatistics(assigned, clusters, filter, ml.settings.knobs)
           ids == Selected(assigned, filter)
           type == [id \in ids |-> assigned[id].type]
           types == {type[id] : id \in ids}
           day == [id \in ids |-> Day(assigned[id])]
           days == {day[id] : id \in ids}
           dynamics == [d \in days |-> Cardinality({id \in ids : Day(assigned[id]) = d})]
           taskCount == [t \in types |-> Cardinality({id \in ids : assigned[id].type = t})]
           inCluster == {id \in ids : ~assigned[id].outlier /\ assigned[id].scenario \in DOMAIN clusters}
           scenario == [id \in inCluster |-> assigned[id].scenario]
           found == {scenario[id] : id \in inCluster}
           scenarioCount == [s \in found |-> Cardinality({id \in inCluster : assigned[id].scenario = s})]
           outside == {id \in ids : assigned[id].outlier}
           taskTop == TopDistribution(taskCount, TypeRank, ml.settings.knobs.top_tasks)
           scenarioTop == TopScenarios(scenarioCount, ScenarioRank(DOMAIN scenarioCount),
                                       ml.settings.knobs.top_scenarios, clusters)
           shown == [t \in DOMAIN stats.tasks |-> Dashboard(stats).tasks[t].count]
           listed == [s \in DOMAIN stats.top.items |-> stats.top.items[s].count]
<1>1. IsFiniteSet(ids) /\ IsFiniteSet(inCluster) /\ IsFiniteSet(outside)
  <2>1. ids \subseteq DOMAIN rows /\ inCluster \subseteq ids /\ outside \subseteq ids
    BY DEF Selected, FlowInv, Domains
  <2> HIDE DEF ids, inCluster, outside
  <2>2. IsFiniteSet(ids)
    BY <2>1, FS_Subset DEF TablesInv
  <2>3. QED
    BY <2>1, <2>2, FS_Subset
<1>2. IsFiniteSet(types) /\ IsFiniteSet(found) /\ IsFiniteSet(days)
  <2> HIDE DEF ids, inCluster, type, scenario, day
  <2>1. QED
    BY <1>1, FiniteImage
<1>3. /\ stats.records = Cardinality(ids) /\ stats.outliers = Cardinality(outside)
      /\ stats.unknown = Cardinality({id \in ids : assigned[id].type = "unknown"})
  BY DEF BuildStatistics
<1>4. stats.tasks = taskTop
  BY DEF BuildStatistics
<1>5. stats.top = scenarioTop /\ stats.scenarios = Cardinality(DOMAIN scenarioCount)
  BY DEF BuildStatistics
<1>6. stats.dynamics = dynamics
  BY DEF BuildStatistics, Dynamics
<1>7. \A t \in DOMAIN stats.tasks : Dashboard(stats).tasks[t].count = stats.tasks[t]
  BY DEF Dashboard
<1> HIDE DEF stats
(* How often each type and each scenario is counted.                           *)
<1>8. /\ DOMAIN taskCount = types
      /\ \A t \in types : taskCount[t] = Cardinality(Group(ids, type, t)) /\ Group(ids, type, t) # {}
      /\ Grouped(ids, type, types) = ids
  <2> HIDE DEF ids
  <2>1. QED
    BY DEF Group, Grouped
<1>9. /\ DOMAIN scenarioCount = found
      /\ \A s \in found : /\ scenarioCount[s] = Cardinality(Group(inCluster, scenario, s))
                          /\ Group(inCluster, scenario, s) # {}
      /\ Grouped(inCluster, scenario, found) = inCluster
  <2> HIDE DEF inCluster
  <2>1. QED
    BY DEF Group, Grouped
<1>10. /\ DOMAIN dynamics = days
       /\ \A d \in days : dynamics[d] = Cardinality(Group(ids, day, d))
       /\ Grouped(ids, day, days) = ids
  <2> HIDE DEF ids
  <2>1. QED
    BY DEF Group, Grouped
<1>11. "unknown" \in types => taskCount["unknown"] = stats.unknown
  BY <1>3
<1>12. Cardinality({id \in ids : assigned[id].type = "unknown"}) > 0 => "unknown" \in types
  <2>1. "unknown" \notin types => {id \in ids : assigned[id].type = "unknown"} = {}
    OBVIOUS
  <2>2. QED
    BY <2>1, FS_EmptySet
<1>13. inCluster \cap outside = {} /\ inCluster \cup outside \subseteq ids
  OBVIOUS
<1> HIDE DEF ids, type, types, taskCount, day, days, dynamics, inCluster, scenario, found, scenarioCount, outside
<1>14. \A k \in DOMAIN taskCount : taskCount[k] \in Nat \ {0}
  <2>1. \A t \in types : IsFiniteSet(Group(ids, type, t))
    BY <1>1, FS_Subset DEF Group
  <2>2. QED
    BY <1>8, <2>1, FS_CardinalityType, FS_EmptySet
<1>15. \A k \in DOMAIN scenarioCount : scenarioCount[k] \in Nat \ {0}
  <2>1. \A s \in found : IsFiniteSet(Group(inCluster, scenario, s))
    BY <1>1, FS_Subset DEF Group
  <2>2. QED
    BY <1>9, <2>1, FS_CardinalityType, FS_EmptySet
<1>16. SumFunctionOnSet(taskCount, types) = Cardinality(ids)
  <2>1. \A t \in types : taskCount[t] = Cardinality(Group(ids, type, t))
    BY <1>8
  <2>2. SumFunctionOnSet(taskCount, types) = Cardinality(Grouped(ids, type, types))
    BY <1>1, <1>2, <2>1, CountByGroup
  <2>3. QED
    BY <1>8, <2>2
<1>17. SumFunctionOnSet(scenarioCount, found) = Cardinality(inCluster)
  <2>1. \A s \in found : scenarioCount[s] = Cardinality(Group(inCluster, scenario, s))
    BY <1>9
  <2>2. SumFunctionOnSet(scenarioCount, found) = Cardinality(Grouped(inCluster, scenario, found))
    BY <1>1, <1>2, <2>1, CountByGroup
  <2>3. QED
    BY <1>9, <2>2
<1>18. SumFunction(stats.dynamics) = stats.records
  <2>1. \A d \in days : dynamics[d] = Cardinality(Group(ids, day, d))
    BY <1>10
  <2>2. SumFunctionOnSet(dynamics, days) = Cardinality(Grouped(ids, day, days))
    BY <1>1, <1>2, <2>1, CountByGroup
  <2>3. QED
    BY <1>3, <1>6, <1>10, <2>2 DEF SumFunction
(* The tasks.                                                                  *)
<1>19. /\ IsFiniteSet(DOMAIN taskTop) /\ \A k \in DOMAIN taskTop : taskTop[k] \in Int
       /\ SumFunction(taskTop) = SumFunctionOnSet(taskCount, DOMAIN taskCount)
       /\ "unknown" \in DOMAIN taskCount => taskTop["unknown"] = taskCount["unknown"]
  BY <1>2, <1>8, <1>14, TopKeepsSum
<1> HIDE DEF taskTop
<1>20. SumFunction(shown) = stats.records
  <2>1. DOMAIN shown = DOMAIN taskTop /\ \A k \in DOMAIN taskTop : shown[k] \in Int /\ shown[k] = taskTop[k]
    BY <1>4, <1>7, <1>19
  <2> HIDE DEF shown
  <2>2. SumFunction(shown) = SumFunctionOnSet(taskTop, DOMAIN taskTop)
    BY <1>19, <2>1, SumOfFunction
  <2>3. SumFunctionOnSet(taskTop, DOMAIN taskTop) = SumFunction(taskTop)
    BY DEF SumFunction
  <2>4. QED
    BY <1>3, <1>8, <1>16, <1>19, <2>2, <2>3
<1>21. stats.unknown > 0 => stats.tasks["unknown"] = stats.unknown
  BY <1>3, <1>4, <1>8, <1>11, <1>12, <1>19
(* The scenarios.                                                              *)
<1>22. /\ SumFunction(listed) + stats.top.other = SumFunctionOnSet(scenarioCount, DOMAIN scenarioCount)
       /\ Cardinality(DOMAIN stats.top.items) + (IF stats.top.other > 0 THEN 1 ELSE 0)
          <= Cardinality(DOMAIN scenarioCount)
  BY <1>2, <1>5, <1>9, <1>15, ScenariosKeepSum
<1>23. Cardinality(inCluster) + Cardinality(outside) <= Cardinality(ids)
  <2>1. Cardinality(inCluster \cup outside) = Cardinality(inCluster) + Cardinality(outside) - Cardinality(inCluster \cap outside)
    BY <1>1, FS_Union
  <2>2. Cardinality(inCluster \cup outside) <= Cardinality(ids)
    BY <1>1, <1>13, FS_Subset
  <2>3. Cardinality(inCluster \cap outside) = 0
    BY <1>13, FS_EmptySet
  <2>4. Cardinality(inCluster) \in Nat /\ Cardinality(outside) \in Nat
    BY <1>1, FS_CardinalityType
  <2>5. QED
    BY <2>1, <2>2, <2>3, <2>4
<1> HIDE DEF listed
<1>24. SumFunction(listed) + stats.top.other + stats.outliers <= stats.records
  BY <1>3, <1>9, <1>17, <1>22, <1>23
<1>25. QED
  BY <1>5, <1>20, <1>21, <1>22, <1>24, <1>18 DEF stats, listed, shown

\* Whatever the limits of the top lists, the task distribution and the days add up to the
\* records, and scenarios, the rest of them and outliers to no more.
THEOREM TasksAlwaysAddUp == Spec => []TasksAddUp
<1>1. FlowInv /\ TablesInv => TasksAddUp
  BY StatisticsAddUp DEF TasksAddUp
<1>2. QED
  BY <1>1, FlowInvariant, TablesInvariant, PTL

\* Once the mirror is in step, a published scenario has the same rows in ML, in ROI and
\* in the logs.
LEMMA ScenarioInStep ==
    ASSUME FlowInv, TablesInv, synced, NEW s \in DOMAIN clusters
    PROVE  LET list == ScenarioCards(BuildScenariosList(assigned, clusters, AnyRow, ml.settings.knobs), AnyRow)
               roi  == ComputeRoi(rows, mirror, AnyRow).scenarios
               shown == {id \in DOMAIN rows : LogItem(rows, mirror, id).scenario = s}
           IN  /\ list[s].count = Cardinality(shown)
               /\ list[s].count = (IF s \in DOMAIN roi THEN roi[s].count ELSE 0)
               /\ \A id \in shown : LogItem(rows, mirror, id).name = clusters[s].name
<1> DEFINE list == ScenarioCards(BuildScenariosList(assigned, clusters, AnyRow, ml.settings.knobs), AnyRow)
           roi  == ComputeRoi(rows, mirror, AnyRow).scenarios
           shown == {id \in DOMAIN rows : LogItem(rows, mirror, id).scenario = s}
           own == {id \in DOMAIN assigned : assigned[id].scenario = s}
           joined(id) == Joined(mirror, id, "scenario", None)
<1>1. s # None
  <2>1. s \in KnownTypes \X Nat
    BY FlowAssumption DEF TablesInv
  <2>2. QED
    BY <2>1, FlowAssumption DEF KnownTypes
<1>2. /\ DOMAIN mirror = DOMAIN assigned /\ DOMAIN assigned \subseteq DOMAIN rows
      /\ \A id \in DOMAIN assigned : mirror[id] = Fetched[id]
  BY DEF TablesInv, InStep, FlowInv, Domains
<1>3. ASSUME NEW id \in DOMAIN assigned
      PROVE  /\ mirror[id].scenario = assigned[id].scenario
             /\ assigned[id].scenario = s => mirror[id].name = clusters[s].name
  <2>1. mirror[id] = MirrorRow(assigned[id], [c \in DOMAIN clusters |-> clusters[c].name])
    BY <1>2 DEF Fetched
  <2>2. QED
    BY <2>1 DEF MirrorRow
(* Every row counts.                                                           *)
<1>4. Selected(assigned, AnyRow) = DOMAIN assigned /\ Loaded(rows, AnyRow) = DOMAIN rows
  BY DEF Selected, Loaded, InClause, InRange, InPeriod, AnyRow
<1>5. list[s].count = Cardinality(own)
  <2>1. \A id \in own : ~assigned[id].outlier
    BY <1>1 DEF FlowInv, AssignedInv, Faithful
  <2>2. list[s] = BuildScenariosList(assigned, clusters, AnyRow, ml.settings.knobs)[s]
    BY DEF ScenarioCards, BuildScenariosList
  <2>3. list[s].count = Cardinality({id \in Selected(assigned, AnyRow) :
                                         ~assigned[id].outlier /\ assigned[id].scenario = s})
    BY <2>2 DEF BuildScenariosList
  <2>4. {id \in Selected(assigned, AnyRow) : ~assigned[id].outlier /\ assigned[id].scenario = s} = own
    BY <1>4, <2>1
  <2>5. QED
    BY <2>3, <2>4
<1>6. \A id \in DOMAIN rows : joined(id) = s <=> id \in own
  <2>1. \A id \in DOMAIN assigned : mirror[id]["scenario"] = assigned[id].scenario
    BY <1>3
  <2>2. QED
    BY <1>1, <1>2, <2>1 DEF Joined, OrElse
<1>7. shown = own
  <2>1. \A id \in DOMAIN rows : LogItem(rows, mirror, id).scenario = joined(id)
    BY DEF LogItem
  <2>2. QED
    BY <1>2, <1>6, <2>1
<1>8. \A id \in shown : LogItem(rows, mirror, id).name = clusters[s].name
  <2> SUFFICES ASSUME NEW id \in own PROVE LogItem(rows, mirror, id).name = clusters[s].name
    BY <1>7
  <2>1. LogItem(rows, mirror, id).name = Joined(mirror, id, "name", None)
    BY DEF LogItem
  <2>2. mirror[id]["name"] = clusters[s].name
    BY <1>3
  <2>3. QED
    BY <1>2, <2>1, <2>2 DEF Joined, OrElse
<1>9. Cardinality(own) = (IF s \in DOMAIN roi THEN roi[s].count ELSE 0)
  <2>1. DOMAIN roi = {joined(id) : id \in DOMAIN rows} \ {None}
    BY <1>4 DEF ComputeRoi
  <2>2. \A c \in DOMAIN roi : roi[c].count = Cardinality({id \in DOMAIN rows : joined(id) = c})
    BY <1>4 DEF ComputeRoi, Bucket
  <2>3. {id \in DOMAIN rows : joined(id) = s} = own
    BY <1>2, <1>6
  <2>4. CASE s \in DOMAIN roi
    <3> HIDE DEF roi, joined, own
    <3>1. QED
      BY <2>2, <2>3, <2>4
  <2>5. CASE s \notin DOMAIN roi
    <3>1. own = {}
      BY <1>1, <1>2, <1>6, <2>1, <2>5
    <3> HIDE DEF roi, own
    <3>2. QED
      BY <2>5, <3>1, FS_EmptySet
  <2>6. QED
    BY <2>4, <2>5
<1>10. QED
  BY <1>5, <1>7, <1>8, <1>9

\* Once a sync has copied what ML last decided, what ML counts for a scenario, what ROI
\* adds up for it and what the logs show under it are the same, for any rows.
THEOREM ScenariosAlwaysAgree == Spec => []ScenariosAgree
<1>1. FlowInv /\ TablesInv => ScenariosAgree
  BY ScenarioInStep DEF ScenariosAgree
<1>2. QED
  BY <1>1, FlowInvariant, TablesInvariant, PTL

\* What sorted() puts before what, as a relation.
Before(counts, rank, keys) == {q \in keys \X keys : Ahead(counts, rank, q[1], q[2])}

\* A slice of n has as many as its limit says, and never more than there are.
LEMMA SliceOf ==
    ASSUME NEW n \in Nat, NEW limit \in Int
    PROVE  LET size == IF limit >= 0 THEN limit ELSE n + limit
           IN  Sliced(n, limit) = IF size < 0 THEN 0 ELSE IF size > n THEN n ELSE size
<1>1. CASE limit >= 0
  <2>1. Min({n, limit}) = IF n <= limit THEN n ELSE limit
    BY MinOfTwo
  <2>2. QED
    BY <1>1, <2>1 DEF Sliced
<1>2. CASE ~(limit >= 0)
  <2> DEFINE rest == n + limit
  <2>1. rest \in Int /\ rest < n
    BY <1>2
  <2>2. Sliced(n, limit) = Max({0, rest})
    BY <1>2 DEF Sliced
  <2> HIDE DEF rest
  <2>3. Max({0, rest}) = IF 0 >= rest THEN 0 ELSE rest
    BY <2>1, MaxOfTwo
  <2>4. Sliced(n, limit) = IF rest < 0 THEN 0 ELSE IF rest > n THEN n ELSE rest
    BY <2>1, <2>2, <2>3
  <2> USE DEF rest
  <2>5. QED
    BY <1>2, <2>4
<1>3. QED
  BY <1>1, <1>2

\* When no two keys rank the same, the leaders are exactly as many as the slice takes,
\* and each comes before every key that is left out.
LEMMA LeadersLead ==
    ASSUME NEW keys, IsFiniteSet(keys), NEW counts, NEW rank, NEW limit \in Int,
           \A k \in keys : counts[k] \in Int /\ rank[k] \in Int,
           \A j, k \in keys : rank[j] = rank[k] => j = k
    PROVE  LET head == Leaders(counts, rank, keys, limit)
           IN  /\ Cardinality(head) = Sliced(Cardinality(keys), limit)
               /\ \A j \in head, k \in keys \ head : Ahead(counts, rank, j, k)
<1> DEFINE n == Cardinality(keys)
           size == HeadSize(keys, limit)
           head == Leaders(counts, rank, keys, limit)
           before == Before(counts, rank, keys)
           pos == [k \in keys |-> Cardinality({j \in keys : <<j, k>> \in before})]
           slice == Sliced(n, limit)
<1>1. n \in Nat
  BY FS_CardinalityType
<1>2. \A j, k \in keys : <<j, k>> \in before <=> counts[j] > counts[k] \/ (counts[j] = counts[k] /\ rank[j] < rank[k])
  BY DEF Before, Ahead
<1>3. /\ before \in SUBSET (keys \X keys)
      /\ \A c \in keys : <<c, c>> \notin before
      /\ \A c, d, e \in keys : <<c, d>> \in before /\ <<d, e>> \in before => <<c, e>> \in before
      /\ \A c, d \in keys : c = d \/ <<c, d>> \in before \/ <<d, c>> \in before
  <2>1. before \in SUBSET (keys \X keys)
    BY DEF Before
  <2> HIDE DEF before
  <2>2. \A c \in keys : <<c, c>> \notin before
    BY <1>2
  <2>3. \A c, d, e \in keys : <<c, d>> \in before /\ <<d, e>> \in before => <<c, e>> \in before
    BY <1>2
  <2>4. \A c, d \in keys : c = d \/ <<c, d>> \in before \/ <<d, c>> \in before
    <3> SUFFICES ASSUME NEW c \in keys, NEW d \in keys, c # d
                 PROVE  <<c, d>> \in before \/ <<d, c>> \in before
      OBVIOUS
    <3>1. rank[c] # rank[d]
      OBVIOUS
    <3>2. counts[c] \in Int /\ counts[d] \in Int /\ rank[c] \in Int /\ rank[d] \in Int
      OBVIOUS
    <3>3. <<c, d>> \in before <=> counts[c] > counts[d] \/ (counts[c] = counts[d] /\ rank[c] < rank[d])
      BY <1>2
    <3>4. <<d, c>> \in before <=> counts[d] > counts[c] \/ (counts[d] = counts[c] /\ rank[d] < rank[c])
      BY <1>2
    <3>5. QED
      BY <3>1, <3>2, <3>3, <3>4
  <2>5. QED
    BY <2>1, <2>2, <2>3, <2>4
<1>4. ASSUME NEW k \in keys
      PROVE  {j \in keys \ {k} : Ahead(counts, rank, j, k)} = {j \in keys : <<j, k>> \in before}
  <2>1. \A j \in keys : <<j, k>> \in before <=> Ahead(counts, rank, j, k)
    BY DEF Before
  <2>2. <<k, k>> \notin before
    BY <1>3
  <2> HIDE DEF before
  <2>3. QED
    BY <2>1, <2>2
<1> HIDE DEF before
<1>5. head = {k \in keys : pos[k] < size}
  BY <1>4 DEF Leaders
<1>6. pos \in Injection(keys, 0 .. n - 1) /\ pos \in Surjection(keys, 0 .. n - 1)
  BY <1>3, PositionsFill
<1>7. \A j, k \in keys : <<j, k>> \in before => pos[j] < pos[k]
  <2> SUFFICES ASSUME NEW j \in keys, NEW k \in keys, <<j, k>> \in before
               PROVE  pos[j] < pos[k]
    OBVIOUS
  <2> DEFINE B(c) == {d \in keys : <<d, c>> \in before}
  <2>1. B(j) \in SUBSET B(k) /\ j \in B(k) /\ j \notin B(j) /\ B(k) \in SUBSET keys /\ B(j) \in SUBSET keys
    BY <1>3
  <2>2. pos[j] = Cardinality(B(j)) /\ pos[k] = Cardinality(B(k))
    OBVIOUS
  <2> HIDE DEF B
  <2>3. IsFiniteSet(B(k)) /\ IsFiniteSet(B(j))
    BY <2>1, FS_Subset
  <2>4. Cardinality(B(j)) <= Cardinality(B(k)) /\ Cardinality(B(j)) # Cardinality(B(k))
    BY <2>1, <2>3, FS_Subset
  <2>5. Cardinality(B(j)) \in Nat /\ Cardinality(B(k)) \in Nat
    BY <2>3, FS_CardinalityType
  <2>6. QED
    BY <2>2, <2>4, <2>5
<1>8. size \in Int
  BY <1>1 DEF HeadSize
<1>9. slice \in Nat /\ slice <= n /\ \A i \in 0 .. n - 1 : i < size <=> i < slice
  BY <1>1, SliceOf DEF HeadSize
<1>10. DOMAIN pos = keys /\ \A k \in keys : pos[k] \in 0 .. n - 1
  BY <1>6 DEF Injection
<1> HIDE DEF pos, size, slice, n
<1>11. head = {k \in keys : pos[k] < slice}
  BY <1>5, <1>9, <1>10
<1>12. Cardinality(head) = slice
  <2> DEFINE part == [k \in head |-> pos[k]]
  <2>1. \A j, k \in keys : pos[j] = pos[k] => j = k
    BY <1>6, <1>10 DEF Injection, IsInjective
  <2>2. part \in Injection(head, 0 .. slice - 1)
    BY <1>9, <1>10, <1>11, <2>1 DEF Injection, IsInjective
  <2>3. part \in Surjection(head, 0 .. slice - 1)
    <3>1. ASSUME NEW i \in 0 .. slice - 1 PROVE \E k \in head : part[k] = i
      <4>1. i \in 0 .. n - 1 /\ i < slice
        BY <1>1, <1>9
      <4>2. PICK k \in keys : pos[k] = i
        BY <1>6, <4>1 DEF Surjection
      <4>3. QED
        BY <1>11, <4>1, <4>2
    <3>2. part \in [head -> 0 .. slice - 1]
      BY <2>2 DEF Injection
    <3>3. QED
      BY <3>1, <3>2 DEF Surjection
  <2>4. IsFiniteSet(head)
    <3>1. head \in SUBSET keys
      BY <1>11
    <3>2. QED
      BY <3>1, FS_Subset
  <2>5. IsFiniteSet(0 .. slice - 1) /\ Cardinality(0 .. slice - 1) = slice
    <3>1. 0 \in Int /\ slice - 1 \in Int
      BY <1>9
    <3>2. Cardinality(0 .. slice - 1) = IF 0 > slice - 1 THEN 0 ELSE (slice - 1) - 0 + 1
      BY <3>1, FS_Interval
    <3>3. QED
      BY <1>9, <3>1, <3>2, FS_Interval
  <2> HIDE DEF part, head
  <2>6. part \in Bijection(head, 0 .. slice - 1)
    BY <2>2, <2>3 DEF Bijection
  <2>7. ExistsBijection(head, 0 .. slice - 1)
    BY <2>6 DEF ExistsBijection
  <2>8. QED
    BY <2>4, <2>5, <2>7, FS_Bijection
<1>13. ASSUME NEW j \in head, NEW k \in keys \ head
       PROVE  Ahead(counts, rank, j, k)
  <2>1. j \in keys /\ pos[j] < slice /\ ~(pos[k] < slice)
    BY <1>11
  <2>2. ~(pos[k] < pos[j]) /\ j # k
    BY <1>1, <1>9, <1>10, <2>1
  <2>3. <<j, k>> \in before
    BY <1>3, <1>7, <2>1, <2>2
  <2>4. QED
    BY <2>3 DEF before, Before
<1>14. QED
  BY <1>12, <1>13 DEF slice, n

\* The lists say so: no more scenarios than the limit and no fewer than it allows, and
\* what is left out is no more frequent than what is listed (top_n_distribution,
\* top_n_scenarios; MaxRanked is the largest index whose place in the order is modelled).
TopsLead ==
    LET knobs == ml.settings.knobs IN
    ~StatisticsRaise(knobs) /\ MaxIndex <= MaxRanked =>
        \A filter \in Filters :
            LET ids == Selected(assigned, filter)
                stats == BuildStatistics(assigned, clusters, filter, knobs)
                listed == DOMAIN stats.top.items
                size(s) == Cardinality({id \in ids : ~assigned[id].outlier /\ assigned[id].scenario = s})
                typed(t) == Cardinality({id \in ids : assigned[id].type = t})
            IN  /\ Cardinality(listed) = Sliced(stats.scenarios, knobs.top_scenarios)
                /\ \A s \in listed, r \in DOMAIN clusters \ listed : size(s) >= size(r)
                /\ \A t \in DOMAIN stats.tasks \ {"unknown", "other"}, u \in KnownTypes \ DOMAIN stats.tasks :
                      typed(t) >= typed(u)

\* No two types rank the same.
LEMMA TypesRankApart ==
    /\ \A t \in KnownTypes : TypeRank[t] \in 1 .. 8
    /\ \A t, u \in KnownTypes : TypeRank[t] = TypeRank[u] => t = u
BY DEF KnownTypes, CoreTypes, ServiceTypes, TypeRank

\* An index of a deployment whose largest one has a place in the order has a place in it.
LEMMA IndicesRanked ==
    ASSUME MaxIndex <= MaxRanked
    PROVE  0 .. MaxIndex \subseteq 0 .. MaxRanked
<1>1. MaxIndex \in Nat
  BY FlowAssumption
<1>2. MaxRanked \in Nat
  BY DEF MaxRanked
<1>3. QED
  BY <1>1, <1>2

\* Two numbers written one after the other with Then can be told apart again.
LEMMA DigitsApart ==
    ASSUME NEW m \in Int, NEW n \in Int, NEW i \in 0 .. MaxRanked, NEW j \in 0 .. MaxRanked,
           Then(m, i) = Then(n, j)
    PROVE  m = n /\ i = j
<1>1. 1000 * m + i = 1000 * n + j /\ i \in 0 .. 999 /\ j \in 0 .. 999
  BY DEF Then, MaxRanked
<1>2. ~(m < n)
  <2> SUFFICES ASSUME m < n PROVE FALSE
    OBVIOUS
  <2>1. m + 1 <= n
    OBVIOUS
  <2>2. 1000 * (m + 1) <= 1000 * n
    BY <2>1
  <2>3. QED
    BY <1>1, <2>2
<1>3. ~(n < m)
  <2> SUFFICES ASSUME n < m PROVE FALSE
    OBVIOUS
  <2>1. n + 1 <= m
    OBVIOUS
  <2>2. 1000 * (n + 1) <= 1000 * m
    BY <2>1
  <2>3. QED
    BY <1>1, <2>2
<1>4. QED
  BY <1>1, <1>2, <1>3

\* Writing an index after a rank gives a rank.
LEMMA ThenIsInt ==
    ASSUME NEW m \in Int, NEW i \in 0 .. MaxRanked
    PROVE  Then(m, i) \in Int
BY DEF Then, MaxRanked

\* No two scenarios of a set rank the same, whatever their types and indices.
LEMMA ScenariosRankApart ==
    ASSUME NEW S \in SUBSET (KnownTypes \X (0 .. MaxRanked))
    PROVE  /\ \A s \in S : ScenarioRank(S)[s] \in Int
           /\ \A r, s \in S : ScenarioRank(S)[r] = ScenarioRank(S)[s] => r = s
<1> DEFINE digits(s) == ByDigits(s[2])
           place(s) == TypeRank[s[1]]
<1>1. \A s \in S : s[1] \in KnownTypes /\ s[2] \in 0 .. MaxRanked /\ s = <<s[1], s[2]>>
  OBVIOUS
<1>2. \A s \in S : place(s) \in Int
  <2>1. \A s \in S : place(s) \in 1 .. 8
    BY <1>1, TypesRankApart
  <2>2. QED
    BY <2>1
<1>3. \A s \in S : digits(s) \in 0 .. MaxRanked
  BY <1>1 DEF ByDigits, MaxRanked
<1>4. \A s \in S : ScenarioRank(S)[s] = Then(Then(place(s), digits(s)), s[2])
  BY DEF ScenarioRank
<1>5. \A r, s \in S : place(r) = place(s) => r[1] = s[1]
  BY <1>1, TypesRankApart
<1> HIDE DEF digits, place
<1>6. ASSUME NEW r \in S, NEW s \in S, ScenarioRank(S)[r] = ScenarioRank(S)[s]
      PROVE  r = s
  <2>1. /\ r[2] \in 0 .. MaxRanked /\ s[2] \in 0 .. MaxRanked
        /\ digits(r) \in 0 .. MaxRanked /\ digits(s) \in 0 .. MaxRanked
        /\ place(r) \in Int /\ place(s) \in Int
    BY <1>1, <1>2, <1>3
  <2>2. Then(Then(place(r), digits(r)), r[2]) = Then(Then(place(s), digits(s)), s[2])
    BY <1>4, <1>6
  <2>3. Then(place(r), digits(r)) \in Int /\ Then(place(s), digits(s)) \in Int
    BY <2>1, ThenIsInt
  <2>4. Then(place(r), digits(r)) = Then(place(s), digits(s)) /\ r[2] = s[2]
    BY <2>1, <2>2, <2>3, DigitsApart
  <2>5. place(r) = place(s)
    BY <2>1, <2>4, DigitsApart
  <2>6. QED
    BY <1>1, <1>5, <2>4, <2>5
<1>7. ASSUME NEW s \in S PROVE ScenarioRank(S)[s] \in Int
  <2>1. s[2] \in 0 .. MaxRanked /\ digits(s) \in 0 .. MaxRanked /\ place(s) \in Int
    BY <1>1, <1>2, <1>3
  <2>2. Then(place(s), digits(s)) \in Int
    BY <2>1, ThenIsInt
  <2>3. Then(Then(place(s), digits(s)), s[2]) \in Int
    BY <2>1, <2>2, ThenIsInt
  <2>4. QED
    BY <1>4, <2>3
<1>8. QED
  BY <1>6, <1>7

\* The lists of one filter.
LEMMA ListsLead ==
    ASSUME FlowInv, TablesInv, NEW filter, MaxIndex <= MaxRanked
    PROVE  LET knobs == ml.settings.knobs
               ids == Selected(assigned, filter)
               stats == BuildStatistics(assigned, clusters, filter, knobs)
               listed == DOMAIN stats.top.items
               size(s) == Cardinality({id \in ids : ~assigned[id].outlier /\ assigned[id].scenario = s})
               typed(t) == Cardinality({id \in ids : assigned[id].type = t})
           IN  /\ Cardinality(listed) = Sliced(stats.scenarios, knobs.top_scenarios)
               /\ \A s \in listed, r \in DOMAIN clusters \ listed : size(s) >= size(r)
               /\ \A t \in DOMAIN stats.tasks \ {"unknown", "other"}, u \in KnownTypes \ DOMAIN stats.tasks :
                     typed(t) >= typed(u)
<1> DEFINE knobs == ml.settings.knobs
           ids == Selected(assigned, filter)
           stats == BuildStatistics(assigned, clusters, filter, knobs)
           listed == DOMAIN stats.top.items
           size(s) == Cardinality({id \in ids : ~assigned[id].outlier /\ assigned[id].scenario = s})
           typed(t) == Cardinality({id \in ids : assigned[id].type = t})
           types == {assigned[id].type : id \in ids}
           taskCount == [t \in types |-> typed(t)]
           inCluster == {id \in ids : ~assigned[id].outlier /\ assigned[id].scenario \in DOMAIN clusters}
           found == {assigned[id].scenario : id \in inCluster}
           scenarioCount == [s \in found |-> Cardinality({id \in inCluster : assigned[id].scenario = s})]
           rank == ScenarioRank(found)
(* What is counted.                                                            *)
<1>0. 0 .. MaxIndex \subseteq 0 .. MaxRanked
  BY IndicesRanked
<1>1. IsFiniteSet(ids)
  <2>1. ids \in SUBSET DOMAIN rows
    BY DEF Selected, FlowInv, Domains
  <2>2. QED
    BY <2>1, FS_Subset DEF TablesInv
<1>2. knobs.top_scenarios \in Int /\ knobs.top_tasks \in Int
  <2>1. PICK d \in Deployments : ml = StartMl(d)
    BY DEF FlowInv
  <2>2. knobs = LoadSettings(d.yaml, d.env).settings.knobs
    BY <2>1 DEF StartMl
  <2>3. {"top_scenarios", "top_tasks"} \subseteq KnobNames
    BY DEF KnobNames, DefaultKnobs
  <2> HIDE DEF knobs
  <2>4. QED
    BY <2>2, <2>3, KnobsAreNumbers
<1>3. /\ stats.tasks = TopDistribution(taskCount, TypeRank, knobs.top_tasks)
      /\ stats.top = TopScenarios(scenarioCount, ScenarioRank(DOMAIN scenarioCount), knobs.top_scenarios, clusters)
      /\ stats.scenarios = Cardinality(DOMAIN scenarioCount)
  BY DEF BuildStatistics
<1> HIDE DEF stats, knobs
<1>4. types \subseteq KnownTypes
  BY DEF Selected, FlowInv, AssignedInv, Faithful
<1>5. found \in SUBSET (KnownTypes \X (0 .. MaxRanked)) /\ found \subseteq DOMAIN clusters
  <2>1. DOMAIN clusters \subseteq KnownTypes \X (0 .. MaxIndex)
    BY DEF TablesInv
  <2>2. 0 .. MaxIndex \subseteq 0 .. MaxRanked
    BY <1>0
  <2>3. found \subseteq DOMAIN clusters
    OBVIOUS
  <2> HIDE DEF found
  <2>4. QED
    BY <2>1, <2>2, <2>3
<1>6. \A s \in found : scenarioCount[s] = size(s)
  <2> SUFFICES ASSUME NEW s \in found PROVE scenarioCount[s] = size(s)
    OBVIOUS
  <2>1. s \in DOMAIN clusters
    BY <1>5
  <2>2. {id \in inCluster : assigned[id].scenario = s}
        = {id \in ids : ~assigned[id].outlier /\ assigned[id].scenario = s}
    BY <2>1
  <2> HIDE DEF inCluster, found
  <2>3. scenarioCount[s] = Cardinality({id \in inCluster : assigned[id].scenario = s})
    OBVIOUS
  <2>4. QED
    BY <2>2, <2>3
<1>7. \A s : size(s) \in Nat
  <2>1. \A s : {id \in ids : ~assigned[id].outlier /\ assigned[id].scenario = s} \in SUBSET ids
    OBVIOUS
  <2> HIDE DEF ids
  <2>2. QED
    BY <1>1, <2>1, FS_Subset, FS_CardinalityType
<1>8. \A t : typed(t) \in Nat
  <2>1. \A t : {id \in ids : assigned[id].type = t} \in SUBSET ids
    OBVIOUS
  <2> HIDE DEF ids
  <2>2. QED
    BY <1>1, <2>1, FS_Subset, FS_CardinalityType
<1>9. \A s \in DOMAIN clusters \ found : size(s) = 0
  <2> SUFFICES ASSUME NEW s \in DOMAIN clusters, s \notin found PROVE size(s) = 0
    OBVIOUS
  <2>1. {id \in ids : ~assigned[id].outlier /\ assigned[id].scenario = s} = {}
    OBVIOUS
  <2>2. QED
    BY <2>1, FS_EmptySet
<1>10. \A s \in found : size(s) # 0
  <2> SUFFICES ASSUME NEW id \in inCluster PROVE size(assigned[id].scenario) # 0
    OBVIOUS
  <2> DEFINE own == {i \in ids : ~assigned[i].outlier /\ assigned[i].scenario = assigned[id].scenario}
  <2>1. id \in own /\ own \in SUBSET ids
    OBVIOUS
  <2> HIDE DEF ids, own
  <2>2. IsFiniteSet(own) /\ own # {}
    BY <1>1, <2>1, FS_Subset
  <2>3. Cardinality(own) # 0
    BY <2>2, FS_EmptySet
  <2>4. QED
    BY <2>3 DEF own
<1>11. \A t : t \notin types => typed(t) = 0
  <2> SUFFICES ASSUME NEW t, t \notin types PROVE typed(t) = 0
    OBVIOUS
  <2>1. {id \in ids : assigned[id].type = t} = {}
    OBVIOUS
  <2>2. QED
    BY <2>1, FS_EmptySet
<1>12. \A t \in types : typed(t) # 0
  <2> SUFFICES ASSUME NEW id \in ids PROVE typed(assigned[id].type) # 0
    OBVIOUS
  <2> DEFINE own == {i \in ids : assigned[i].type = assigned[id].type}
  <2>1. id \in own /\ own \in SUBSET ids
    OBVIOUS
  <2> HIDE DEF ids, own
  <2>2. IsFiniteSet(own) /\ own # {}
    BY <1>1, <2>1, FS_Subset
  <2>3. Cardinality(own) # 0
    BY <2>2, FS_EmptySet
  <2>4. QED
    BY <2>3 DEF own
<1>13. IsFiniteSet(types) /\ IsFiniteSet(found)
  <2> DEFINE type == [id \in ids |-> assigned[id].type]
             scenario == [id \in inCluster |-> assigned[id].scenario]
  <2>1. types = {type[id] : id \in ids} /\ found = {scenario[id] : id \in inCluster}
    OBVIOUS
  <2>2. inCluster \in SUBSET ids
    OBVIOUS
  <2> HIDE DEF ids, inCluster, type, scenario, types, found
  <2>3. IsFiniteSet(inCluster)
    BY <1>1, <2>2, FS_Subset
  <2>4. IsFiniteSet({type[id] : id \in ids}) /\ IsFiniteSet({scenario[id] : id \in inCluster})
    BY <1>1, <2>3, FiniteImage
  <2>5. QED
    BY <2>1, <2>4
<1>14. DOMAIN scenarioCount = found /\ DOMAIN taskCount = types /\ \A t \in types : taskCount[t] = typed(t)
  <2> HIDE DEF types, found, typed
  <2>1. QED
    OBVIOUS
<1> HIDE DEF ids, size, typed, types, taskCount, inCluster, found, scenarioCount, rank
(* The scenarios.                                                              *)
<1> DEFINE head == Leaders(scenarioCount, rank, found, knobs.top_scenarios)
<1>15. listed = head
  <2>1. found = {s \in DOMAIN scenarioCount : scenarioCount[s] > 0}
    BY <1>6, <1>7, <1>10, <1>14
  <2>2. DOMAIN TopScenarios(scenarioCount, rank, knobs.top_scenarios, clusters).items
        = Leaders(scenarioCount, rank, {s \in DOMAIN scenarioCount : scenarioCount[s] > 0}, knobs.top_scenarios)
    BY DEF TopScenarios
  <2>3. stats.top = TopScenarios(scenarioCount, rank, knobs.top_scenarios, clusters)
    BY <1>3, <1>14 DEF rank
  <2>4. QED
    BY <2>1, <2>2, <2>3
<1>16. /\ Cardinality(head) = Sliced(Cardinality(found), knobs.top_scenarios)
       /\ \A j \in head, k \in found \ head : Ahead(scenarioCount, rank, j, k)
  <2>1. \A k \in found : scenarioCount[k] \in Int /\ rank[k] \in Int
    BY <1>5, <1>6, <1>7, ScenariosRankApart DEF rank
  <2>2. \A j, k \in found : rank[j] = rank[k] => j = k
    BY <1>5, ScenariosRankApart DEF rank
  <2>3. QED
    BY <1>2, <1>13, <2>1, <2>2, LeadersLead
<1>17. head \subseteq found
  BY DEF Leaders
<1> HIDE DEF head
<1>18. Cardinality(listed) = Sliced(stats.scenarios, knobs.top_scenarios)
  BY <1>3, <1>14, <1>15, <1>16
<1>19. ASSUME NEW s \in listed, NEW r \in DOMAIN clusters \ listed
       PROVE  size(s) >= size(r)
  <2>1. s \in found /\ size(s) \in Nat /\ size(r) \in Nat
    BY <1>7, <1>15, <1>17
  <2>2. CASE r \in found
    <3>1. Ahead(scenarioCount, rank, s, r)
      BY <1>15, <1>16, <2>2
    <3>2. scenarioCount[s] >= scenarioCount[r]
      BY <1>6, <2>1, <2>2, <3>1 DEF Ahead
    <3>3. QED
      BY <1>6, <2>1, <2>2, <3>2
  <2>3. CASE r \notin found
    BY <1>9, <2>1, <2>3
  <2>4. QED
    BY <2>2, <2>3
(* The task types.                                                             *)
<1> DEFINE rest == types \ {"unknown"}
           first == Leaders(taskCount, TypeRank, rest, knobs.top_tasks)
<1>20. types = {t \in DOMAIN taskCount : taskCount[t] > 0}
  BY <1>8, <1>12, <1>14
<1>21. \E tail : DOMAIN stats.tasks = first \cup (types \cap {"unknown"}) \cup tail /\ tail \subseteq {"other"}
  <2> DEFINE shown == {t \in DOMAIN taskCount : taskCount[t] > 0}
             lead == Leaders(taskCount, TypeRank, shown \ {"unknown"}, knobs.top_tasks)
             sum == SumFunctionOnSet(taskCount, (shown \ {"unknown"}) \ lead)
             tail == IF sum > 0 THEN {"other"} ELSE {}
  <2>1. DOMAIN TopDistribution(taskCount, TypeRank, knobs.top_tasks)
        = lead \cup (shown \cap {"unknown"}) \cup tail
    BY DEF TopDistribution
  <2>2. shown = types
    BY <1>20
  <2>3. lead = first
    BY <2>2
  <2>4. tail \subseteq {"other"}
    OBVIOUS
  <2> HIDE DEF shown, lead, tail, first
  <2>5. DOMAIN stats.tasks = first \cup (types \cap {"unknown"}) \cup tail
    BY <1>3, <2>1, <2>2, <2>3
  <2>6. QED
    BY <2>4, <2>5
<1>22. \A j \in first, k \in rest \ first : Ahead(taskCount, TypeRank, j, k)
  <2>1. IsFiniteSet(rest) /\ rest \subseteq types
    BY <1>13, FS_Subset
  <2>2. \A k \in rest : taskCount[k] \in Int /\ TypeRank[k] \in Int
    <3>1. \A k \in rest : TypeRank[k] \in 1 .. 8
      BY <1>4, TypesRankApart
    <3>2. \A k \in rest : taskCount[k] \in Int
      BY <1>8, <1>14
    <3>3. QED
      BY <3>1, <3>2
  <2>3. \A j, k \in rest : TypeRank[j] = TypeRank[k] => j = k
    BY <1>4, TypesRankApart
  <2> HIDE DEF rest
  <2>4. QED
    BY <1>2, <2>1, <2>2, <2>3, LeadersLead
<1>23. first \subseteq rest
  BY DEF Leaders
<1> HIDE DEF first
<1>24. ASSUME NEW t \in DOMAIN stats.tasks \ {"unknown", "other"}, NEW u \in KnownTypes \ DOMAIN stats.tasks
       PROVE  typed(t) >= typed(u)
  <2>1. t \in first /\ u \notin first /\ (u \in types => u # "unknown")
    BY <1>21
  <2>2. typed(t) \in Nat /\ typed(u) \in Nat /\ t \in types
    BY <1>8, <1>23, <2>1
  <2>3. CASE u \in types
    <3>1. Ahead(taskCount, TypeRank, t, u)
      BY <1>22, <2>1, <2>3
    <3>2. taskCount[t] = typed(t) /\ taskCount[u] = typed(u)
      BY <1>14, <2>2, <2>3
    <3>3. QED
      BY <2>2, <3>1, <3>2 DEF Ahead
  <2>4. CASE u \notin types
    BY <1>11, <2>2, <2>4
  <2>5. QED
    BY <2>3, <2>4
<1> HIDE DEF listed
<1>25. QED
  BY <1>18, <1>19, <1>24 DEF listed, stats, size, typed, ids, knobs

\* What the dashboard leaves out of its lists of task types and scenarios is never more
\* frequent than what it lists, and the list of scenarios is as long as its limit says.
THEOREM TopsAlwaysLead == Spec => []TopsLead
<1>1. FlowInv /\ TablesInv => TopsLead
  BY ListsLead DEF TopsLead
<1>2. QED
  BY <1>1, FlowInvariant, TablesInvariant, PTL

\* The four figures of a bucket of rows, as sums over the rows in it.
LEMMA BucketSums ==
    ASSUME FlowInv, TablesInv, NEW ids \in SUBSET DOMAIN rows
    PROVE  LET bucket == Bucket(rows, mirror, ids)
               saved == [id \in DOMAIN rows |-> Saved(rows[id], Category(mirror, id))]
               tokens == [id \in DOMAIN rows |-> OrElse(rows[id].tokens, 0)]
           IN  /\ bucket.count = Cardinality(ids)
               /\ bucket.success = Cardinality({id \in ids : Succeeded(rows[id])})
               /\ bucket.saved = SumFunctionOnSet(saved, ids)
               /\ bucket.tokens = SumFunctionOnSet(tokens, ids)
               /\ \A id \in DOMAIN rows : saved[id] \in Nat /\ tokens[id] \in Int
<1> DEFINE bucket == Bucket(rows, mirror, ids)
           saved == [id \in DOMAIN rows |-> Saved(rows[id], Category(mirror, id))]
           tokens == [id \in DOMAIN rows |-> OrElse(rows[id].tokens, 0)]
           ownSaved == [id \in ids |-> Saved(rows[id], Category(mirror, id))]
           ownTokens == [id \in ids |-> OrElse(rows[id].tokens, 0)]
<1>1. IsFiniteSet(ids)
  BY FS_Subset DEF TablesInv
<1>2. \A id \in DOMAIN rows : Stored(rows[id])
  BY DEF FlowInv, RowsInv
<1>3. \A id \in DOMAIN rows : saved[id] \in Nat
  BY <1>2, SavedIsNatural
<1>4. \A id \in DOMAIN rows : tokens[id] \in Int
  BY <1>2 DEF Stored, OrElse
<1>5. /\ DOMAIN ownSaved = ids /\ DOMAIN ownTokens = ids
      /\ \A id \in ids : ownSaved[id] = saved[id] /\ ownTokens[id] = tokens[id]
  OBVIOUS
<1>6. /\ bucket.count = Cardinality(ids)
      /\ bucket.success = Cardinality({id \in ids : Succeeded(rows[id])})
      /\ bucket.saved = SumFunction(ownSaved)
      /\ bucket.tokens = SumFunction(ownTokens)
  BY DEF Bucket
<1> HIDE DEF saved, tokens, ownSaved, ownTokens, bucket
<1>7. SumFunction(ownSaved) = SumFunctionOnSet(saved, ids)
  <2>1. \A id \in ids : ownSaved[id] \in Int /\ ownSaved[id] = saved[id]
    BY <1>3, <1>5
  <2>2. QED
    BY <1>1, <1>5, <2>1, SumOfFunction
<1>8. SumFunction(ownTokens) = SumFunctionOnSet(tokens, ids)
  <2>1. \A id \in ids : ownTokens[id] \in Int /\ ownTokens[id] = tokens[id]
    BY <1>4, <1>5
  <2>2. QED
    BY <1>1, <1>5, <2>1, SumOfFunction
<1>9. QED
  BY <1>3, <1>4, <1>6, <1>7, <1>8 DEF saved, tokens, bucket

\* A figure of some buckets, added up.
Figures == {"count", "success", "saved", "tokens"}
Total(buckets, figure) == SumFunction([k \in DOMAIN buckets |-> buckets[k][figure]])

\* Rows put into buckets by a key: the figures of the buckets add up to those of one
\* bucket of all rows whose key is among the keys.
LEMMA BucketsAddUp ==
    ASSUME FlowInv, TablesInv, NEW ids \in SUBSET DOMAIN rows, NEW key, NEW K, IsFiniteSet(K),
           NEW buckets, DOMAIN buckets = K,
           \A k \in K : buckets[k] = Bucket(rows, mirror, Group(ids, key, k))
    PROVE  LET whole == Bucket(rows, mirror, Grouped(ids, key, K))
           IN  \A figure \in Figures : Total(buckets, figure) = whole[figure]
<1> DEFINE counts == [k \in DOMAIN buckets |-> buckets[k].count]
           successes == [k \in DOMAIN buckets |-> buckets[k].success]
           times == [k \in DOMAIN buckets |-> buckets[k].saved]
           spent == [k \in DOMAIN buckets |-> buckets[k].tokens]
<1>0. /\ DOMAIN counts = K /\ DOMAIN successes = K /\ DOMAIN times = K /\ DOMAIN spent = K
      /\ \A k \in K : /\ counts[k] = buckets[k].count
                       /\ successes[k] = buckets[k].success
                       /\ times[k] = buckets[k].saved
                       /\ spent[k] = buckets[k].tokens
  OBVIOUS
<1> HIDE DEF counts, successes, times, spent
<1> DEFINE saved == [id \in DOMAIN rows |-> Saved(rows[id], Category(mirror, id))]
           tokens == [id \in DOMAIN rows |-> OrElse(rows[id].tokens, 0)]
           good == {id \in ids : Succeeded(rows[id])}
           part == Grouped(ids, key, K)
<1>1. IsFiniteSet(ids) /\ IsFiniteSet(good)
  BY FS_Subset DEF TablesInv
<1>2. \A k \in K : Group(ids, key, k) \in SUBSET DOMAIN rows
  BY DEF Group
<1>3. part \in SUBSET DOMAIN rows
  BY DEF Grouped
<1>4. \A k \in K : {id \in Group(ids, key, k) : Succeeded(rows[id])} = Group(good, key, k)
  BY DEF Group
<1>5. {id \in part : Succeeded(rows[id])} = Grouped(good, key, K)
  BY DEF Grouped
<1>6. ASSUME NEW k \in K
      PROVE  /\ counts[k] = Cardinality(Group(ids, key, k))
             /\ successes[k] = Cardinality(Group(good, key, k))
             /\ times[k] = SumFunctionOnSet(saved, Group(ids, key, k))
             /\ spent[k] = SumFunctionOnSet(tokens, Group(ids, key, k))
  <2> DEFINE own == Group(ids, key, k)
  <2>1. own \in SUBSET DOMAIN rows
    BY <1>2
  <2>2. buckets[k] = Bucket(rows, mirror, own)
    OBVIOUS
  <2>3. {id \in own : Succeeded(rows[id])} = Group(good, key, k)
    BY <1>4
  <2> HIDE DEF own
  <2>4. /\ Bucket(rows, mirror, own).count = Cardinality(own)
        /\ Bucket(rows, mirror, own).success = Cardinality({id \in own : Succeeded(rows[id])})
        /\ Bucket(rows, mirror, own).saved = SumFunctionOnSet(saved, own)
        /\ Bucket(rows, mirror, own).tokens = SumFunctionOnSet(tokens, own)
    BY <2>1, BucketSums
  <2> HIDE DEF saved, tokens, good
  <2>5. /\ counts[k] = Cardinality(own)
        /\ successes[k] = Cardinality(Group(good, key, k))
        /\ times[k] = SumFunctionOnSet(saved, own)
        /\ spent[k] = SumFunctionOnSet(tokens, own)
    BY <1>0, <2>2, <2>3, <2>4
  <2>6. QED
    BY <2>5 DEF own
<1>7. \A id \in ids : saved[id] \in Int /\ tokens[id] \in Int
  <2>1. \A id \in DOMAIN rows : saved[id] \in Nat /\ tokens[id] \in Int
    BY <1>3, BucketSums
  <2> HIDE DEF saved, tokens
  <2>2. QED
    BY <2>1
<1>8. LET whole == Bucket(rows, mirror, part)
      IN  /\ whole.count = Cardinality(part)
          /\ whole.success = Cardinality(Grouped(good, key, K))
          /\ whole.saved = SumFunctionOnSet(saved, part)
          /\ whole.tokens = SumFunctionOnSet(tokens, part)
  BY <1>3, <1>5, BucketSums
<1> HIDE DEF saved, tokens, good
<1>9. SumFunctionOnSet(counts, K) = Cardinality(part)
  BY <1>1, <1>6, CountByGroup
<1>10. SumFunctionOnSet(successes, K) = Cardinality(Grouped(good, key, K))
  BY <1>1, <1>6, CountByGroup
<1>11. SumFunctionOnSet(times, K) = SumFunctionOnSet(saved, part)
  BY <1>1, <1>6, <1>7, SumByGroup
<1>12. SumFunctionOnSet(spent, K) = SumFunctionOnSet(tokens, part)
  BY <1>1, <1>6, <1>7, SumByGroup
<1>13. /\ SumFunction(counts) = Cardinality(part)
       /\ SumFunction(successes) = Cardinality(Grouped(good, key, K))
       /\ SumFunction(times) = SumFunctionOnSet(saved, part)
       /\ SumFunction(spent) = SumFunctionOnSet(tokens, part)
  BY <1>0, <1>9, <1>10, <1>11, <1>12 DEF SumFunction
<1>14. QED
  BY <1>8, <1>13 DEF counts, successes, times, spent, Total, Figures

\* The ROI screen adds up: the categories to the summary in every figure, the
\* departments to its tokens, and the scenarios to no more records, successes and
\* saved time, with the records of no scenario left out (compute_roi).
RoiAddsUp ==
    \A filter \in Filters :
        LET roi == ComputeRoi(rows, mirror, filter)
        IN  /\ \A figure \in Figures : Total(roi.categories, figure) = roi.summary[figure]
            /\ SumFunction(roi.departments) = roi.summary.tokens
            /\ \A figure \in Figures \ {"tokens"} : Total(roi.scenarios, figure) <= roi.summary[figure]

\* A bucket of fewer rows has no more of anything that is counted.
LEMMA SmallerBucket ==
    ASSUME FlowInv, TablesInv, NEW ids \in SUBSET DOMAIN rows, NEW part \in SUBSET ids
    PROVE  LET b == Bucket(rows, mirror, part)
               c == Bucket(rows, mirror, ids)
           IN  \A figure \in Figures \ {"tokens"} : b[figure] <= c[figure]
<1> DEFINE saved == [id \in DOMAIN rows |-> Saved(rows[id], Category(mirror, id))]
           good(S) == {id \in S : Succeeded(rows[id])}
<1>1. IsFiniteSet(ids)
  BY FS_Subset DEF TablesInv
<1>2. good(ids) \in SUBSET ids /\ good(part) \in SUBSET good(ids)
  OBVIOUS
<1>3. part \in SUBSET DOMAIN rows
  OBVIOUS
<1>4. \A id \in DOMAIN rows : saved[id] \in Nat
  BY <1>3, BucketSums
<1>5. LET b == Bucket(rows, mirror, part)
          c == Bucket(rows, mirror, ids)
      IN  /\ b.count = Cardinality(part) /\ c.count = Cardinality(ids)
          /\ b.success = Cardinality(good(part)) /\ c.success = Cardinality(good(ids))
          /\ b.saved = SumFunctionOnSet(saved, part) /\ c.saved = SumFunctionOnSet(saved, ids)
  BY <1>3, BucketSums
<1> HIDE DEF saved, good
<1>6. Cardinality(part) <= Cardinality(ids)
  BY <1>1, FS_Subset
<1>7. Cardinality(good(part)) <= Cardinality(good(ids))
  <2>1. IsFiniteSet(good(ids))
    BY <1>1, <1>2, FS_Subset
  <2>2. QED
    BY <1>2, <2>1, FS_Subset
<1>8. SumFunctionOnSet(saved, part) <= SumFunctionOnSet(saved, ids)
  <2>1. (\A id \in ids : saved[id] \in Int) /\ \A id \in ids \ part : saved[id] >= 0
    BY <1>4
  <2>2. QED
    BY <1>1, <2>1, SumSubset
<1>9. QED
  BY <1>5, <1>6, <1>7, <1>8 DEF Figures

\* The screen of one filter.
LEMMA RoiOfRows ==
    ASSUME FlowInv, TablesInv, NEW filter
    PROVE  LET roi == ComputeRoi(rows, mirror, filter)
           IN  /\ \A figure \in Figures : Total(roi.categories, figure) = roi.summary[figure]
               /\ SumFunction(roi.departments) = roi.summary.tokens
               /\ \A figure \in Figures \ {"tokens"} : Total(roi.scenarios, figure) <= roi.summary[figure]
<1> DEFINE roi == ComputeRoi(rows, mirror, filter)
           ids == Loaded(rows, filter)
           category == [id \in ids |-> Category(mirror, id)]
           department == [id \in ids |-> OrElse(rows[id].dept, "Unknown")]
           scenario == [id \in ids |-> Joined(mirror, id, "scenario", None)]
           C == {category[id] : id \in ids}
           D == {department[id] : id \in ids}
           S == {scenario[id] : id \in ids} \ {None}
           all == Bucket(rows, mirror, ids)
           cats == roi.categories
           found == roi.scenarios
           perDept == [d \in D |-> Bucket(rows, mirror, Group(ids, department, d))]
<1>1. ids \in SUBSET DOMAIN rows /\ IsFiniteSet(ids)
  BY FS_Subset DEF Loaded, TablesInv
<1>2. IsFiniteSet(C) /\ IsFiniteSet(D) /\ IsFiniteSet(S)
  <2> DEFINE T == {scenario[id] : id \in ids}
  <2> HIDE DEF category, department, scenario, ids
  <2>1. IsFiniteSet(C) /\ IsFiniteSet(D) /\ IsFiniteSet(T)
    BY <1>1, FiniteImage
  <2> HIDE DEF T
  <2>2. IsFiniteSet(T \ {None})
    BY <2>1, FS_Subset
  <2>3. QED
    BY <2>1, <2>2 DEF T
<1>3. roi.summary = all
  BY DEF ComputeRoi
<1>4. DOMAIN cats = C /\ \A c \in C : cats[c] = Bucket(rows, mirror, Group(ids, category, c))
  BY DEF ComputeRoi, Group
<1>5. DOMAIN found = S /\ \A s \in S : found[s] = Bucket(rows, mirror, Group(ids, scenario, s))
  BY DEF ComputeRoi, Group
<1>6. roi.departments = [d \in D |-> perDept[d].tokens]
  BY DEF ComputeRoi, Group
<1>7. Grouped(ids, category, C) = ids
  BY DEF Grouped
<1>7a. Grouped(ids, department, D) = ids
  BY DEF Grouped
<1>7b. Grouped(ids, scenario, S) \in SUBSET ids
  BY DEF Grouped
<1>8. DOMAIN perDept = D /\ \A d \in D : perDept[d] = Bucket(rows, mirror, Group(ids, department, d))
  OBVIOUS
<1> HIDE DEF roi, ids, category, department, scenario, C, D, S, perDept, cats, found
<1>9. \A figure \in Figures : Total(cats, figure) = all[figure]
  BY <1>1, <1>2, <1>4, <1>7, BucketsAddUp
<1>10. SumFunction(roi.departments) = all.tokens
  <2>1. \A figure \in Figures : Total(perDept, figure) = all[figure]
    BY <1>1, <1>2, <1>8, <1>7a, BucketsAddUp
  <2>2. Total(perDept, "tokens") = SumFunction(roi.departments)
    BY <1>6, <1>8 DEF Total
  <2>3. QED
    BY <2>1, <2>2 DEF Figures
<1>11. \A figure \in Figures \ {"tokens"} : Total(found, figure) <= all[figure]
  <2> DEFINE part == Grouped(ids, scenario, S)
             b == Bucket(rows, mirror, part)
  <2>1. \A figure \in Figures : Total(found, figure) = b[figure]
    BY <1>1, <1>2, <1>5, BucketsAddUp
  <2>2. part \in SUBSET ids
    BY <1>7b
  <2> HIDE DEF part
  <2>3. \A figure \in Figures \ {"tokens"} : b[figure] <= all[figure]
    BY <1>1, <2>2, SmallerBucket
  <2> HIDE DEF b, all
  <2>4. QED
    BY <2>1, <2>3
<1>12. QED
  BY <1>3, <1>9, <1>10, <1>11 DEF roi, cats, found, all

\* Whatever the rows, their departments and what of them the mirror has, the parts of
\* the ROI screen add up to its summary.
THEOREM RoiAlwaysAddsUp == Spec => []RoiAddsUp
<1>1. FlowInv /\ TablesInv => RoiAddsUp
  BY RoiOfRows DEF RoiAddsUp
<1>2. QED
  BY <1>1, FlowInvariant, TablesInvariant, PTL
===============================================================================
