---------------------------- MODULE TaskClassifier ----------------------------
(* ML: the task-type classifier (pipeline/classification/catboost_classifier  *)
(* .py), the taxonomy it answers in (domain/taxonomy.py), how start-up builds  *)
(* it and the failure signals of a log record (main.py).                      *)
(* Confidences are percentages. What a model or an LLM answers is outside the *)
(* code: an answer is a record [label, confidence] whose label is a spelling  *)
(* [type, form] of any task type, known or not, or Raises when the call fails.*)
EXTENDS RecordTypes, Sequences, FiniteSets

CONSTANTS Raises,           \* a call that raised
          NoLabel           \* _normalize_label found no core type

\* Taxonomy.load(): what the markdown table lists, completed with the built-in types.
TaxonomyTypes(markdown) == markdown \cup CoreTypes \cup ServiceTypes

FallbackModes == {"fail_fast", "llm", "embedding_centroid", "keyword"}

(* Start-up: main.py hands the classifier the taxonomy as a plain dict, the    *)
(* fallback mode and the threshold, and no OpenRouter key: the classifier      *)
(* reads the key from the environment only.                                   *)
\* A file is what lies at the model path: [state |-> "none", "broken" or "good",
\* meta |-> "embedding", "text" or "silent", names |-> "text", "dense" or "few",
\* features |-> Nat].

\* The keyword heuristic replaces the LLM when no model, no key anywhere and only
\* mock embeddings are there.
StartupFallback(file, mode, key, embeddings) ==
    IF file.state = "none" /\ mode = "llm" /\ ~key /\ embeddings = "mock" THEN "keyword" ELSE mode

DetectModelInput(file) ==
    CASE file.meta # "silent" -> file.meta
      [] file.names = "text" -> "text"
      [] file.names = "dense" -> "embedding"
      [] file.features >= 64 -> "embedding"
      [] file.features <= 8 -> "text"
      [] OTHER -> "embedding"

\* CatBoostClassifier.__init__ with _load_model: an unreadable model is no model.
NewClassifier(file, mode, threshold, envKey) ==
    [fallback  |-> IF mode \in FallbackModes THEN mode ELSE "llm",
     threshold |-> threshold,
     model     |-> file.state = "good",
     input     |-> IF file.state = "good" THEN DetectModelInput(file) ELSE "embedding",
     key       |-> envKey]

\* readiness_status(): "ok" only with a loaded model.
ReadinessStatus(clf) == IF clf.model THEN "ok" ELSE "degraded"

\* Mistaken form: any spelling is taken for a type.
NormalizeLabelLoose(label) == IF label.form # "quoted" THEN label.type ELSE NoLabel

\* _normalize_label() with a dict taxonomy: case, blanks and dashes are folded,
\* quotes are not taken off.
NormalizeLabel(label) ==
    IF label.type \in CoreTypes /\ label.form # "quoted" THEN label.type ELSE NoLabel

OrOther(label) == IF NormalizeLabel(label) = NoLabel THEN "other" ELSE NormalizeLabel(label)

Prediction(type, confidence, source) ==
    [type |-> type, confidence |-> confidence, source |-> source]

\* _llm_fallback() as start-up uses it: a structured answer, whose confidence the
\* schema bounds, and one default for every failure.
LlmFallback(clf, answer) ==
    IF ~clf.key \/ answer = Raises \/ answer.confidence \notin 0..100
    THEN Prediction("other", 30, "llm_fallback_error")
    ELSE Prediction(OrOther(answer.label), answer.confidence, "llm_fallback")

\* Start-up gives no class centroids and nothing adds one.
CentroidFallback == Prediction("other", 35, "embedding_centroid_empty")

\* The first keyword group with a word in the text decides.
KeywordOrder == <<"data_analysis", "code_help", "information_search",
                  "task_management", "text_generation", "education">>
KeywordHeuristic(hints) ==
    LET hit == {i \in DOMAIN KeywordOrder : KeywordOrder[i] \in hints}
    IN  IF hit = {} THEN Prediction("other", 55, "keyword")
        ELSE LET first == CHOOSE i \in hit : \A j \in hit : i <= j
             IN  Prediction(KeywordOrder[first], IF first <= 2 THEN 85 ELSE 80, "keyword")

\* _apply_fallback(); fail_fast raises, and the record is not stored.
ApplyFallback(clf, hints, llm) ==
    CASE clf.fallback = "fail_fast" -> Raises
      [] clf.fallback = "llm" -> LlmFallback(clf, llm)
      [] clf.fallback = "embedding_centroid" -> CentroidFallback
      [] OTHER -> KeywordHeuristic(hints)

\* predict(): the model when it is loaded, the fallback when it is not or when it
\* raises. The caller always passes the embedding.
Predict(clf, hints, model, llm) ==
    IF clf.model /\ model # Raises
    THEN Prediction(OrOther(model.label), model.confidence, "catboost")
    ELSE ApplyFallback(clf, hints, llm)

\* predict_with_confidence(): below the threshold the type is unknown.
PredictWithConfidence(clf, hints, model, llm) ==
    LET pred == Predict(clf, hints, model, llm)
    IN  IF pred = Raises THEN Raises
        ELSE IF pred.confidence < clf.threshold THEN [pred EXCEPT !.type = "unknown"]
        ELSE pred

\* _failure_signals() of a log record (main.py).
FailureStatuses == {"error", "failed", "failure", "timeout"}
FailureSignals(log) ==
    (IF log.status \in FailureStatuses THEN {<<"response_status", log.status>>} ELSE {})
    \cup (IF log.code # None THEN {<<"error_code", log.code>>} ELSE {})
    \cup (IF log.feedback # None /\ log.feedback < 0 THEN {<<"user_feedback", "negative">>} ELSE {})
    \cup (IF log.retries # None /\ log.retries > 0 THEN {<<"retry_count", "positive">>} ELSE {})
===============================================================================
