---------------------------- MODULE MCInsightFlow ----------------------------
(* Instance of InsightFlow: a handful of deployments, records that differ in  *)
(* every field the figures depend on, an uploaded and a live source.          *)
EXTENDS InsightFlow

\* Deployments.
NoKnobs == [k \in KnobNames |-> NotSet]
Unset == [mode |-> NotSet, provider |-> NotSet]
BareEnv == [emb |-> Unset, llm |-> Unset, ml_mode |-> NotSet, fallback |-> NotSet,
            knobs |-> NoKnobs, key |-> FALSE]
BareYaml == [state |-> "read", emb |-> Unset, llm |-> Unset, fallback |-> NotSet, knobs |-> NoKnobs]
GoodFile == [state |-> "good", meta |-> "embedding", names |-> "few", features |-> 768]
NoFile == [GoodFile EXCEPT !.state = "none"]
Short == [NoKnobs EXCEPT !.direct = 4, !.chunk = 4, !.overlap = 1, !.retries = 0,
                         !.top_tasks = 1, !.top_scenarios = 1]
Deployment(yaml, env, file) == [yaml |-> yaml, env |-> env, file |-> file, qdrantMock |-> FALSE]
MCDeployments ==
    { Deployment([BareYaml EXCEPT !.knobs = Short], [BareEnv EXCEPT !.ml_mode = "online", !.key = TRUE], GoodFile),
      Deployment([BareYaml EXCEPT !.knobs = Short, !.emb = [mode |-> "mock", provider |-> NotSet]],
                 [BareEnv EXCEPT !.emb.mode = "online"], GoodFile),
      Deployment([BareYaml EXCEPT !.knobs = Short, !.llm.provider = "openrouter"], BareEnv, GoodFile),
      Deployment([BareYaml EXCEPT !.knobs = [Short EXCEPT !.overlap = 9, !.max_words = 2,
                                                          !.top_scenarios = -1]], BareEnv, NoFile),
      Deployment([BareYaml EXCEPT !.state = "unreadable"],
                 [BareEnv EXCEPT !.llm.provider = "openrouter", !.emb.provider = "mock", !.key = TRUE,
                                 !.knobs = [NoKnobs EXCEPT !.chunk = 0, !.direct = 4, !.retries = BadNumber]],
                 [GoodFile EXCEPT !.state = "broken"]) }

\* Records.
Word(word, form) == [word |-> word, form |-> form]
Raw == [object |-> TRUE, text |-> 3, ext |-> None, ts |-> None,
        status |-> <<None, None>>, tokens |-> <<None, None, None>>,
        manual |-> <<None, None, None, None>>, tools |-> <<{}, {}>>, model |-> None,
        gold |-> None, style |-> None, user |-> None, email |-> None, name |-> None, dept |-> None]
Paid == [Raw EXCEPT !.text = 14, !.gold = "code_help", !.user = "u1", !.model = "gpt",
                    !.tokens = <<Garbled, 30, None>>, !.style = "typoy"]
Caps == [Raw EXCEPT !.status = <<Word("error_tool", "caps"), None>>, !.ts = [at |-> 20, off |-> 3],
                    !.email = "u2", !.manual = <<Garbled, 5, 0, 0>>, !.tokens = <<200, None, None>>]
Padded == [Raw EXCEPT !.status = <<None, Word("ok", "padded")>>, !.ts = [at |-> 40, off |-> 0],
                      !.manual = <<0, 5, None, None>>, !.ext = <<"own", 1>>]
Timeout == [Raw EXCEPT !.status = <<Word("error", "plain"), None>>, !.ts = [at |-> 41, off |-> -3],
                       !.gold = "data_analysis", !.ext = <<"own", 1>>]
Loop == [Raw EXCEPT !.status = <<Word("hallucination_loop", "plain"), None>>, !.ts = Garbled, !.text = 6]
MCUploads ==
    { [source |-> "s", format |-> "json", raws |-> <<Paid, Caps>>],
      [source |-> "s", format |-> "csv",  raws |-> <<[Raw EXCEPT !.text = None], Caps>>],
      [source |-> "s", format |-> "json", raws |-> <<Loop, Padded>>],
      [source |-> "s", format |-> "json", raws |-> <<Padded, Padded>>],
      [source |-> "s", format |-> "json", raws |-> <<Paid>>],
      [source |-> "live", format |-> "json", raws |-> <<Timeout>>] }

\* Answers.
Answer(type, form, confidence) == [label |-> [type |-> type, form |-> form], confidence |-> confidence]
MCAnswers == {Answer("code_help", "spaced", 90), Answer("code_help", "plain", 20),
              Answer("summary", "plain", 80), Raises}
MCHints == {{}, {"code_help", "education"}}
MCNameAnswers == {0, 6}
\* Bounds in the record's own offset, in UTC and elsewhere: one whose local time is
\* that of a record, one that leaves a record of the period out of ML's figures.
MCFilters == {AnyRow, [AnyRow EXCEPT !.source = "s", !.from = [at |-> 22, off |-> 1]],
              [AnyRow EXCEPT !.to = [at |-> 40, off |-> 0]],
              [source |-> "live", from |-> [at |-> 37, off |-> 3], to |-> [at |-> 44, off |-> -3]]}
==============================================================================
