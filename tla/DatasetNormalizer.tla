-------------------------- MODULE DatasetNormalizer --------------------------
(* backend service/ingestion/normalizer.py: what an uploaded or live record   *)
(* becomes before it is stored and sent to ML.                                *)
(* A raw record is a record of the fields the code reads:                     *)
(*   object    FALSE when the entry is not a JSON object                      *)
(*   text      the first truthy of user_query and query_text, stripped, or    *)
(*             None when nothing is left                                      *)
(*   ext       request_id, or None                                            *)
(*   ts        timestamp: an instant with the offset of its time zone, as     *)
(*             [at, off], Garbled when it does not parse, or None             *)
(*   status    <<status, response_status>>, each a Word or None               *)
(*   tokens    the values under total_tokens, simulated_context_tokens and    *)
(*             metadata.usage.total_tokens: a number, Garbled or None         *)
(*   manual    the values under the four manual-time keys, in their order     *)
(*   tools     <<tools_used, metadata.tools_used>>, sets of tool names        *)
(*   model     the first truthy of model, model_name and agent_id, or None    *)
(*   gold, style, user, email, name, dept    the field, or None               *)
(* A Word is the spelling of a status: its lower-case word and whether it is  *)
(* written plainly, with capitals, or with blanks around it.                  *)
EXTENDS RecordTypes, Sequences, FiniteSets

CONSTANTS Garbled,          \* a value that is there and does not parse
          Synthesize,       \* NORMALIZE_SYNTHESIZE_TIMESTAMPS
          Now, Span         \* the wall clock and NORMALIZE_TIMESTAMP_SPAN_DAYS, in ticks

ASSUME NormalizerAssumption ==
    /\ Synthesize \in BOOLEAN
    /\ Now \in Nat
    /\ Span \in 0..Now

Forms == {"plain", "caps", "padded"}
IsWord(w) == DOMAIN w = {"word", "form"} /\ w.form \in Forms
Stamps == [at : Int, off : Int]

\* What is assumed of a raw record: the shape of the fields that are always read, a
\* text that is at least a word when it is there, and that what int() and float() make
\* of a count or a time is a number.
WellFormed(raw) ==
    /\ {"object", "text", "ts", "status", "tokens", "manual", "tools", "email"} \subseteq DOMAIN raw
    /\ raw.text \in Nat \ {0} \/ raw.text = None
    /\ raw.ts \in {None, Garbled} \/ raw.ts \in Stamps
    /\ DOMAIN raw.status = 1..2
    /\ \A i \in 1..2 : raw.status[i] = None \/ IsWord(raw.status[i])
    /\ raw.tokens \in [1..3 -> Int \cup {None, Garbled}]
    /\ raw.manual \in [1..4 -> Int \cup {None, Garbled}]

\* str.lower(): capitals go, blanks stay.
Lower(w) == IF w.form = "caps" THEN [w EXCEPT !.form = "plain"] ELSE w

\* str.strip().lower(), the form in which the ROI and users screens compare.
Cleaned(w) == [w EXCEPT !.form = "plain"]

FirstOf(values, Usable(_)) ==
    LET at == {i \in DOMAIN values : Usable(values[i])}
    IN  IF at = {} THEN None
        ELSE values[CHOOSE i \in at : \A j \in at : i <= j]

\* Mistaken form: a word the map does not list is an error.
StatusMapStrict(w) ==
    IF w.form = "plain" /\ w.word = "success" THEN [status |-> "success", code |-> None]
    ELSE [status |-> "error", code |-> "unlisted"]

\* _STATUS_MAP with its default: a word the map does not list is a success.
StatusMap(w) ==
    CASE w.form = "plain" /\ w.word = "error_tool" ->
            [status |-> "error", code |-> "tool_error"]
      [] w.form = "plain" /\ w.word = "hallucination_loop" ->
            [status |-> "error", code |-> "hallucination_loop"]
      [] OTHER -> [status |-> "success", code |-> None]

RawStatus(raw) == FirstOf(raw.status, LAMBDA s : s # None)
PlainSuccess == [word |-> "success", form |-> "plain"]
StoredStatus(raw) == IF RawStatus(raw) = None THEN PlainSuccess ELSE RawStatus(raw)

AsNumber(value) == IF value = Garbled THEN None ELSE value

\* The first source that holds a number: a garbled or missing one falls through.
Tokens(raw) == FirstOf(raw.tokens, LAMBDA t : t \notin {None, Garbled})

\* The four keys are joined with `or`: zero falls through as a missing value does
\* and the last key decides when nothing is truthy, but a garbled text is truthy,
\* stops the search and is read as None.
ManualTime(raw) ==
    LET truthy == FirstOf(raw.manual, LAMBDA t : t \notin {None, 0})
    IN  IF truthy = None THEN raw.manual[4] ELSE AsNumber(truthy)

\* The status words that leaked into the style field are dropped and the known
\* misspellings folded; any other value is kept.
StyleAliases == [typoy |-> "typo", typo_jargon |-> "typo", voice_jargon |-> "voice",
                 corporate_slang |-> "jargon", formnal |-> "formal"]
NonStyle == {"success", "error", "error_tool", "hallucination_loop"}
Style(raw) ==
    CASE raw.style = None -> None
      [] raw.style \in NonStyle -> None
      [] raw.style \in DOMAIN StyleAliases -> StyleAliases[raw.style]
      [] OTHER -> raw.style

ModelTag(name) == <<"model", name>>
IsModelTag(tool) == tool[1] = "model"
Tools(raw) ==
    LET given == FirstOf(raw.tools, LAMBDA t : t # {})
        own   == IF given = None THEN {} ELSE given
    IN  IF raw.model # None /\ ~\E t \in own : IsModelTag(t)
        THEN own \cup {ModelTag(raw.model)} ELSE own

Utc(at) == [at |-> at, off |-> 0]
SynthesizedTime(index, total) ==
    IF ~Synthesize \/ total <= 0 THEN Utc(Now)
    ELSE Utc(Now - Span + (Span * index) \div total)

Timestamp(raw, index, total) ==
    IF raw.ts \in {None, Garbled} THEN SynthesizedTime(index, total) ELSE raw.ts

\* The canonical id is a hash of the namespace and the record's own id, or of its
\* position when it has none: it is modelled as that pair.
ExternalId(raw, prefix, index) == IF raw.ext = None THEN <<prefix, index>> ELSE raw.ext
RequestId(namespace, ext) == <<namespace, ext>>

\* A row of a csv file: a number that does not parse is dropped under the keys
\* _parse_csv lists (the last manual-time key is not one), and a metadata column
\* is a text, never an object that holds further fields.
FromCsv(raw) ==
    [raw EXCEPT !.tokens = <<AsNumber(raw.tokens[1]), AsNumber(raw.tokens[2]), None>>,
                !.manual = [i \in 1..4 |-> IF i < 4 THEN AsNumber(raw.manual[i]) ELSE raw.manual[i]],
                !.tools[2] = {},
                !.email = None]

\* parse_raw(): the records of a file, in file order.
ParseRaw(raws, format) ==
    IF format = "csv" THEN [i \in DOMAIN raws |-> FromCsv(raws[i])] ELSE raws

Rejected(raw) == ~raw.object \/ raw.text = None

\* One DatasetRow.
DatasetRow(raw, index, total, prefix, namespace) ==
    [id     |-> RequestId(namespace, ExternalId(raw, prefix, index)),
     source |-> namespace,
     text   |-> raw.text,
     gold   |-> raw.gold,
     style  |-> Style(raw),
     user   |-> IF raw.user = None THEN raw.email ELSE raw.user,
     name   |-> raw.name,
     dept   |-> raw.dept,
     tokens |-> Tokens(raw),
     manual |-> ManualTime(raw),
     tools  |-> Tools(raw),
     status |-> StoredStatus(raw),
     ts     |-> Timestamp(raw, index, total)]

\* The log record ML is sent for a row, given the spelling its status is looked up with.
LogRecord(row, word) ==
    [id |-> row.id, source |-> row.source, text |-> row.text, ts |-> row.ts,
     status |-> StatusMap(word).status, code |-> StatusMap(word).code,
     feedback |-> None, retries |-> None]

\* normalize(): the rows in file order with the log record of each, and the report.
Normalize(raws, prefix, namespace) ==
    LET total == Len(raws)
        kept  == {i \in 1..total : ~Rejected(raws[i])}
    IN  [rows   |-> [i \in kept |-> DatasetRow(raws[i], i - 1, total, prefix, namespace)],
         logs   |-> [i \in kept |-> LogRecord(DatasetRow(raws[i], i - 1, total, prefix, namespace),
                                             Lower(StoredStatus(raws[i])))],
         report |-> [total |-> total, valid |-> Cardinality(kept),
                     rejected |-> total - Cardinality(kept)]]

\* rebuild_log_records(): the stored status is looked up as it was written, and the
\* database gives the stored instant back in UTC.
RebuiltRecord(row) == [LogRecord(row, row.status) EXCEPT !.ts = Utc(row.ts.at)]
==============================================================================
