----------------------------- MODULE RecordTypes -----------------------------
(* What every part that looks at classified prompts shares: the absent value, *)
(* the task types (ml_service app/domain/taxonomy.py and its copy in backend  *)
(* domain/taxonomy.py) and the filters of the screens.                        *)
EXTENDS Integers

CONSTANTS None,             \* the absence of a value
          DayLength         \* instants in a day

\* CORE_TASK_TYPES and SERVICE_TASK_TYPES.
CoreTypes == {"text_generation", "code_help", "data_analysis", "education",
              "information_search", "task_management", "other"}
ServiceTypes == {"unknown"}

OrElse(value, default) == IF value = None THEN default ELSE value

\* A filter is [source, from, to], each None or a value; a bound of _parse_filter_date()
\* is [at, off]: an instant with the offset it was asked for in, as on a record.
AnyRow == [source |-> None, from |-> None, to |-> None]

\* label() of the backend: what has no type is shown as unknown, and a type its
\* table does not list as other.
Label(type) ==
    CASE type = None -> "unknown"
      [] type # None /\ type \notin CoreTypes \cup ServiceTypes -> "other"
      [] OTHER -> type
==============================================================================
