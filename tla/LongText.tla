------------------------------- MODULE LongText -------------------------------
(* ML pipeline/long_text/chunking.py: how a long prompt becomes the text that  *)
(* is embedded and classified (OnlinePipeline.embed_query). A text is its      *)
(* number of words, a chunk the interval [first, last] of the words in it. The *)
(* knobs are those of MlConfig: direct, chunk and overlap.                     *)
EXTENDS Integers, FiniteSetsExt

CONSTANTS SummaryChunks,    \* max_summary_chunks
          ChunkWords,       \* words kept of a selected chunk
          ChunkError        \* split_text_into_chunks raised

ASSUME LongTextAssumption == SummaryChunks \in Nat \ {0, 1} /\ ChunkWords \in Nat \ {0}

\* overlap = max(0, min(overlap, max_tokens - 1)) and the step it leaves.
Step(size, overlap) == size - Max({0, Min({overlap, size - 1})})

\* split_text_into_chunks(): windows every step words, the last one the first that
\* reaches the end of the text.
Chunks(n, size, overlap) ==
    LET step == Step(size, overlap)
        last == CHOOSE k \in 0..n : /\ k * step + size >= n
                                    /\ \A j \in 0..(k - 1) : j * step + size < n
    IN  [k \in 1..(last + 1) |-> [first |-> (k - 1) * step + 1,
                                  last  |-> Min({n, (k - 1) * step + size})]]

\* Mistaken form: the first chunks only.
SelectedHead(chunks) == {k \in DOMAIN chunks : k <= SummaryChunks}

\* The head and the tail of the chunks.
SelectedChunks(chunks) ==
    LET count == Cardinality(DOMAIN chunks)
    IN  IF count <= SummaryChunks THEN DOMAIN chunks
        ELSE 1..(SummaryChunks - 1) \cup {count}

\* The first words of a chunk.
KeptWords(chunk) == chunk.first .. Min({chunk.last, chunk.first + ChunkWords - 1})

\* prepare_for_embedding(): the words of the representation and the strategy, which
\* is stored beside the assignment.
PrepareForEmbedding(n, knobs) ==
    IF n <= knobs.direct
    THEN [words |-> 1..n, strategy |-> "direct", chunks |-> 0]
    ELSE IF knobs.chunk <= 0 THEN ChunkError
    ELSE LET chunks == Chunks(n, knobs.chunk, knobs.overlap)
         IN  [words |-> UNION {KeptWords(chunks[k]) : k \in SelectedChunks(chunks)},
              strategy |-> "chunk_summary", chunks |-> Cardinality(DOMAIN chunks)]
===============================================================================
