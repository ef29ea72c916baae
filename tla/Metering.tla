----------------------------- MODULE Metering ------------------------------
(***************************************************************************)
(* From the usage an upstream reports to a row of the ledger and back: the *)
(* normalisation into meters (billing.ts), the columns settlement stores   *)
(* (settlement.ts) and the meters reconciliation reads from them           *)
(* (reconcile.ts).                                                         *)
(*                                                                         *)
(* A usage object is a function from the names of its parts to their       *)
(* fields: Top for its own fields, the key of each nested object for the   *)
(* nested ones.  A field is a number; a negative one stands for whatever   *)
(* is not a safe non-negative integer, and counts as zero.                 *)
(***************************************************************************)
EXTENDS Pricing

Top == "top"

(* The endpoints that are metered by usage; both image endpoints are one.  *)
Endpoints == {"chat_completions", "responses", "messages", "embeddings", "images"}

Reports(usage, part, field) == part \in DOMAIN usage /\ field \in DOMAIN usage[part]
Num(usage, part, field) ==
    IF Reports(usage, part, field) /\ usage[part][field] \in Nat
    THEN usage[part][field] ELSE 0

Larger(a, b)   == IF a > b THEN a ELSE b
NonNegative(n) == IF n > 0 THEN n ELSE 0

\* Only the tokens read from the cache are subtracted from the total.
ChatMetersKeepingWrites(u) ==
    LET cached == Num(u, "prompt_tokens_details", "cached_tokens")
    IN  [input        |-> NonNegative(Num(u, Top, "prompt_tokens") - cached),
         cached_input |-> cached,
         cache_write  |-> Num(u, "prompt_tokens_details", "cache_write_tokens"),
         output       |-> Num(u, Top, "completion_tokens")]

(* OpenAI's totals contain the cached tokens, so these are subtracted;     *)
(* Anthropic's buckets are disjoint as they come.                          *)
ChatMeters(u) ==
    LET cached == Num(u, "prompt_tokens_details", "cached_tokens")
        write  == Larger(Num(u, "prompt_tokens_details", "cache_write_tokens"),
                         IF Reports(u, "prompt_tokens_details", "cache_creation_tokens")
                         THEN Num(u, "prompt_tokens_details", "cache_creation_tokens")
                         ELSE Num(u, Top, "cache_creation_input_tokens"))
    IN  [input        |-> NonNegative(Num(u, Top, "prompt_tokens") - cached - write),
         cached_input |-> cached,
         cache_write  |-> write,
         output       |-> Num(u, Top, "completion_tokens")]

ResponsesMeters(u) ==
    LET cached == Num(u, "input_tokens_details", "cached_tokens")
        write  == Num(u, "input_tokens_details", "cache_write_tokens")
    IN  [input        |-> NonNegative(Num(u, Top, "input_tokens") - cached - write),
         cached_input |-> cached,
         cache_write  |-> write,
         output       |-> Num(u, Top, "output_tokens")]

Write5m(u) == IF Reports(u, "cache_creation", "ephemeral_5m_input_tokens")
              THEN Num(u, "cache_creation", "ephemeral_5m_input_tokens")
              ELSE Num(u, Top, "cache_creation_input_tokens")
Write1h(u) == Num(u, "cache_creation", "ephemeral_1h_input_tokens")

MessagesMeters(u) ==
    [input          |-> Num(u, Top, "input_tokens"),
     cached_input   |-> Num(u, Top, "cache_read_input_tokens"),
     cache_write_5m |-> Write5m(u),
     cache_write_1h |-> Write1h(u),
     output         |-> Num(u, Top, "output_tokens")]

EmbeddingsMeters(u) == [input |-> Num(u, Top, "prompt_tokens")]

(* Each of the two spellings is taken when the other is absent.            *)
ImageDetails(u) == IF "input_tokens_details" \in DOMAIN u
                   THEN "input_tokens_details" ELSE "prompt_tokens_details"
ImageMeters(u) ==
    LET text  == Num(u, ImageDetails(u), "cached_text_tokens")
        image == Num(u, ImageDetails(u), "cached_image_tokens")
    IN  [input       |-> NonNegative(Num(u, ImageDetails(u), "text_tokens") - text),
         image_input |-> NonNegative(Num(u, ImageDetails(u), "image_tokens") - image),
         cached_input       |-> text,
         cached_image_input |-> image,
         image_output       |-> Num(u, Top, IF Reports(u, Top, "output_tokens")
                                            THEN "output_tokens" ELSE "completion_tokens")]

MetersOf(endpoint, u) ==
    CASE endpoint = "chat_completions" -> ChatMeters(u)
      [] endpoint = "responses"        -> ResponsesMeters(u)
      [] endpoint = "messages"         -> MessagesMeters(u)
      [] endpoint = "embeddings"       -> EmbeddingsMeters(u)
      [] endpoint = "images"           -> ImageMeters(u)

(* A meter of zero is not recorded.                                        *)
NormalizeUsageMeters(endpoint, u, threshold) ==
    LET all == MetersOf(endpoint, u)
    IN  MeterByThreshold([m \in {k \in DOMAIN all : all[k] > 0} |-> all[m]], threshold)

WebSearches(u) == Num(u, "server_tool_use", "web_search_requests")

(* The parts of Anthropic's cache writes do not add up to their total.     *)
CacheWriteSumMismatch(endpoint, u) ==
    /\ endpoint = "messages"
    /\ \/ Reports(u, "cache_creation", "ephemeral_5m_input_tokens")
       \/ Reports(u, "cache_creation", "ephemeral_1h_input_tokens")
    /\ Reports(u, Top, "cache_creation_input_tokens")
    /\ Num(u, Top, "cache_creation_input_tokens") # Write5m(u) + Write1h(u)

----------------------------------------------------------------------------
(* The row: a long meter shares the column of its short one, and one flag  *)
(* says which of the two it was.                                           *)

LedgerColumns ==
    [uncachedInputTokens     |-> {"input", "input_long"},
     cachedReadTokens        |-> {"cached_input", "cached_input_long"},
     cacheWriteTokens        |-> {"cache_write", "cache_write_long"},
     cacheWrite5mTokens      |-> {"cache_write_5m"},
     cacheWrite1hTokens      |-> {"cache_write_1h"},
     outputTokens            |-> {"output", "output_long"},
     imageInputTokens        |-> {"image_input"},
     cachedImageInputTokens  |-> {"cached_image_input"},
     imageOutputTokens       |-> {"image_output"}]
LongMeters == {LongMeterMap[m] : m \in DOMAIN LongMeterMap}

LedgerMeterColumns(meters) ==
    [c \in DOMAIN LedgerColumns |-> SumOf(meters, LedgerColumns[c])]
AppliedLong(meters) == DOMAIN meters \cap LongMeters # {}

\* The flag of the row is not consulted.
ShortMeterOfColumn(column, long) == CHOOSE m \in LedgerColumns[column] : m \notin LongMeters

(* The meter a column is read back as.                                     *)
MeterOfColumn(column, long) ==
    LET choices == LedgerColumns[column]
    IN  CHOOSE m \in choices :
            Cardinality(choices) > 1 => (m \in LongMeters <=> long)

LedgerMeters(columns, long) ==
    LET held == {c \in DOMAIN columns : columns[c] > 0}
        of(m) == CHOOSE c \in held : MeterOfColumn(c, long) = m
    IN  [m \in {MeterOfColumn(c, long) : c \in held} |-> columns[of(m)]]
=============================================================================
