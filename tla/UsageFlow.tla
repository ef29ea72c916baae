----------------------------- MODULE UsageFlow -----------------------------
(***************************************************************************)
(* The bill of one call: the response arrives in chunks while it is passed *)
(* on, the handler finalizes when the response or the client ends, the row *)
(* is settled from the usage found, and reconciliation computes the charge *)
(* again from the row.  Which handler or worker writes the row, and how    *)
(* often it tries, is the business of Gateway; here it is what is written. *)
(***************************************************************************)
EXTENDS UsageExtraction

CONSTANTS
    Answers,     \* with their prices: resp, see UsageExtraction, and route, with
                 \* spec, sku and the threshold of long context or NoThreshold
    Million,     \* the tokens a price is quoted for
    MaxSafe      \* Number.MAX_SAFE_INTEGER

(* A price as upsertPricingProfile writes it: per million tokens and per   *)
(* web search, or for one unit of what is sold; a request was admitted     *)
(* with an SKU that has a price.                                           *)
WrittenByProfile(spec, sku) ==
    LET keys == DOMAIN spec.rates
    IN  /\ keys # {}
        /\ \A k \in keys : spec.rates[k].price \in Nat
        /\ IF spec.basis = "token"
           THEN \A k \in keys : spec.rates[k].unit = IF k = WebSearch THEN 1 ELSE Million
           ELSE /\ sku \in keys
                /\ spec.rates[sku].unit \in Nat \ {0}
                /\ \A k \in keys : spec.rates[k].unit = spec.rates[sku].unit

ASSUME UsageFlowAssumption ==
    /\ MaxSafe \in Nat /\ MaxBuffer \in Nat /\ Million \in Nat \ {0, 1}
    /\ \A a \in Answers : /\ a.route.threshold \in Nat \cup {NoThreshold}
                          /\ a.resp.endpoint \in Endpoints
                          /\ a.resp.kind # "stream" =>
                                a.resp.events[1].items \in Nat \cup {Unscannable}
                          /\ WrittenByProfile(a.route.spec, a.route.sku)

(* Responses have the shapes that BytesOf takes; image bodies are JSON.    *)
ASSUME ResponsesAssumption ==
    \A r \in {a.resp : a \in Answers} :
        /\ r.kind \in {"stream", "body", "image"}
        /\ r.kind = "stream" => r.events \in Seq(Range(r.events))
        /\ r.kind = "image" => /\ r.tokens \in Seq([string : BOOLEAN, chars : Seq(STRING)])
                               /\ WellFormed(r.tokens)

VARIABLES
    resp, route,
    remaining,   \* bytes of the response that have not arrived
    ext,         \* the extractor
    finalized,   \* the handler has finalized
    row,         \* the ledger row
    verdict      \* what reconciliation says of the amount

usageVars == <<resp, route, remaining, ext, finalized, row, verdict>>

OpenRow == [status |-> "open", error |-> Absent, raw |-> Absent,
            columns |-> LedgerMeterColumns([m \in {} |-> 0]), long |-> FALSE,
            webSearches |-> 0, units |-> 0, mismatch |-> FALSE, charged |-> 0]

UsageInit ==
    /\ \E a \in Answers : resp = a.resp /\ route = a.route
    /\ remaining = BytesOf(resp)
    /\ ext = NewExtractor /\ finalized = FALSE
    /\ row = OpenRow /\ verdict = "none"

Receive(n) ==
    /\ ~finalized /\ n <= Len(remaining)
    /\ ext' = Push(resp, ext, SubSeq(remaining, 1, n))
    /\ remaining' = SubSeq(remaining, n + 1, Len(remaining))
    /\ UNCHANGED <<resp, route, finalized, row, verdict>>

Failed(error) == [OpenRow EXCEPT !.status = "failed_unbilled", !.error = error]

(* A charge that is no safe integer throws and leaves the row as it was,   *)
(* for the sweeper.                                                        *)
Settled(usage, units) ==
    LET u       == IF usage = Absent THEN [part \in {} |-> 0] ELSE usage
        meters  == NormalizeUsageMeters(resp.endpoint, u, route.threshold)
        charged == ComputePricingCharge(route.spec, meters, WebSearches(u),
                                        route.sku, units)
    IN  IF charged > MaxSafe THEN row
        ELSE [status |-> "settled", error |-> Absent, raw |-> usage,
              columns |-> LedgerMeterColumns(meters), long |-> AppliedLong(meters),
              webSearches |-> WebSearches(u), units |-> units,
              mismatch |-> CacheWriteSumMismatch(resp.endpoint, u), charged |-> charged]

(* Complete token usage is billed even when the connection broke; units    *)
(* are billed only for what was delivered.                                 *)
RowAfter(found, interrupted) ==
    IF route.spec.basis = "token"
    THEN IF found.usage # Absent /\ found.complete THEN Settled(found.usage, 0)
         ELSE Failed(IF interrupted THEN "stream_interrupted" ELSE "usage_missing_waived")
    ELSE IF interrupted THEN Failed("stream_interrupted")
         ELSE IF found.units = 0 THEN Failed("unit_count_missing")
         ELSE Settled(found.usage, found.units)

(* Once, and the extractor is gone with the response.                      *)
Finalize(interrupted) ==
    /\ ~finalized /\ finalized' = TRUE
    /\ ~interrupted => remaining = <<>>
    /\ row' = RowAfter(Finish(resp, ext), interrupted)
    /\ remaining' = <<>> /\ ext' = NewExtractor
    /\ UNCHANGED <<resp, route, verdict>>

(* The charge again, from the columns and the price of the row.            *)
Recomputed ==
    ComputePricingCharge(route.spec, LedgerMeters(row.columns, row.long),
                         row.webSearches, route.sku, row.units)

ReconcileSettled ==
    /\ row.status = "settled" /\ verdict = "none"
    /\ verdict' = IF Recomputed = row.charged THEN "matched" ELSE "amount_mismatch"
    /\ UNCHANGED <<resp, route, remaining, ext, finalized, row>>

UsageNext ==
    \/ \E n \in 1..Len(remaining) : Receive(n)
    \/ \E interrupted \in BOOLEAN : Finalize(interrupted)
    \/ ReconcileSettled

UsageSpec == UsageInit /\ [][UsageNext]_usageVars

----------------------------------------------------------------------------
(* What the bytes that arrived say, read at once.                          *)
Arrived  == Len(BytesOf(resp)) - Len(remaining)
KeptSize == IF resp.kind = "image" THEN Len(Text(WithoutPictures(resp.tokens))) ELSE Arrived
BytesUpTo(k) == FlattenSeq([j \in 1..k |-> IF j = k THEN Line(j) ELSE Line(j) \o <<Newline>>])
WholeEvents ==
    {k \in DOMAIN resp.events :
        \E i \in 1..Arrived : SubSeq(BytesOf(resp), 1, i) = BytesUpTo(k)}
Told(k) == k \in WholeEvents /\ resp.endpoint \in StreamEndpoints
                              /\ resp.events[k].mentionsUsage
ReadAtOnce ==
    LET usage[k \in 0..Len(resp.events)] ==
            IF k = 0 THEN Absent
            ELSE IF Told(k) THEN UsageOfEvent(resp.endpoint, resp.events[k], usage[k - 1])
            ELSE usage[k - 1]
    IN  IF resp.kind = "stream"
        THEN [usage |-> usage[Len(resp.events)], units |-> 0,
              complete |-> \E k \in DOMAIN resp.events :
                              Told(k) /\ Completes(resp.endpoint, resp.events[k])]
        ELSE IF remaining = <<>>
        THEN ExtractBodyUsage(resp, IF resp.kind = "image"
                                    THEN Text(WithoutPictures(resp.tokens)) ELSE Line(1))
        ELSE Nothing

(* However the response is cut into chunks and wherever it breaks off, the *)
(* extractor answers what one reading of the arrived bytes would: an event *)
(* split between chunks counts once it is whole, nothing of an object that *)
(* is not there is believed, and of an image body exactly the pictures are *)
(* left out, so that only the rest counts against the buffer               *)
(* (sse-parser.ts:395-493, 980-1227).                                      *)
ExtractionIsFaithful ==
    ~finalized =>
        IF ext.overflowed THEN Finish(resp, ext) = Nothing /\ KeptSize > MaxBuffer
        ELSE Finish(resp, ext) = ReadAtOnce /\ ext.consumed <= MaxBuffer

(* The cache writes that Anthropic names by how long they are kept.        *)
NamedWrites(u) ==
    Num(u, "cache_creation", "ephemeral_5m_input_tokens")
      + Num(u, "cache_creation", "ephemeral_1h_input_tokens")

(* Tokens reported, whatever bucket they are reported in.                  *)
InputReported(endpoint, u) ==
    LET m == MetersOf(endpoint, u) IN
    CASE endpoint = "chat_completions" ->
           Larger(Num(u, Top, "prompt_tokens"), m.cached_input + m.cache_write)
      [] endpoint = "responses" ->
           Larger(Num(u, Top, "input_tokens"), m.cached_input + m.cache_write)
      [] endpoint = "messages" ->
           Num(u, Top, "input_tokens") + Num(u, Top, "cache_read_input_tokens")
             + IF Reports(u, Top, "cache_creation_input_tokens")
               THEN Num(u, Top, "cache_creation_input_tokens")
               ELSE NamedWrites(u)
      [] endpoint = "embeddings" -> Num(u, Top, "prompt_tokens")
      [] endpoint = "images" ->
           Larger(Num(u, ImageDetails(u), "text_tokens"), m.cached_input)
             + Larger(Num(u, ImageDetails(u), "image_tokens"), m.cached_image_input)
OutputReported(endpoint, u) ==
    CASE endpoint = "chat_completions"          -> Num(u, Top, "completion_tokens")
      [] endpoint \in {"responses", "messages"} -> Num(u, Top, "output_tokens")
      [] endpoint = "embeddings"                -> 0
      [] endpoint = "images" ->
           Num(u, Top, IF Reports(u, Top, "output_tokens")
                       THEN "output_tokens" ELSE "completion_tokens")
OutputColumns == {"outputTokens", "imageOutputTokens"}

(* The total of the cache writes, when there is one, disagrees with the    *)
(* writes that are named.                                                  *)
Contradicts(endpoint, u) ==
    /\ endpoint = "messages" /\ Reports(u, Top, "cache_creation_input_tokens")
    /\ LET total == Num(u, Top, "cache_creation_input_tokens")
       IN  IF Reports(u, "cache_creation", "ephemeral_5m_input_tokens")
           THEN total # NamedWrites(u) ELSE total < NamedWrites(u)

(* The total holds the writes that are named, but they are all kept for an *)
(* hour, and the report leaves the writes of five minutes to be inferred.  *)
HourAlone(endpoint, u) ==
    /\ endpoint = "messages" /\ Reports(u, Top, "cache_creation_input_tokens")
    /\ ~Reports(u, "cache_creation", "ephemeral_5m_input_tokens")
    /\ NamedWrites(u) \in 1..Num(u, Top, "cache_creation_input_tokens")
CountedAgain(endpoint, u) == IF HourAlone(endpoint, u) THEN NamedWrites(u) ELSE 0

(* The exact price of a row over one common unit.                          *)
CommonUnit == Max({route.spec.rates[k].unit : k \in DOMAIN route.spec.rates})
PriceOf(meter, quantity) ==
    IF meter \notin DOMAIN route.spec.rates THEN 0
    ELSE quantity * route.spec.rates[meter].price
           * (CommonUnit \div route.spec.rates[meter].unit)
ExactDue ==
    IF route.spec.basis = "token"
    THEN SumOf([c \in DOMAIN row.columns |->
                    PriceOf(MeterOfColumn(c, row.long), row.columns[c])],
               DOMAIN row.columns)
         + PriceOf(WebSearch, row.webSearches)
    ELSE PriceOf(route.sku, row.units)

(* What the row and the request say of the usage that was billed.          *)
BilledUsage == IF row.raw = Absent THEN [part \in {} |-> 0] ELSE row.raw

(* The columns of a settled row hold what the report says, of input and of *)
(* output, whatever the endpoint, long context and invalid counts          *)
(* included: no token is lost between the buckets and the columns, and     *)
(* none is counted twice but the following (billing.ts:111-241,            *)
(* settlement.ts:41-64).  Of a Messages report with the total of the cache *)
(* writes and the writes of an hour only, the code takes the whole total   *)
(* for writes of five minutes (billing.ts:162): the writes of an hour      *)
(* are counted once more, exactly once more, and the row is flagged.  A    *)
(* report that contradicts itself has no right sum: its row is flagged.    *)
TokensConserved ==
    LET endpoint == resp.endpoint IN
    row.status = "settled" =>
        /\ SumOf(row.columns, OutputColumns) = OutputReported(endpoint, BilledUsage)
        /\ ~Contradicts(endpoint, BilledUsage) =>
              SumOf(row.columns, DOMAIN row.columns \ OutputColumns)
                = InputReported(endpoint, BilledUsage) + CountedAgain(endpoint, BilledUsage)
        /\ Contradicts(endpoint, BilledUsage) \/ HourAlone(endpoint, BilledUsage)
              => row.mismatch

(* The charge of a settled row is the exact price of its columns, rounded  *)
(* up once and at least 1 (pricing-spec.ts:188-257).                       *)
ChargedExactly ==
    row.status = "settled" =>
        row.charged = AtLeastOne(CeilDiv(ExactDue, CommonUnit))

(* Reconciliation, which has only the columns of the row, agrees with the  *)
(* settlement, which had the meters: a call that was billed by this code   *)
(* is never reported as a wrong amount (settlement.ts:41-64, reconcile.ts: *)
(* 78-121).                                                                *)
ReconciliationAgrees == verdict # "amount_mismatch"
=============================================================================
