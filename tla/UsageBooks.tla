------------------------------ MODULE UsageBooks ------------------------------
(***************************************************************************)
(* What a completion is said to have used, what that costs, and the two    *)
(* tables it is booked in: crates/heterion-router-usage (pricing,          *)
(* provider_usage, records), usage_estimate.rs and the bookkeeping helpers *)
(* of lib.rs in the gateway, and the readings of repos.rs in the database  *)
(* crate that summarise, age and list the rows.                            *)
(*                                                                         *)
(* When a completion is booked is the subject of Streams and of            *)
(* RoutingBackend; here is what is written and what can be read from it.   *)
(* Token counts are naturals below the width of their columns, rates whole *)
(* numbers per token, times whole seconds.  The dashboard reads the        *)
(* summary and the list of calls; nothing in the running gateway calls the *)
(* purge or asks for the rows of a window yet.                             *)
(***************************************************************************)
EXTENDS Integers, Sequences, FiniteSets, FiniteSetsExt

NoValue == "none"

-----------------------------------------------------------------------------
(***************************************************************************)
(* Counts.  A payload is a record of the objects a usage block may be in;  *)
(* a block a record of the counts it tells, named by their spelling, where *)
(* an object in an object is told as one name.                             *)
(***************************************************************************)
CACHE_READ == {"cache_read_input_tokens", "input_tokens_details.cached_tokens",
               "prompt_tokens_details.cached_tokens", "cachedContentTokenCount"}
CACHE_CREATION == {"cache_creation_input_tokens", "cache_creation_tokens"}
REASONING == {"output_tokens_details.reasoning_tokens", "reasoning_tokens",
              "completion_tokens_details.reasoning_tokens", "thoughtsTokenCount",
              "output_tokens_details.thinking_tokens"}
Spelt == CACHE_READ \cup CACHE_CREATION \cup REASONING

\* The order in which the spellings are tried.
TriedBefore(a, b) ==
    LET order == <<"cache_read_input_tokens", "input_tokens_details.cached_tokens",
                   "prompt_tokens_details.cached_tokens", "cachedContentTokenCount",
                   "cache_creation_input_tokens", "cache_creation_tokens",
                   "output_tokens_details.reasoning_tokens",
                   "completion_tokens_details.reasoning_tokens", "reasoning_tokens",
                   "output_tokens_details.thinking_tokens", "thoughtsTokenCount">>
        place(s) == CHOOSE i \in 1..Len(order) : order[i] = s
    IN place(a) < place(b)

\* The first of the spellings that is told and not zero, or zero.
first_count(usage, spellings) ==
    LET told == {s \in spellings \cap DOMAIN usage : usage[s] # 0} IN
    IF told = {} THEN 0
    ELSE usage[CHOOSE s \in told : \A t \in told \ {s} : TriedBefore(s, t)]

\* The first of the three that the payload has, if it is an object; else the
\* payload itself, if it tells a count.  "null" is a field that is no object.
usage_block(payload) ==
    LET has == DOMAIN payload
        found == IF "usage" \in has THEN payload.usage
                 ELSE IF "usageMetadata" \in has THEN payload.usageMetadata
                 ELSE IF "response" \in has THEN payload.response.usage
                 ELSE [null |-> 0]
    IN IF "null" \notin DOMAIN found THEN found
       ELSE IF has \cap Spelt # {} THEN payload ELSE <<>>

from_payload(payload) ==
    [cache_read |-> first_count(usage_block(payload), CACHE_READ),
     cache_creation |-> first_count(usage_block(payload), CACHE_CREATION),
     reasoning |-> first_count(usage_block(payload), REASONING)]

NoDetails == [cache_read |-> 0, cache_creation |-> 0, reasoning |-> 0]

\* raw is the payload of the answer, or the string "none".
cached_usage(response) ==
    IF response.raw.kind = NoValue THEN NoDetails ELSE from_payload(response.raw.payload)

-----------------------------------------------------------------------------
(***************************************************************************)
(* Estimates, for an upstream that told nothing.  Texts are their lengths. *)
(***************************************************************************)
bytes_to_tokens(bytes) == bytes \div 4 + 1

SumOver(items, f(_)) == MapThenSumSet(LAMBDA i : f(items[i]), DOMAIN items)

\* A message is [role, text, calls, id]: the bytes of each.
estimate_prompt_tokens(messages, tools) ==
    bytes_to_tokens(tools + SumOver(messages,
                      LAMBDA m : m.role + m.text + m.calls + m.id + 16))

\* What was left at zero is filled, and the total follows.
fill_missing(usage, prompt_estimate, output_bytes) ==
    LET filled == [usage EXCEPT
          !.prompt = IF @ # 0 THEN @ ELSE Max({prompt_estimate, 1}),
          !.completion = IF @ # 0 THEN @ ELSE bytes_to_tokens(output_bytes)]
    IN IF filled = usage THEN usage
       ELSE [filled EXCEPT !.total = filled.prompt + filled.completion]

-----------------------------------------------------------------------------
(***************************************************************************)
(* Prices.  A price is a record of five rates; one that is not published   *)
(* is zero.                                                                *)
(***************************************************************************)
cache_read_rate(price) == IF price.cached > 0 THEN price.cached ELSE price.input
cache_creation_rate(price) ==
    IF price.cache_creation > 0 THEN price.cache_creation ELSE price.input
\* Reasoning is counted inside the output and pays the difference.
reasoning_premium(price) ==
    IF price.reasoning > price.output THEN price.reasoning - price.output ELSE 0

\* Cached input is counted inside the input.
Fresh(usage, details) ==
    IF details.cache_read < usage.prompt THEN usage.prompt - details.cache_read ELSE 0

cost_usd(price, usage, details) ==
    Fresh(usage, details) * price.input
      + details.cache_read * cache_read_rate(price)
      + usage.completion * price.output
      + details.reasoning * reasoning_premium(price)
      + details.cache_creation * cache_creation_rate(price)

\* The headers of a whole answer: the cost of the model that was asked for,
\* if it has a price, and the provider and the model that answered.
router_headers(prices, attribution, model, served, usage, details) ==
    [cost |-> IF model \in DOMAIN prices
              THEN {cost_usd(prices[model], usage, details)} ELSE {},
     provider |-> attribution.provider, model_used |-> served]

-----------------------------------------------------------------------------
(***************************************************************************)
(* The rows.  A timestamp is [at, spelt], by SQLite or, in the rows the    *)
(* Node server wrote, in ISO 8601.                                         *)
(***************************************************************************)
Stamp(now) == [at |-> now, spelt |-> "sqlite"]

source_format(request_type) ==
    IF request_type = "responses" THEN "openai-responses" ELSE "openai"

\* The model that is booked: the one that served, where one has answered.
Served(c) == IF c.resolved = NoValue THEN c.model ELSE c.resolved

UsageRecord(auth, c, attribution, now) ==
    [provider |-> attribution.provider, connection |-> attribution.connection,
     model |-> Served(c), key |-> auth.key, tokens |-> c.usage,
     details |-> c.details, success |-> c.success, error |-> c.error,
     latency |-> c.latency, timestamp |-> Stamp(now)]

CallLogRecord(auth, c, attribution, id, now) ==
    [provider |-> attribution.provider, connection |-> attribution.connection,
     model |-> Served(c), key |-> auth.key, tokens |-> c.usage,
     details |-> c.details, latency |-> c.latency, error |-> c.error,
     timestamp |-> Stamp(now), id |-> id, status |-> c.status,
     requested |-> c.model, combo |-> attribution.combo,
     source |-> source_format(c.type), summary |-> c.summary]

record_usage(books, record) == [books EXCEPT !.usage_history = @ \cup {record}]
record_call_log(books, record) == [books EXCEPT !.call_logs = @ \cup {record}]

\* A key that asks for no log leaves no row.  Each of the two writes may fail
\* without the other: the results are the tables there may be afterwards.
record_completion_usage(books, auth, c, attribution, id, now) ==
    IF auth.no_log THEN {books}
    ELSE LET booked == record_usage(books, UsageRecord(auth, c, attribution, now))
             call == CallLogRecord(auth, c, attribution, id, now)
         IN {books, booked, record_call_log(books, call), record_call_log(booked, call)}

\* What a path is called in the rows.
request_type(path) ==
    IF path \in {"responses", "messages", "embeddings"} THEN path ELSE "chat"

\* A request that was refused for its key's budget or rate: a call without a
\* model, a provider or tokens, and nothing in the usage table.
Rejection(auth, path, code, id, now) ==
    [provider |-> NoValue, connection |-> NoValue, model |-> NoValue, key |-> auth.key,
     tokens |-> [prompt |-> 0, completion |-> 0, total |-> 0], details |-> NoDetails,
     latency |-> 0, error |-> code, timestamp |-> Stamp(now), id |-> id, status |-> 429,
     requested |-> NoValue, combo |-> NoValue, source |-> "openai",
     summary |-> request_type(path)]

record_rejection(books, auth, path, code, id, now) ==
    IF auth.no_log THEN {books}
    ELSE {books, record_call_log(books, Rejection(auth, path, code, id, now))}

-----------------------------------------------------------------------------
(***************************************************************************)
(* Reading the rows.                                                       *)
(***************************************************************************)
\* Times are compared without their spelling.
ts_prefix(timestamp) == timestamp.at
usage_window(rows, since) == {row \in rows : ts_prefix(row.timestamp) >= since}

Total(rows, f(_)) == MapThenSumSet(f, rows)

\* The k-th of the latencies in order, for the least k that is a share of them.
nearest_rank(rows, percent) ==
    LET n == Cardinality(rows)
        rank == Max({1, (percent * n + 99) \div 100})
        upTo(v) == Cardinality({row \in rows : row.latency <= v})
    IN Min({row.latency : row \in {r \in rows : upTo(r.latency) >= rank}})

latency_percentiles(rows, since) ==
    LET sample == usage_window(rows, since) IN
    IF sample = {} THEN <<>>
    ELSE [p \in {50, 95, 99} |-> nearest_rank(sample, p)]

\* One bucket for each value of a column: the provider, or the model.
AllBuckets(rows, column) ==
    {[key |-> k, requests |-> Cardinality({row \in rows : row[column] = k}),
      tokens |-> Total({row \in rows : row[column] = k}, LAMBDA r : r.tokens.prompt)] :
       k \in {row[column] : row \in rows}}

\* The largest few; which of those with as many is not said.
buckets(rows, column, top) ==
    {some \in SUBSET AllBuckets(rows, column) :
       /\ Cardinality(some) = Min({top, Cardinality(AllBuckets(rows, column))})
       /\ \A b \in some, c \in AllBuckets(rows, column) \ some : b.requests >= c.requests}

\* Every query of a summary reads the clock again: since is a function of
\* which of the four it is.  The results are the summaries there may be.
usage_summary(rows, since, top) ==
    {[requests |-> Cardinality(usage_window(rows, since[1])),
      successes |-> Cardinality({row \in usage_window(rows, since[1]) : row.success}),
      prompt |-> Total(usage_window(rows, since[1]), LAMBDA r : r.tokens.prompt),
      latency |-> latency_percentiles(rows, since[2]),
      by_provider |-> p, by_model |-> m] :
       p \in buckets(usage_window(rows, since[3]), "provider", top),
       m \in buckets(usage_window(rows, since[4]), "model", top)}

\* What pricing needs of each row of a window.
usage_cost_rows_in_window(rows, since) ==
    {[id |-> row.id, model |-> row.model, tokens |-> row.tokens, latency |-> row.latency] :
       row \in usage_window(rows, since)}

\* Rows older than the days to keep; to keep none is to keep all.
purge_usage_older_than(rows, days, now) ==
    IF days = 0 THEN rows
    ELSE {row \in rows : ~(ts_prefix(row.timestamp) < now - days)}

\* The newest calls, by the text of their time: within a day, every time in
\* ISO 8601 comes after every one of SQLite.  Which of equal times are listed is
\* not said: all of them are here.
LaterText(a, b, day) ==
    \/ a.at \div day > b.at \div day
    \/ /\ a.at \div day = b.at \div day
       /\ \/ a.spelt = "iso" /\ b.spelt = "sqlite"
          \/ a.spelt = b.spelt /\ a.at > b.at

recent_calls(rows, limit, day) ==
    {row \in rows :
       Cardinality({r \in rows : LaterText(r.timestamp, row.timestamp, day)}) < limit}

-----------------------------------------------------------------------------
(***************************************************************************)
(* What an operator reads of a running gateway: GET /api/usage, /api/logs  *)
(* and /api/logs/app.  A query is a record of the fields it gives.  A log  *)
(* file is the sequence of its bytes: the head of a character, the rest of *)
(* one, or the end of a line.  Files are whole UTF-8.                      *)
(***************************************************************************)
Clamp(value, low, high) == Max({low, Min({value, high})})
Asks(query, field, otherwise) == IF field \in DOMAIN query THEN query[field] ELSE otherwise

list_days(query) == Clamp(Asks(query, "days", 7), 1, 90)
list_limit(query) == Clamp(Asks(query, "limit", 100), 1, 500)
lines_limit(query) == Clamp(Asks(query, "limit", 50), 1, 1000)

-----------------------------------------------------------------------------
(* GET /api/usage and GET /api/logs; day is the length of a day, and clock what *)
(* each of the four queries reads.                                              *)

usage_page(rows, query, clock, day) ==
    {[window_days |-> list_days(query), summary |-> summary] :
       summary \in usage_summary(rows, [i \in 1..4 |-> clock[i] - list_days(query) * day],
                                 Min({list_limit(query), 50}))}

logs_page(rows, query, day) == recent_calls(rows, list_limit(query), day)

-----------------------------------------------------------------------------
(* GET /api/logs/app *)

Undated == 0        \* gateway.log; a dated file is its date

\* The file without a date, if there is one; else the one with the last date.
application_log_path(files) ==
    IF Undated \in files \/ files = {} THEN Undated ELSE Max(files)

\* The end of a file: at most so many bytes, and no part of a character that
\* the cut went through.
LastBytes(bytes, most) == SubSeq(bytes, Max({1, Len(bytes) - most + 1}), Len(bytes))
WholeCharacters(window) ==
    LET heads == {i \in DOMAIN window : window[i].kind # "rest"}
    IN  IF heads = {} THEN <<>> ELSE SubSeq(window, Min(heads), Len(window))

\* The lines of a text, each with its bytes; what follows the last end is one, if
\* it is not empty.
Ends(text) == {i \in DOMAIN text : text[i].kind = "end"}
Starts(text) == {i \in DOMAIN text : i = 1 \/ i - 1 \in Ends(text)}
LineAt(text, start) ==
    SubSeq(text, start, Min({e - 1 : e \in {n \in Ends(text) : n >= start}} \cup {Len(text)}))

\* The last lines of that end, in their order in the file.
tail_lines(bytes, wanted, most) ==
    LET text == WholeCharacters(LastBytes(bytes, most))
        last == {s \in Starts(text) : Cardinality({t \in Starts(text) : t > s}) < wanted}
    IN  {LineAt(text, s) : s \in last}

\* disk is what each file holds; one that is not there has no lines.
logs_app(disk, query, most) ==
    LET path == application_log_path(DOMAIN disk)
    IN  IF path \notin DOMAIN disk THEN {} ELSE tail_lines(disk[path], lines_limit(query), most)

=============================================================================
