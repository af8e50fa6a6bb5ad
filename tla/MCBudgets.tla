------------------------------ MODULE MCBudgets ------------------------------
(***************************************************************************)
(* Instances of Budgets for TLC: rows, and what the operator PUTs.  TLC    *)
(* evaluates the assumptions first: on the calendar of Budgets, and on     *)
(* what UsageBooks and Completions compute, against what is meant,         *)
(* over small payloads, counts, tables, files, requests and answers.       *)
(***************************************************************************)
EXTENDS Budgets, Completions, Functions, TLC

Symmetry == Permutations(Requests)

Limits(daily, weekly) ==
    [p \in Periods |-> CASE p = "daily" -> daily [] p = "weekly" -> weekly
                         [] p = "monthly" -> Unlimited]

Row(daily, weekly, percent) ==
    [configured |-> TRUE, limits |-> Limits(daily, weekly), percent |-> percent,
     stamp |-> None]

Body(daily, percent, perMinute) ==
    [limits |-> [p \in Periods |-> IF p = "daily" THEN daily ELSE None],
     percent |-> percent, rpm |-> perMinute]

\* A day's cap, alone or inside a week's, with a warning at half of it, which the
\* operator moves, or whose threshold is set to zero.
CapScenes ==
    [row : {Row(2, Unlimited, 50), Row(1, 2, 50)}, rpm : {0},
     bodies : {{Body(3, None, None), Body(None, 0, None)}}, spend : {4}]

\* A ceiling, which the operator moves, and no cap.
RateScenes ==
    [row : {NoRow}, rpm : {2}, bodies : {{Body(None, None, 1)}}, spend : {0}]

AllScenes == CapScenes \union RateScenes

-----------------------------------------------------------------------------
(***************************************************************************)
(* The real periods against the calendar: dates that follow one another    *)
(* from the first of January 1970, over every end of a month and every     *)
(* kind of year.                                                           *)
(***************************************************************************)
Leap(year) == year % 4 = 0 /\ (year % 100 # 0 \/ year % 400 = 0)
MonthLengths(year) ==
    <<31, IF Leap(year) THEN 29 ELSE 28, 31, 30, 31, 30, 31, 31, 30, 31, 30, 31>>

NextDate(date) ==
    IF date.day < MonthLengths(date.year)[date.month] THEN [date EXCEPT !.day = @ + 1]
    ELSE IF date.month < 12 THEN [date EXCEPT !.month = @ + 1, !.day = 1]
    ELSE [year |-> date.year + 1, month |-> 1, day |-> 1]

\* The days from 1968 to 1974, from 1999 to 2002 and around the year 2100, and
\* the days around the first of March of the year 0, where the count turns.
Days == -731 .. 1500 \cup 10590 .. 11700 \cup 47400 .. 47600 \cup -719500 .. -719400

\* Each day's date follows that of the day before, and its number is found
\* again from the date; the day 0 is the first of January 1970.
ASSUME DatesFollowOneAnother ==
    /\ civil_from_days(0) = [year |-> 1970, month |-> 1, day |-> 1]
    /\ \A d \in Days :
         LET date == civil_from_days(d) IN
         /\ civil_from_days(d + 1) = NextDate(date)
         /\ days_from_civil(date.year, date.month, date.day) = d

\* A spending period holds its moment, starts once, and the next one starts
\* where it ends: a cost counts in one period of each kind and in no two
\* (budgets.rs:485-507).  A month is 28 to 31 days long.
ASSUME PeriodsDivideTheTime ==
    \A d \in Days, second \in {0, 1, SecondsOfDay - 1} :
      LET moment == d * SecondsOfDay + second IN
      -1500 <= d /\ d <= 11700 =>
        \A p \in {"daily", "weekly", "monthly"} :
          LET start == period_start(p, moment)
              longest == CASE p = "daily" -> 1 [] p = "weekly" -> 7 [] p = "monthly" -> 31
          IN /\ start <= moment /\ moment - start < longest * SecondsOfDay
             /\ period_start(p, start) = start
             /\ period_start(p, start - 1) < start
             /\ \A e \in 0 .. 6 :
                  start <= moment - e * SecondsOfDay =>
                    period_start(p, moment - e * SecondsOfDay) = start

-----------------------------------------------------------------------------
(***************************************************************************)
(* The books, against what they are meant to say.                          *)
(***************************************************************************)
\* Every provider family's spelling is read, and a zero told under one
\* spelling does not hide what another tells
\* (heterion-router-usage/src/provider_usage.rs:95-103).
ASSUME AZeroHidesNothing ==
    \A some \in {S \in SUBSET CACHE_READ : S # {}} : \A told \in [some -> {0, 7}] :
      /\ from_payload([usage |-> told]).cache_read # 0 <=> 7 \in Range(told)
      /\ from_payload([usageMetadata |-> told]) = from_payload(told)
      /\ from_payload([response |-> [usage |-> told]]) = from_payload(told)

\* A usage field that is no object hides the counts beside it.
ASSUME ANullHidesTheMetadata ==
    from_payload([usage |-> [null |-> 0],
                  usageMetadata |-> [cachedContentTokenCount |-> 7]]) = NoDetails

\* What an upstream has told is kept, nothing is free, and a total that was
\* put together is the sum (usage_estimate.rs:19-38).
ASSUME EstimatesKeepWhatWasTold ==
    \A prompt, completion, total \in 0..2, estimate, bytes \in {0, 9} :
      LET told == [prompt |-> prompt, completion |-> completion, total |-> total]
          filled == fill_missing(told, estimate, bytes)
      IN /\ prompt # 0 => filled.prompt = prompt
         /\ completion # 0 => filled.completion = completion
         /\ filled.prompt > 0 /\ filled.completion > 0
         /\ filled = told \/ filled.total = filled.prompt + filled.completion

SomePrice == [input |-> 4, output |-> 6, cached |-> 1, reasoning |-> 9, cache_creation |-> 5]

\* A cached token is cheaper than a fresh one while the cached tokens are
\* among the prompt's, as every upstream counts them; beyond, each is billed
\* on top (heterion-router-usage/src/pricing.rs:150-162).
ASSUME CachedTokensAreCheaper ==
    \A prompt, completion, cached \in 0..4 :
      LET counts == [prompt |-> prompt, completion |-> completion, total |-> 0]
          billed == cost_usd(SomePrice, counts, [NoDetails EXCEPT !.cache_read = cached])
      IN cached <= prompt => billed <= cost_usd(SomePrice, counts, NoDetails)
ASSUME CachedBeyondThePromptCostsMore ==
    LET counts == [prompt |-> 0, completion |-> 1, total |-> 1]
    IN cost_usd(SomePrice, counts, [NoDetails EXCEPT !.cache_read = 2])
         > cost_usd(SomePrice, counts, NoDetails)

\* A call is priced by the name it was asked for under: one that a priced
\* model answered under another name has no cost in its headers.
ASSUME PricedByTheNameAskedFor ==
    LET used == [prompt |-> 1, completion |-> 1, total |-> 2]
        by == [provider |-> "p", connection |-> "c", combo |-> "fast"]
        cost(asked) == router_headers([m |-> SomePrice], by, asked, "m", used, NoDetails).cost
    IN cost("fast") = {} /\ cost("m") # {}

\* A prompt is never estimated free, and every byte of it counts.
ASSUME EstimatesGrow ==
    \A text, calls \in 0..8 :
      LET estimate(n) == estimate_prompt_tokens(
                           <<[role |-> 4, text |-> n, calls |-> calls, id |-> 0]>>, 0)
      IN estimate(text) > 0 /\ estimate(text) <= estimate(text + 1)

\* However the two writes fare, no call is in the books twice, and the two
\* tables agree on what was used, by whom and where
\* (lib.rs:735-736); a key that asks for no log is in neither.
ASSUME TablesAgree ==
    \A no_log \in BOOLEAN, resolved \in {NoValue, "n"} :
      \A books \in record_completion_usage(
            [usage_history |-> {}, call_logs |-> {}], [key |-> "k", no_log |-> no_log],
            [model |-> "m", resolved |-> resolved,
             usage |-> [prompt |-> 1, completion |-> 2, total |-> 3],
             details |-> cached_usage([raw |-> [kind |-> NoValue]]), success |-> TRUE,
             error |-> NoValue, latency |-> 5, status |-> 200, type |-> "chat",
             summary |-> "1 messages, 0 tools"],
            [provider |-> "p", connection |-> "c", combo |-> NoValue], 1, 9) :
        /\ no_log => books.usage_history = {} /\ books.call_logs = {}
        /\ Cardinality(books.usage_history) <= 1 /\ Cardinality(books.call_logs) <= 1
        /\ \A u \in books.usage_history, c \in books.call_logs :
             \A field \in DOMAIN u \ {"success"} : u[field] = c[field]

\* A refused request is seen among the calls and counts nothing as usage
\* (budgets.rs:331-359).
ASSUME RefusalsAreNoUsage ==
    \A no_log \in BOOLEAN, path \in {"chat/completions", "embeddings"} :
      \A books \in record_rejection([usage_history |-> {}, call_logs |-> {}],
                         [key |-> "k", no_log |-> no_log], path, "budget_exceeded", 1, 9) :
        /\ books.usage_history = {}
        /\ books.call_logs # {} =>
             /\ ~no_log
             /\ recent_calls(books.call_logs, 1, 10) = books.call_logs

-----------------------------------------------------------------------------
SomeRows(latencies) ==
    LET places == 1..4
        names == <<"p", "q", "p", "q">>
    IN UNION {{ {[id |-> i, provider |-> names[i], model |-> "m", success |-> TRUE,
                  latency |-> l[i], tokens |-> [prompt |-> i],
                  timestamp |-> [at |-> i, spelt |-> s[i]]] : i \in some} :
                l \in [places -> latencies], s \in [places -> {"sqlite", "iso"}] } :
              some \in SUBSET places}

\* A percentile is a latency that was measured, no fewer than its share of the
\* calls were as fast, and the three are in order (repos.rs:1024-1063).
ASSUME PercentilesAreMeasured ==
    \A rows \in SomeRows({1, 2, 3}) :
      LET measured == latency_percentiles(rows, 2)
          sample == usage_window(rows, 2)
      IN IF sample = {} THEN measured = <<>>
         ELSE /\ \A p \in DOMAIN measured :
                   /\ measured[p] \in {entry.latency : entry \in sample}
                   /\ 100 * Cardinality({entry \in sample : entry.latency <= measured[p]})
                        >= p * Cardinality(sample)
              /\ measured[50] <= measured[95] /\ measured[95] <= measured[99]

\* The buckets add up to the totals while the clock does not move between
\* the queries; when it does, a bucket may lack a call the totals count, and
\* never has one they lack (repos.rs:989-1022).
ASSUME BucketsAddUp ==
    \A rows \in SomeRows({1}), first \in 0..5, later \in 0..5 :
      \A summary \in usage_summary(rows, <<first, first, later, later>>, 2) :
        LET counted == Total(summary.by_provider, LAMBDA b : b.requests)
        IN /\ first = later => counted = summary.requests
           /\ first <= later => counted <= summary.requests

\* The rows that are priced are those the totals count.
ASSUME PricedRowsAreTheCounted ==
    \A rows \in SomeRows({1}), since \in 0..5 :
      \A summary \in usage_summary(rows, <<since, since, since, since>>, 2) :
        LET priced == usage_cost_rows_in_window(rows, since)
        IN /\ Cardinality(priced) = summary.requests
           /\ Total(priced, LAMBDA r : r.tokens.prompt) = summary.prompt

\* A list cut to its largest is as long as it may be, and leaves out none
\* that is larger (repos.rs:1184-1204).
ASSUME LargestFirst ==
    \A rows \in SomeRows({1}), top \in 0..2 :
      \A some \in buckets(rows, "provider", top) :
        /\ Cardinality(some) <= top
        /\ \A b \in some : \A c \in AllBuckets(rows, "provider") :
             c.requests > b.requests => c \in some

\* The calls that are listed are the newest, while all times are spelt one
\* way; else one listed may be older than one left out (repos.rs:1221-1229).
ASSUME NewestFirst ==
    \A rows \in SomeRows({1}) :
      (\A a, b \in rows : a.timestamp.spelt = b.timestamp.spelt) =>
        \A a \in recent_calls(rows, 2, 10), b \in rows :
          b \notin recent_calls(rows, 2, 10) => a.timestamp.at >= b.timestamp.at
ASSUME MixedTimesAreOutOfOrder ==
    \E rows \in SomeRows({1}) :
      \E a \in recent_calls(rows, 1, 10), b \in rows :
        b \notin recent_calls(rows, 1, 10) /\ a.timestamp.at < b.timestamp.at

-----------------------------------------------------------------------------
(***************************************************************************)
(* What the dashboard shows, against what there is.                        *)
(***************************************************************************)
\* Files of up to seven bytes: characters of one or two bytes, and ends of lines.
Kinds == {f \in UNION {[1..n -> {"head", "rest", "end"}] : n \in 0..7} :
            \A i \in DOMAIN f : f[i] = "rest" => i > 1 /\ f[i - 1] = "head"}
LogFiles == {[i \in DOMAIN f |-> [kind |-> f[i], at |-> i]] : f \in Kinds}
LinesOf(bytes) == {LineAt(bytes, s) : s \in Starts(bytes)}

\* However the end of a log is cut, no more lines are told than were asked for,
\* the last ones are, without a gap, and none begins in the middle of a
\* character (admin.rs:540-572).
ASSUME TheTailIsTold ==
    \A bytes \in LogFiles, wanted \in 1..3, most \in {1, 3, 7} :
      LET told == tail_lines(bytes, wanted, most) \ {<<>>}
          from == Min({line[1].at : line \in told})
      IN /\ Cardinality(told) <= wanted
         /\ \A line \in told : line[1].kind = "head"
         /\ \A line \in told : line[1].at > from => line \in LinesOf(bytes)
         /\ told # {} => \A line \in LinesOf(bytes) \ {<<>>} : line[1].at > from => line \in told

\* A file that is no longer than what is read of it loses nothing.
ASSUME ShortFilesAreWhole ==
    \A bytes \in LogFiles :
      LET whole == tail_lines(bytes, 7, 7) IN whole = LinesOf(bytes)

\* A line the cut went through is told as if it were one, though
\* admin.rs:543-544 says it is dropped.
ASSUME ACutLineIsTold ==
    \E bytes \in LogFiles : \E line \in tail_lines(bytes, 3, 3) :
      line # <<>> /\ \A whole \in LinesOf(bytes) : line # whole

\* The page shows the end of one file, which an old one without a date is, however
\* late the dated ones are (admin.rs:505-531, 574-589).
ASSUME TheUndatedFileIsRead ==
    \A files \in SUBSET (0..3) :
      application_log_path(files) = Undated <=> Undated \in files \/ files = {}

\* So many lines are shown of it as were asked for, or as it has.
ASSUME TheAskedLinesAreShown ==
    \A files \in (SUBSET (0..2)) \ {{}}, asked \in 1..3 :
      LET disk == [f \in files |-> [i \in 1..6 |-> [kind |-> IF i % 2 = 0 THEN "end" ELSE "head",
                                                  at |-> 10 * f + i]]]
          shown == logs_app(disk, [limit |-> asked], 7)
          from == IF 0 \in files THEN 0 ELSE 10 * Max(files)
      IN shown = {<<[kind |-> "head", at |-> from + i]>> : i \in {7 - 2 * n : n \in 1..asked}}

\* However much a query asks for, a report is over one day to ninety, and a day
\* more never counts a call less (admin.rs:36-54, 418-431).
ASSUME ALongerWindowCountsMore ==
    \A asked \in {0, 1, 2, 90, 1000} :
      LET rows == CHOOSE some \in SomeRows({1}) : Cardinality(some) = 4
          clock == <<4, 4, 4, 4>>
      IN /\ list_days([days |-> asked]) \in 1..90 /\ list_days([limit |-> 3]) = 7
         /\ list_limit([limit |-> asked]) \in 1..500 /\ lines_limit([days |-> 3]) = 50
         /\ \A short \in usage_page(rows, [days |-> asked], clock, 1) :
              \A long \in usage_page(rows, [days |-> asked + 1], clock, 1) :
                short.summary.requests <= long.summary.requests
         /\ Cardinality(logs_page(rows, [limit |-> asked], 10)) <= list_limit([limit |-> asked])

-----------------------------------------------------------------------------
(***************************************************************************)
(* Whole answers over small requests, answers and errors.                  *)
(***************************************************************************)
EmptyBooks == [usage_history |-> {}, call_logs |-> {}]
SomePrices == [m |-> [input |-> 4, output |-> 6, cached |-> 1, reasoning |-> 0,
                      cache_creation |-> 0]]
ServedBy == [provider |-> "p", connection |-> "c", combo |-> NoValue]
KeyOf(no_log) == [key |-> "k", no_log |-> no_log, models |-> {"m", "fast"}]

RequestFor(model) ==
    [model |-> model, tools |-> [kind |-> "array", count |-> 2, bytes |-> 9],
     messages |-> <<[role |-> 4, text |-> 20, calls |-> 0, id |-> 0]>>]

Outcomes ==
    {[kind |-> "answer", model |-> served, bytes |-> 12, kept |-> kept, rendered |-> rendered,
      usage |-> [prompt |-> prompt, completion |-> completion, total |-> prompt + completion],
      raw |-> IF cached = 0 THEN [kind |-> NoValue]
              ELSE [kind |-> "usage", payload |-> [cachedContentTokenCount |-> cached]]] :
       served \in {"m", "n"}, kept \in {4, 12}, rendered \in BOOLEAN,
       prompt \in {0, 5}, completion \in {0, 3}, cached \in {0, 2}}
    \cup {[kind |-> "upstream", status |-> s] : s \in {0, 401, 429, 500}}
    \cup {[kind |-> "invalid"], [kind |-> "unknown"]}

Chats(no_log, model, outcome) ==
    chat_completions(EmptyBooks, SomePrices, KeyOf(no_log), ServedBy,
                     RequestFor(model), outcome, 7, 1, 9)
Messages(no_log, model, outcome) ==
    messages(EmptyBooks, SomePrices, KeyOf(no_log), ServedBy,
             RequestFor(model), outcome, 7, 1, 9)

\* What the headers charge for is what the books say was used, on either
\* surface; only an answer has a cost, and the call's row has the status the
\* client was given (lib.rs:472-561, claude_endpoint.rs:87-162).
ASSUME ChargedAsBooked ==
    \A no_log \in BOOLEAN, model \in {"m", "fast", "other"}, outcome \in Outcomes :
      \A end \in Chats(no_log, model, outcome) \cup Messages(no_log, model, outcome) :
        /\ end.headers.cost # {} => end.status = 200 /\ model = "m"
        /\ \A entry \in end.books.usage_history :
             /\ entry.success <=> end.status = 200
             /\ end.headers.cost # {} =>
                  end.headers.cost = {cost_usd(SomePrices.m, entry.tokens, entry.details)}
        /\ \A entry \in end.books.call_logs : entry.status = end.status
        /\ end.status = 403 /\ model = "other" => end.books = EmptyBooks

\* Nothing that was answered looks free, whatever the upstream told.
ASSUME NoAnswerIsFree ==
    \A outcome \in Outcomes : \A end \in Chats(FALSE, "m", outcome) :
      end.status = 200 =>
        /\ end.headers.cost # {0}
        /\ \A entry \in end.books.usage_history :
             entry.tokens.prompt > 0 /\ entry.tokens.completion > 0

\* The body tells the client what the upstream told, though the cost beside it is
\* that of the estimate.
ASSUME ChargedForMoreThanTold ==
    \E outcome \in Outcomes : \E end \in Chats(FALSE, "m", outcome) :
      end.status = 200 /\ end.usage.total = 0 /\ end.headers.cost # {0}

\* The two surfaces book one answer alike, but for the name of the call, unless
\* the guard has cut it on one or the dialect cannot tell it on the other.
ASSUME SurfacesBookAlike ==
    \A outcome \in Outcomes :
      (outcome.kind = "answer" /\ outcome.kept = outcome.bytes /\ outcome.rendered) =>
        {end.books.usage_history : end \in Chats(FALSE, "m", outcome)}
          = {end.books.usage_history : end \in Messages(FALSE, "m", outcome)}
ASSUME ACutAnswerIsBookedShorter ==
    \E outcome \in Outcomes :
      \E chat \in Chats(FALSE, "m", outcome), message \in Messages(FALSE, "m", outcome) :
        \E c \in chat.books.usage_history, m \in message.books.usage_history :
          c.success /\ m.success /\ c.tokens.completion < m.tokens.completion

\* What count_tokens tells is what the prompt is booked as when the upstream
\* tells nothing; a client that may not use the model is told nothing.
ASSUME CountedAsBooked ==
    \A outcome \in Outcomes : outcome.kind = "answer" =>
      /\ count_tokens(KeyOf(FALSE), RequestFor("other")).input_tokens = 0
      /\ \A end \in Chats(FALSE, "m", outcome) :
           outcome.usage.prompt # 0 \/ \A entry \in end.books.usage_history :
             entry.tokens.prompt = count_tokens(KeyOf(FALSE), RequestFor("m")).input_tokens

=============================================================================
