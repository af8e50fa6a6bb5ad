----------------------------- MODULE Completions -----------------------------
(***************************************************************************)
(* One whole answer, from the request to the rows and the headers:         *)
(* chat_completions of crates/heterion-router-gateway/src/lib.rs, messages *)
(* and count_tokens of claude_endpoint.rs, and usage_estimate.rs.  Streams *)
(* has the streamed answers, ResponseStore what responses stores.          *)
(*                                                                         *)
(* A request is [model, messages, tools]: messages as in UsageBooks, tools *)
(* [kind, count, bytes].  What the backend came to is an answer [model,    *)
(* usage, bytes, kept, raw, rendered] or an error [kind, status]: kept is  *)
(* how much of its text the repetition guard leaves, and rendered whether  *)
(* the Claude dialect can tell it.                                         *)
(***************************************************************************)
EXTENDS UsageBooks

\* The statuses a client can act on are repeated.
client_status(status) ==
    IF status \in {400, 401, 403, 404, 409, 422, 429} THEN status ELSE 502

error_status(error) ==
    CASE error.kind = "invalid" -> 400
      [] error.kind = "unknown" -> 404
      [] error.kind = "upstream" -> client_status(error.status)

\* Counts, and nothing of the content.
request_summary(request) ==
    [messages |-> Len(request.messages),
     tools |-> CASE request.tools.kind = "array" -> request.tools.count
                 [] request.tools.kind = "none" -> 0
                 [] OTHER -> 1]

Estimate(request) == estimate_prompt_tokens(request.messages, request.tools.bytes)

NoUsage == [prompt |-> 0, completion |-> 0, total |-> 0]

\* What is booked of an answer with so many bytes of text, and of an error.
Finished(type, request, response, bytes, took) ==
    [model |-> request.model, resolved |-> response.model,
     usage |-> fill_missing(response.usage, Estimate(request), bytes),
     details |-> cached_usage(response), success |-> TRUE, error |-> NoValue,
     latency |-> took, status |-> 200, type |-> type, summary |-> request_summary(request)]

Failed(type, request, error, took) ==
    [model |-> request.model, resolved |-> NoValue,
     usage |-> NoUsage, details |-> NoDetails,
     success |-> FALSE, error |-> "upstream_error", latency |-> took,
     status |-> error_status(error), type |-> type, summary |-> request_summary(request)]

NoHeaders == [cost |-> {}, provider |-> NoValue, model_used |-> NoValue]

\* What a request that changes nothing is answered with.
Refusal(books, status) ==
    {[books |-> books, status |-> status, usage |-> NoUsage, headers |-> NoHeaders]}

\* The client is told what the answer said it used, the books and the headers
\* what it is taken to have used.
Answered(books, prices, auth, by, call, response, id, now) ==
    {[books |-> after, status |-> 200, usage |-> response.usage,
      headers |-> router_headers(prices, by, call.model, call.resolved,
                                 call.usage, call.details)] :
       after \in record_completion_usage(books, auth, call, by, id, now)}

Broken(books, auth, by, call, id, now) ==
    {[books |-> after, status |-> call.status, usage |-> NoUsage, headers |-> NoHeaders] :
       after \in record_completion_usage(books, auth, call, by, id, now)}

\* POST /v1/chat/completions without a stream.  The repetition guard cuts the
\* answer before its text is measured.
chat_completions(books, prices, auth, by, request, outcome, took, id, now) ==
    IF request.model \notin auth.models THEN Refusal(books, 403)
    ELSE IF outcome.kind = "answer"
    THEN Answered(books, prices, auth, by,
                  Finished("chat", request, outcome, outcome.kept, took), outcome, id, now)
    ELSE Broken(books, auth, by, Failed("chat", request, outcome, took), id, now)

\* POST /v1/messages without a stream: the guard is not asked, and an answer that
\* cannot be rendered is an upstream's fault.
messages(books, prices, auth, by, request, outcome, took, id, now) ==
    IF request.model \notin auth.models THEN Refusal(books, 403)
    ELSE IF outcome.kind = "answer" /\ outcome.rendered
    THEN Answered(books, prices, auth, by,
                  Finished("messages", request, outcome, outcome.bytes, took), outcome, id, now)
    ELSE LET error == IF outcome.kind = "answer" THEN [kind |-> "upstream", status |-> 0]
                      ELSE outcome
         IN  Broken(books, auth, by, Failed("messages", request, error, took), id, now)

\* POST /v1/messages/count_tokens: no upstream is asked and nothing is booked.
count_tokens(auth, request) ==
    IF request.model \notin auth.models THEN [status |-> 403, input_tokens |-> 0]
    ELSE [status |-> 200, input_tokens |-> Estimate(request)]

=============================================================================
