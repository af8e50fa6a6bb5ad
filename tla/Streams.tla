------------------------------- MODULE Streams -------------------------------
(***************************************************************************)
(* One streamed request, from the bytes of the upstream to the books: the  *)
(* pump of the provider executor (responses.rs), the forwarding task of    *)
(* the router (routing.rs), the repetition guard (repetition_guard.rs) and *)
(* the body the client reads, which owns the accounting (lib.rs,           *)
(* claude_endpoint.rs).                                                    *)
(*                                                                         *)
(* Two tasks are spawned, the pump and the router, each the sender of a    *)
(* bounded channel.  The body has no task: it runs when the client's       *)
(* connection asks for more, and is dropped with it.  A task learns that   *)
(* the one below it has gone only where it touches the channel.            *)
(*                                                                         *)
(* A frame is one decoded SSE event as the executor's translator hands it  *)
(* on, and carries at most one chunk.  Text is "plain", or the "loop" that *)
(* makes the answer one; counts are only there or not there.  Breakers,    *)
(* retries and the ring are in RoutingBackend: here a request simply has   *)
(* so many candidates.                                                     *)
(***************************************************************************)
EXTENDS Integers, Sequences

CONSTANTS
    Capacity,       \* of each mpsc channel
    Candidates,     \* how many backends the plan has
    MaxFrames,      \* bound: frames an upstream sends before it must end
    Executors       \* which executors may serve

ASSUME CapacityAssumption == Capacity \in Nat \ {0}
ASSUME CandidatesAssumption == Candidates \in Nat \ {0}
ASSUME MaxFramesAssumption == MaxFrames \in Nat
ASSUME ExecutorsAssumption == Executors \subseteq {"openai", "responses", "claude", "gemini"}

VARIABLES
    executor,       \* the executor of the current candidate
    attempt,        \* number of the candidate being tried
    pump,           \* [pc, finishSeen, pending, frames] of its spawned task
    answers,        \* channel from the pump to the router
    router,         \* [pc, pending] of the forwarding task
    items,          \* channel from the router to the body
    guard,          \* [terminal, finished] of the repetition guard
    books,          \* StreamAccounting
    body,           \* "open", "ended" by the stream or "dropped" by the client
    rows,           \* usage rows written
    told            \* history: what the client was sent

vars == <<executor, attempt, pump, answers, router, items, guard,
          books, body, rows, told>>

-----------------------------------------------------------------------------
(* Chunks and errors.                                                      *)

Chunk(text, finish, usage) ==
    [ok |-> TRUE, text |-> text, finish |-> finish, usage |-> usage,
     status |-> 0]

Stop == Chunk("none", "stop", FALSE)

\* The chunk a cut answer ends with, truncated_chunk().
Truncated == Chunk("none", "length", FALSE)

\* An upstream error with the status its message starts with or, when it
\* arrived in the body of a 200, the one its payload names; 0 is none.
Error(status) ==
    [ok |-> FALSE, text |-> "none", finish |-> "no", usage |-> FALSE,
     status |-> status]

Unterminated == Error(0)

\* What a frame translates to: a chunk, a refusal, something to ignore.
Chunks ==
    {Chunk("plain", "no", FALSE), Chunk("loop", "no", FALSE),
     Chunk("none", "no", TRUE), Stop, Chunk("none", "stop", TRUE),
     Chunk("loop", "stop", TRUE)}

Refusals == {Error(s) : s \in {0, 418, 429}}

\* The status a refusal's own fields spell; a number that is no HTTP status
\* counts for nothing.
Recovered(error) == IF error.status \in 100..599 THEN error.status ELSE 0

\* The statuses a client can act on are repeated, all others are a bad gateway.
ClientStatus(error) ==
    IF Recovered(error) \in {400, 401, 403, 404, 409, 422, 429}
    THEN Recovered(error) ELSE 502

\* Which executors end a stream on [DONE] although no finish came.
SynthesizesStop(e) == e \in {"openai", "responses"}

\* The Claude translator has no failing case: it passes over error events,
\* the decoder's own overflow event included.
SeesErrors(e) == e # "claude"

-----------------------------------------------------------------------------

NewPump == [pc |-> "connect", finishSeen |-> FALSE, pending |-> <<>>, frames |-> 0]

NewBooks ==
    [success |-> TRUE, status |-> 200, recorded |-> FALSE, reported |-> FALSE]

Init ==
    /\ executor \in Executors
    /\ attempt = 1
    /\ pump = NewPump
    /\ answers = <<>>
    /\ router = [pc |-> "take", pending |-> <<>>]
    /\ items = <<>>
    /\ guard = [terminal |-> FALSE, finished |-> FALSE]
    /\ books = NewBooks
    /\ body = "open"
    /\ rows = <<>>
    /\ told = <<>>

RouterHere == router.pc # "done"
BodyHere == body = "open"

HasRoom(channel) == Len(channel) < Capacity

-----------------------------------------------------------------------------
(* The pump.                                                               *)

LeaveRest == UNCHANGED <<executor, attempt, router, items, guard,
                         books, body, rows, told>>

\* The POST is answered, or is not.
PumpConnect ==
    /\ pump.pc = "connect"
    /\ \/ pump' = [pump EXCEPT !.pc = "read"]
       \/ \E e \in Refusals :
              pump' = [pump EXCEPT !.pc = "last", !.pending = <<e>>]
    /\ UNCHANGED answers
    /\ LeaveRest

\* The next frame.  select! may take it although the receiver is gone too.
PumpRead ==
    /\ pump.pc = "read"
    /\ pump.frames < MaxFrames
    /\ \E c \in Chunks :
           pump' = [pump EXCEPT !.frames = @ + 1, !.pc = "send",
                                !.pending = <<c>>,
                                !.finishSeen = @ \/ c.finish # "no"]
    /\ UNCHANGED answers
    /\ LeaveRest

\* An event that carries nothing: a comment, what is no JSON, a chunk without
\* choices such as OpenAI's closing usage chunk.
PumpIgnore ==
    /\ pump.pc = "read"
    /\ pump.frames < MaxFrames
    /\ pump' = [pump EXCEPT !.frames = @ + 1]
    /\ UNCHANGED answers
    /\ LeaveRest

\* An error event, or a connection that breaks.
PumpFail ==
    /\ pump.pc = "read"
    /\ \E e \in Refusals :
           /\ e # Error(0) => SeesErrors(executor)
           /\ pump' = [pump EXCEPT !.pc = "last", !.pending = <<e>>]
    /\ UNCHANGED answers
    /\ LeaveRest

\* data: [DONE]
EndOnDone(p) ==
    IF p.finishSeen THEN [p EXCEPT !.pc = "done"]
    ELSE [p EXCEPT !.pc = "last",
                   !.pending = <<IF SynthesizesStop(executor)
                                 THEN Stop ELSE Unterminated>>]

PumpDone ==
    /\ pump.pc = "read"
    /\ pump' = EndOnDone(pump)
    /\ UNCHANGED answers
    /\ LeaveRest

EndOfBodyForgiven(p) == [p EXCEPT !.pc = "done"]

\* The body of the upstream ends without the sentinel.
EndOfBody(p) ==
    IF p.finishSeen THEN [p EXCEPT !.pc = "done"]
    ELSE [p EXCEPT !.pc = "last", !.pending = <<Unterminated>>]

PumpEof ==
    /\ pump.pc = "read"
    /\ pump' = EndOfBody(pump)
    /\ UNCHANGED answers
    /\ LeaveRest

\* tx.send: waits for room; fails when the router has gone.
PumpSend ==
    /\ pump.pc \in {"send", "last"}
    /\ \/ /\ ~RouterHere
          /\ pump' = [pump EXCEPT !.pc = "done", !.pending = <<>>]
          /\ UNCHANGED answers
       \/ /\ RouterHere
          /\ HasRoom(answers)
          /\ answers' = answers \o pump.pending
          /\ pump' = [pump EXCEPT !.pending = <<>>,
                                  !.pc = IF @ = "send" THEN "read" ELSE "done"]
    /\ LeaveRest

\* tx.closed() in the select.
PumpClosed ==
    /\ pump.pc = "read"
    /\ ~RouterHere
    /\ pump' = [pump EXCEPT !.pc = "done"]
    /\ UNCHANGED answers
    /\ LeaveRest

-----------------------------------------------------------------------------
(* The router: the first item decides, the rest is forwarded.              *)

RouterForward ==
    /\ answers # <<>>
    /\ \/ router.pc = "take" /\ (Head(answers).ok \/ attempt = Candidates)
       \/ router.pc = "forward"
    /\ router' = [pc |-> IF router.pc = "take" /\ ~Head(answers).ok
                         THEN "last" ELSE "send",
                  pending |-> <<Head(answers)>>]
    /\ answers' = Tail(answers)
    /\ UNCHANGED <<executor, attempt, pump, items, guard, books, body,
                   rows, told>>

\* A candidate whose first item is an error is left for the next one, whether
\* or not the client is still there: nothing was sent that would have failed.
RouterFailover ==
    /\ router.pc = "take"
    /\ answers # <<>>
    /\ ~Head(answers).ok
    /\ attempt < Candidates
    /\ attempt' = attempt + 1
    /\ executor' \in Executors
    /\ pump' = NewPump
    /\ answers' = <<>>
    /\ UNCHANGED <<router, items, guard, books, body, rows, told>>

RouterEnd ==
    /\ router.pc \in {"take", "forward"}
    /\ answers = <<>>
    /\ pump.pc = "done"
    /\ router' = [router EXCEPT !.pc = "done"]
    /\ UNCHANGED <<executor, attempt, pump, answers, items, guard,
                   books, body, rows, told>>

RouterSendWaits ==
    /\ router.pc \in {"send", "last"}
    /\ HasRoom(items)
    /\ BodyHere
    /\ items' = items \o router.pending
    /\ router' = [pc |-> IF router.pc = "send" THEN "forward" ELSE "done",
                  pending |-> <<>>]
    /\ UNCHANGED <<executor, attempt, pump, answers, guard, books,
                   body, rows, told>>

\* tx.send, which fails when the body has been dropped.
RouterSend ==
    /\ router.pc \in {"send", "last"}
    /\ \/ /\ ~BodyHere
          /\ router' = [pc |-> "done", pending |-> <<>>]
          /\ UNCHANGED items
       \/ /\ BodyHere
          /\ HasRoom(items)
          /\ items' = items \o router.pending
          /\ router' = [pc |-> IF router.pc = "send" THEN "forward" ELSE "done",
                        pending |-> <<>>]
    /\ UNCHANGED <<executor, attempt, pump, answers, guard, books,
                   body, rows, told>>

-----------------------------------------------------------------------------
(* The books.                                                              *)

\* record(): once; an upstream that reported no usage is estimated.
Row(b) ==
    [success |-> b.success, status |-> b.status,
     usage |-> IF b.reported THEN "reported" ELSE "estimated"]

Record(b) ==
    /\ rows' = IF b.recorded THEN rows ELSE Append(rows, Row(b))
    /\ books' = [b EXCEPT !.recorded = TRUE]

FailedWith(b, status) == Record([b EXCEPT !.success = FALSE, !.status = status])

AbortedTwice(b) == FailedWith([b EXCEPT !.recorded = FALSE], 499)

\* aborted(), from Drop only while nothing is recorded.
Aborted(b) == IF b.recorded THEN UNCHANGED rows /\ books' = b ELSE FailedWith(b, 499)

\* The closure of the body for one chunk: count it, book it if it is the last.
TakeChunk(chunk) ==
    LET b == [books EXCEPT !.reported = @ \/ chunk.usage] IN
    IF chunk.finish # "no" THEN Record(b) ELSE books' = b /\ UNCHANGED rows

-----------------------------------------------------------------------------
(* The body, when it is polled.                                            *)

LeaveTasks == UNCHANGED <<executor, attempt, pump, answers, router>>

Cut(chunk) == chunk.ok /\ chunk.text = "loop"

\* A chunk that makes the answer a loop is not passed on; the next poll of the
\* guard brings the chunk that ends it.
BodyCut ==
    /\ BodyHere
    /\ ~guard.finished /\ ~guard.terminal
    /\ items # <<>>
    /\ Cut(Head(items))
    /\ guard' = [guard EXCEPT !.terminal = TRUE]
    /\ items' = Tail(items)
    /\ UNCHANGED <<books, body, rows, told>>
    /\ LeaveTasks

BodyTruncate ==
    /\ BodyHere
    /\ ~guard.finished /\ guard.terminal
    /\ guard' = [terminal |-> FALSE, finished |-> TRUE]
    /\ told' = Append(told, Truncated)
    /\ TakeChunk(Truncated)
    /\ UNCHANGED <<items, body>>
    /\ LeaveTasks

BodyItem ==
    /\ BodyHere
    /\ ~guard.finished /\ ~guard.terminal
    /\ items # <<>>
    /\ ~Cut(Head(items))
    /\ items' = Tail(items)
    /\ told' = Append(told, Head(items))
    /\ IF Head(items).ok THEN TakeChunk(Head(items))
       ELSE FailedWith(books, ClientStatus(Head(items)))
    /\ UNCHANGED <<guard, body>>
    /\ LeaveTasks

\* The stream is over and the accounting is dropped with it.
BodyEnd ==
    /\ BodyHere
    /\ \/ guard.finished
       \/ ~guard.terminal /\ items = <<>> /\ ~RouterHere
    /\ body' = "ended"
    /\ Aborted(books)
    /\ UNCHANGED <<items, guard, told>>
    /\ LeaveTasks

\* The client leaves; its connection drops the body.
HangUp ==
    /\ BodyHere
    /\ body' = "dropped"
    /\ Aborted(books)
    /\ UNCHANGED <<items, guard, told>>
    /\ LeaveTasks

-----------------------------------------------------------------------------

Pump == PumpConnect \/ PumpRead \/ PumpIgnore \/ PumpFail \/ PumpDone \/ PumpEof
            \/ PumpSend \/ PumpClosed
Router == RouterForward \/ RouterFailover \/ RouterEnd \/ RouterSend
Body == BodyCut \/ BodyTruncate \/ BodyItem \/ BodyEnd

Next == Pump \/ Router \/ Body \/ HangUp

Spec == Init /\ [][Next]_vars

\* Tasks that can run do; an upstream sends or ends; a client reads or leaves.
FairSpec == Spec /\ WF_vars(Pump) /\ WF_vars(Router) /\ WF_vars(Body \/ HangUp)

-----------------------------------------------------------------------------
(* Properties.                                                             *)

\* Where a client was told how the stream ended.
EndsIn(sent) == {i \in DOMAIN sent : sent[i].finish # "no" \/ ~sent[i].ok}

Ends == EndsIn(told)

FirstOf(ends) == CHOOSE i \in ends : \A j \in ends : i <= j

\* What the row of a stream must say, from what its client was sent alone.
RowFor(sent) ==
    IF EndsIn(sent) = {} THEN
        [success |-> FALSE, status |-> 499,
         usage |-> IF \E i \in DOMAIN sent : sent[i].usage
                   THEN "reported" ELSE "estimated"]
    ELSE LET end == FirstOf(EndsIn(sent)) IN
        [success |-> sent[end].ok,
         status |-> IF sent[end].ok THEN 200 ELSE ClientStatus(sent[end]),
         usage |-> IF \E i \in 1..end : sent[i].usage
                   THEN "reported" ELSE "estimated"]

TrueRow == RowFor(told)

\* However the finish chunk, an error, the cut and the hang-up are ordered, a
\* stream that is over is booked exactly once, and the row says what the client
\* was told: success only if the finish was the first end it saw, 499 only if it
\* left before any, the upstream's usage only if it came no later than that.
BooksWhatWasTold ==
    /\ rows # <<>> => rows = <<TrueRow>>
    /\ ~BodyHere => rows # <<>>

\* A client that stays is told how the answer ended: a finish or an error, from
\* whatever executor, at whatever point the upstream broke off.
NeverASilentEnd == body = "ended" => Ends # {}

\* The tasks behind a body that is over come to an end, and every stream is
\* booked.
EverythingEnds ==
    /\ <>(rows # <<>>)
    /\ ~BodyHere ~> (router.pc = "done" /\ pump.pc = "done")

=============================================================================
