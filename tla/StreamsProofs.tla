---------------------------- MODULE StreamsProofs ----------------------------
(***************************************************************************)
(* What holds of a streamed request for every capacity of the channels,    *)
(* number of candidates, length of the stream and mix of executors: the    *)
(* row that is booked says what the client was told, and a client that     *)
(* stays is told how the answer ended.  And what holds of a stream that is *)
(* translated twice, for every length of it and every number of its parts: *)
(* a Claude client and a Responses client can read what they are told.     *)
(***************************************************************************)
EXTENDS Streams, Dialects, FiniteSetTheorems, WellFoundedInduction, TLAPS

-----------------------------------------------------------------------------
(* The inductive invariant *)

Items == Chunks \union Refusals \union {Truncated}

\* What a task is about to send: one item, or nothing.
Pending == {<<>>} \union {<<c>> : c \in Items}

Usages == {"reported", "estimated"}

PumpStates == [pc : {"connect", "read", "send", "last", "done"},
               finishSeen : BOOLEAN, pending : Pending, frames : 0 .. MaxFrames]
RouterStates == [pc : {"take", "forward", "send", "last", "done"}, pending : Pending]
Books == [success : BOOLEAN, status : Nat, recorded : BOOLEAN, reported : BOOLEAN]
Rows == Seq([success : BOOLEAN, status : Nat, usage : Usages])

\* A task has something to send exactly while it waits for room.
PumpOK == pump \in PumpStates /\ (pump.pending # <<>> <=> pump.pc \in {"send", "last"})
RouterOK == router \in RouterStates /\ (router.pending # <<>> <=> router.pc \in {"send", "last"})

\* No channel holds more than its capacity.
ChannelOK(channel) == channel \in Seq(Items) /\ Len(channel) <= Capacity

BodyOK ==
    /\ guard \in [terminal : BOOLEAN, finished : BOOLEAN]
    /\ body \in {"open", "ended", "dropped"}
    /\ told \in Seq(Items)

TypeOK ==
    /\ executor \in Executors
    /\ attempt \in 1 .. Candidates
    /\ PumpOK /\ ChannelOK(answers)
    /\ RouterOK /\ ChannelOK(items)
    /\ BodyOK
    /\ books \in Books /\ rows \in Rows

\* Of the places where the client was told an end, one is the first.
FirstEnd == Ends # {} => \E i \in Ends : \A j \in Ends : i <= j

\* While nothing is booked, nothing has ended and the books are as they were
\* opened, but for the usage the client was sent; what is booked is the row of
\* what it was told.
BooksInv ==
    /\ books.recorded <=> rows # <<>>
    /\ ~books.recorded =>
         /\ Ends = {}
         /\ books.success /\ books.status = 200
         /\ books.reported <=> \E i \in DOMAIN told : told[i].usage
    /\ books.recorded => rows = <<TrueRow>>
    /\ books.recorded /\ BodyHere => Ends # {}
    /\ ~BodyHere => books.recorded

HasEnd(sent) == EndsIn(sent) # {}

\* The end of the answer is on its way, or has been cut away for an end of its own.
EndComes ==
    \/ HasEnd(pump.pending) \/ HasEnd(answers) \/ HasEnd(router.pending)
    \/ HasEnd(items) \/ HasEnd(told) \/ guard.terminal

\* No task leaves before the end it knows of is further down.
EndInv ==
    /\ pump.pc = "last" => HasEnd(pump.pending)
    /\ router.pc = "last" => HasEnd(router.pending)
    /\ (pump.finishSeen \/ pump.pc = "done") /\ RouterHere /\ BodyHere => EndComes
    /\ ~RouterHere /\ BodyHere => HasEnd(items) \/ HasEnd(told) \/ guard.terminal
    /\ guard.finished => HasEnd(told)
    /\ body = "ended" => HasEnd(told)

IInv == TypeOK /\ FirstEnd /\ BooksInv /\ EndInv

-----------------------------------------------------------------------------
(* Items and sequences of them *)

IsEnd(c) == c.finish # "no" \/ ~c.ok

\* The fields of an item.
LEMMA ItemType ==
  ASSUME NEW c \in Items
  PROVE  /\ c.ok \in BOOLEAN /\ c.usage \in BOOLEAN /\ c.status \in Nat
         /\ c.finish \in {"no", "stop", "length"}
         /\ ClientStatus(c) \in Nat
<1>1. /\ c.ok \in BOOLEAN /\ c.usage \in BOOLEAN /\ c.status \in Nat
      /\ c.finish \in {"no", "stop", "length"}
  <2>1. CASE c \in Refusals
    <3>1. PICK s \in {0, 418, 429} : c = Error(s)
      BY <2>1 DEF Refusals
    <3>. QED BY <3>1 DEF Error
  <2>2. CASE c \in Chunks \union {Truncated}
    <3>1. PICK finish \in {"no", "stop", "length"}, usage \in BOOLEAN :
            \E text \in {"none", "plain", "loop"} : c = Chunk(text, finish, usage)
      BY <2>2 DEF Chunks, Truncated, Stop
    <3>. QED BY <3>1 DEF Chunk
  <2>. QED BY <2>1, <2>2 DEF Items
<1>2. Recovered(c) \in Nat
  BY <1>1 DEF Recovered
<1>. QED BY <1>1, <1>2 DEF ClientStatus

\* The items the executors and the router make.
LEMMA SomeItems ==
  /\ Chunks \subseteq Items /\ Refusals \subseteq Items
  /\ Truncated \in Items /\ Stop \in Items /\ Unterminated \in Items
  /\ IsEnd(Truncated) /\ Truncated.ok /\ Truncated.finish # "no" /\ ~Truncated.usage
  /\ IsEnd(Stop) /\ IsEnd(Unterminated)
  /\ \A e \in Refusals : IsEnd(e)
BY DEF Items, Chunks, Refusals, Truncated, Stop, Unterminated, Chunk, Error, IsEnd

\* An error carries no usage.
LEMMA ErrorsCountNothing == \A c \in Items : ~c.ok => ~c.usage
<1>1. \A c \in Chunks \union {Truncated} : c.ok
  BY DEF Chunks, Truncated, Stop, Chunk
<1>2. \A c \in Refusals : ~c.usage
  BY DEF Refusals, Error
<1>. QED BY <1>1, <1>2 DEF Items

\* Nothing has no end.
LEMMA EndsOfNone == ~HasEnd(<<>>)
BY DEF HasEnd, EndsIn

\* One item ends if it is an end.
LEMMA EndsOfOne ==
  ASSUME NEW c \in Items
  PROVE  HasEnd(<<c>>) <=> IsEnd(c)
<1>1. DOMAIN <<c>> = {1} /\ <<c>>[1] = c
  OBVIOUS
<1>. QED BY <1>1 DEF HasEnd, EndsIn, IsEnd

\* What is appended is an end of the whole if it is one.
LEMMA EndsOfAppend ==
  ASSUME NEW s \in Seq(Items), NEW c \in Items
  PROVE  /\ EndsIn(Append(s, c)) = EndsIn(s) \union {i \in {Len(s) + 1} : IsEnd(c)}
         /\ EndsIn(s) \subseteq 1 .. Len(s)
<1>1. /\ DOMAIN s = 1 .. Len(s) /\ Len(s) \in Nat
      /\ DOMAIN Append(s, c) = 1 .. Len(s) + 1
      /\ \A i \in 1 .. Len(s) : Append(s, c)[i] = s[i]
      /\ Append(s, c)[Len(s) + 1] = c
  OBVIOUS
<1>2. 1 .. Len(s) + 1 = (1 .. Len(s)) \union {Len(s) + 1}
  BY <1>1
<1>. QED BY <1>1, <1>2 DEF EndsIn, IsEnd

\* There is an end if there was one or the new item is one.
LEMMA HasEndOfAppend ==
  ASSUME NEW s \in Seq(Items), NEW c \in Items
  PROVE  /\ HasEnd(Append(s, c)) <=> HasEnd(s) \/ IsEnd(c)
         /\ HasEnd(s \o <<c>>) <=> HasEnd(s) \/ HasEnd(<<c>>)
<1>1. s \o <<c>> = Append(s, c)
  OBVIOUS
<1>2. HasEnd(Append(s, c)) <=> HasEnd(s) \/ IsEnd(c)
  BY EndsOfAppend DEF HasEnd
<1>. QED BY <1>1, <1>2, EndsOfOne

\* An end is the first item or in the rest.
LEMMA EndsOfTail ==
  ASSUME NEW s \in Seq(Items), s # <<>>
  PROVE  /\ Head(s) \in Items /\ Tail(s) \in Seq(Items) /\ Len(Tail(s)) = Len(s) - 1
         /\ HasEnd(s) => HasEnd(Tail(s)) \/ IsEnd(Head(s))
<1>1. /\ Head(s) = s[1] /\ Head(s) \in Items
      /\ Tail(s) \in Seq(Items) /\ Len(Tail(s)) = Len(s) - 1 /\ Len(s) \in Nat
      /\ DOMAIN s = 1 .. Len(s) /\ DOMAIN Tail(s) = 1 .. Len(s) - 1
      /\ \A i \in 1 .. Len(s) - 1 : Tail(s)[i] = s[i + 1]
  OBVIOUS
<1>2. ASSUME NEW i \in EndsIn(s), ~IsEnd(Head(s))
      PROVE HasEnd(Tail(s))
  <2>1. i \in 1 .. Len(s) /\ i # 1 /\ IsEnd(s[i])
    BY <1>1, <1>2 DEF EndsIn, IsEnd
  <2>2. i - 1 \in 1 .. Len(s) - 1 /\ Tail(s)[i - 1] = s[i]
    BY <1>1, <2>1
  <2>3. i - 1 \in EndsIn(Tail(s))
    BY <1>1, <2>1, <2>2 DEF EndsIn, IsEnd
  <2>. QED BY <2>3 DEF HasEnd
<1>. QED BY <1>1, <1>2 DEF HasEnd

\* The first of the ends.
LEMMA FirstIsFirst ==
  ASSUME NEW ends \in SUBSET Nat, NEW i \in ends, \A j \in ends : i <= j
  PROVE  FirstOf(ends) = i
<1>1. \A k \in ends : (\A j \in ends : k <= j) => k = i
  OBVIOUS
<1>. QED BY <1>1 DEF FirstOf

\* The row of what a client was told does not change by what it is told after the end.
LEMMA RowIsFinal ==
  ASSUME NEW s \in Seq(Items), NEW c \in Items,
         NEW i \in EndsIn(s), \A j \in EndsIn(s) : i <= j
  PROVE  RowFor(Append(s, c)) = RowFor(s)
<1> DEFINE t == Append(s, c)
<1>1. /\ EndsIn(t) = EndsIn(s) \union {j \in {Len(s) + 1} : IsEnd(c)}
      /\ EndsIn(s) \subseteq 1 .. Len(s) /\ Len(s) \in Nat
  BY EndsOfAppend
<1>2. i \in EndsIn(t) /\ \A j \in EndsIn(t) : i <= j
  BY <1>1
<1>3. FirstOf(EndsIn(s)) = i
  BY <1>1, FirstIsFirst
<1>4. FirstOf(EndsIn(t)) = i
  <2>1. EndsIn(t) \subseteq Nat
    BY <1>1
  <2>. QED BY <1>2, <2>1, FirstIsFirst
<1>5. \A j \in 1 .. i : t[j] = s[j]
  BY <1>1
<1>6. i \in 1 .. i /\ EndsIn(s) # {} /\ EndsIn(t) # {}
  BY <1>1, <1>2
<1>7. (\E j \in 1 .. i : t[j].usage) <=> (\E j \in 1 .. i : s[j].usage)
  BY <1>5
<1>8. RowFor(t) = RowFor(s)
  <2>. HIDE DEF t
  <2>1. t[i] = s[i]
    BY <1>5, <1>6
  <2>. QED BY <1>3, <1>4, <1>6, <1>7, <2>1 DEF RowFor
<1>. QED BY <1>8

\* The row of what ends with the first end it has.
LEMMA RowOfEnd ==
  ASSUME NEW s \in Seq(Items), NEW c \in Items, EndsIn(s) = {}, IsEnd(c)
  PROVE  RowFor(Append(s, c)) =
           [success |-> c.ok, status |-> IF c.ok THEN 200 ELSE ClientStatus(c),
            usage |-> IF (\E i \in DOMAIN s : s[i].usage) \/ c.usage
                      THEN "reported" ELSE "estimated"]
<1> DEFINE t == Append(s, c)
           n == Len(s) + 1
<1>1. EndsIn(t) = {n} /\ Len(s) \in Nat /\ DOMAIN s = 1 .. Len(s)
  BY EndsOfAppend
<1>2. FirstOf(EndsIn(t)) = n
  BY <1>1, FirstIsFirst
<1>3. t[n] = c /\ \A j \in 1 .. Len(s) : t[j] = s[j]
  OBVIOUS
<1>4. 1 .. n = (1 .. Len(s)) \union {n}
  BY <1>1
<1>5. (\E i \in 1 .. n : t[i].usage) <=> (\E i \in DOMAIN s : s[i].usage) \/ c.usage
  BY <1>1, <1>3, <1>4
<1>6. RowFor(t) = [success |-> c.ok, status |-> IF c.ok THEN 200 ELSE ClientStatus(c),
                   usage |-> IF \E i \in 1 .. n : t[i].usage
                             THEN "reported" ELSE "estimated"]
  <2>. HIDE DEF t, n
  <2>1. EndsIn(t) # {}
    BY <1>1
  <2>. QED BY <1>2, <1>3, <2>1 DEF RowFor
<1>. QED BY <1>5, <1>6

-----------------------------------------------------------------------------
(* Types *)

\* What may be held back: nothing, or one item.
LEMMA PendingFacts ==
  /\ <<>> \in Pending
  /\ \A c \in Items : <<c>> \in Pending /\ <<c>> # <<>>
  /\ \A p \in Pending : p # <<>> => \E c \in Items : p = <<c>>
BY DEF Pending

\* The types hold at first.
LEMMA TypeInit == Init => TypeOK
BY CandidatesAssumption, CapacityAssumption, MaxFramesAssumption, PendingFacts
   DEF Init, TypeOK, PumpOK, RouterOK, ChannelOK, BodyOK, PumpStates, RouterStates, Books,
       Rows, NewPump, NewBooks

\* One item more in a channel that has room for it, or one less.
LEMMA ChannelFacts ==
  ASSUME NEW channel, ChannelOK(channel)
  PROVE  /\ \A p \in Pending : p # <<>> /\ HasRoom(channel) => ChannelOK(channel \o p)
         /\ channel # <<>> => ChannelOK(Tail(channel)) /\ Head(channel) \in Items
<1>1. ASSUME NEW c \in Items, HasRoom(channel) PROVE ChannelOK(channel \o <<c>>)
  <2>1. channel \o <<c>> \in Seq(Items) /\ Len(channel \o <<c>>) = Len(channel) + 1
    BY DEF ChannelOK
  <2>. QED BY <1>1, <2>1, CapacityAssumption DEF ChannelOK, HasRoom
<1>2. channel # <<>> => ChannelOK(Tail(channel)) /\ Head(channel) \in Items
  BY EndsOfTail, CapacityAssumption DEF ChannelOK
<1>. QED BY <1>1, <1>2, PendingFacts

\* A step of the pump keeps its types.
LEMMA PumpStep == TypeOK /\ Pump => PumpOK'
<1>. SUFFICES ASSUME PumpOK, Pump PROVE PumpOK'
  BY DEF TypeOK
<1>. USE DEF PumpOK
<1>1. /\ pump.frames \in 0 .. MaxFrames
      /\ pump.frames < MaxFrames => pump.frames + 1 \in 0 .. MaxFrames
  BY MaxFramesAssumption DEF PumpStates
<1>2. ASSUME NEW e \in Items, pump' = [pump EXCEPT !.pc = "last", !.pending = <<e>>]
      PROVE  PumpOK'
  BY <1>2, PendingFacts DEF PumpStates
<1>3. CASE PumpConnect
  <2>1. CASE pump' = [pump EXCEPT !.pc = "read"]
    BY <1>3, <2>1 DEF PumpConnect, PumpStates
  <2>. QED BY <1>3, <1>2, <2>1, SomeItems DEF PumpConnect
<1>4. CASE PumpRead
  <2>1. PICK c \in Chunks :
          pump' = [pump EXCEPT !.frames = @ + 1, !.pc = "send", !.pending = <<c>>,
                               !.finishSeen = @ \/ c.finish # "no"]
    BY <1>4 DEF PumpRead
  <2>2. <<c>> \in Pending /\ <<c>> # <<>>
    BY <2>1, SomeItems, PendingFacts
  <2>. QED BY <1>1, <1>4, <2>1, <2>2 DEF PumpRead, PumpStates
<1>5. CASE PumpIgnore
  BY <1>1, <1>5 DEF PumpIgnore, PumpStates
<1>6. CASE PumpFail
  BY <1>6, <1>2, SomeItems DEF PumpFail
<1>7. CASE PumpDone
  BY <1>7, SomeItems, PendingFacts DEF PumpDone, EndOnDone, PumpStates
<1>8. CASE PumpEof
  BY <1>8, SomeItems, PendingFacts DEF PumpEof, EndOfBody, PumpStates
<1>9. CASE PumpSend
  BY <1>9, PendingFacts, ZenonT(60) DEF PumpSend, PumpStates
<1>10. CASE PumpClosed
  BY <1>10 DEF PumpClosed, PumpStates
<1>. QED BY <1>3, <1>4, <1>5, <1>6, <1>7, <1>8, <1>9, <1>10 DEF Pump

\* A step of the pump keeps all types.
LEMMA TypePump == TypeOK /\ Pump => TypeOK'
<1>1. Pump => LeaveRest
  BY DEF Pump, PumpConnect, PumpRead, PumpIgnore, PumpFail, PumpDone, PumpEof, PumpSend,
         PumpClosed
<1>2. Pump /\ TypeOK => ChannelOK(answers')
  <2>1. CASE PumpSend
    <3>1. TypeOK => pump.pending \in Pending
      BY DEF TypeOK, PumpOK, PumpStates
    <3>. QED BY <2>1, <3>1, ChannelFacts, ZenonT(60) DEF PumpSend, TypeOK, PumpOK
  <2>2. CASE UNCHANGED answers
    BY <2>2 DEF TypeOK
  <2>. QED BY <2>1, <2>2 DEF Pump, PumpConnect, PumpRead, PumpIgnore, PumpFail, PumpDone,
              PumpEof, PumpClosed
<1>. QED BY <1>1, <1>2, PumpStep DEF TypeOK, LeaveRest, ChannelOK, RouterOK, BodyOK

\* A step of the router keeps all types.
LEMMA TypeRouter == TypeOK /\ Router => TypeOK'
<1>. SUFFICES ASSUME TypeOK, Router PROVE TypeOK'
  OBVIOUS
<1>0. /\ pump \in PumpStates /\ ChannelOK(answers) /\ ChannelOK(items)
      /\ router \in RouterStates /\ router.pending \in Pending
  BY DEF TypeOK, PumpOK, RouterOK, RouterStates
<1>1. CASE RouterForward
  <2>1. Head(answers) \in Items /\ ChannelOK(answers')
    BY <1>0, <1>1, ChannelFacts DEF RouterForward
  <2>2. RouterOK'
    BY <1>1, <2>1, PendingFacts DEF RouterForward, RouterOK, RouterStates
  <2>. QED BY <1>1, <2>1, <2>2 DEF RouterForward, TypeOK, PumpOK, ChannelOK, BodyOK
<1>2. CASE RouterFailover
  <2>1. attempt' \in 1 .. Candidates
    BY <1>2, CandidatesAssumption DEF RouterFailover, TypeOK
  <2>2. PumpOK' /\ ChannelOK(answers')
    BY <1>2, CapacityAssumption, MaxFramesAssumption, PendingFacts
       DEF RouterFailover, NewPump, PumpOK, PumpStates, ChannelOK
  <2>. QED BY <1>2, <2>1, <2>2 DEF RouterFailover, TypeOK, RouterOK, ChannelOK, BodyOK
<1>3. CASE RouterEnd
  <2>1. RouterOK'
    BY <1>3 DEF RouterEnd, TypeOK, RouterOK, RouterStates
  <2>. QED BY <1>3, <2>1 DEF RouterEnd, TypeOK, PumpOK, ChannelOK, BodyOK
<1>4. CASE RouterSend
  <2>1. RouterOK'
    BY <1>4, PendingFacts DEF RouterSend, TypeOK, RouterOK, RouterStates
  <2>2. ChannelOK(items')
    BY <1>0, <1>4, ChannelFacts DEF RouterSend, TypeOK, RouterOK
  <2>. QED BY <1>4, <2>1, <2>2 DEF RouterSend, TypeOK, PumpOK, ChannelOK, BodyOK
<1>. QED BY <1>1, <1>2, <1>3, <1>4 DEF Router

\* What booking a stream leaves in the books and in the table.
LEMMA RecordType ==
  ASSUME rows \in Rows, NEW b \in Books
  PROVE  /\ Record(b) => books' \in Books /\ rows' \in Rows
         /\ \A s \in Nat : FailedWith(b, s) => books' \in Books /\ rows' \in Rows
         /\ Aborted(b) => books' \in Books /\ rows' \in Rows
         /\ b = books => \A c \in Items : TakeChunk(c) => books' \in Books /\ rows' \in Rows
<1>1. ASSUME NEW k \in Books, Record(k)
      PROVE  books' \in Books /\ rows' \in Rows
  <2>1. Row(k) \in [success : BOOLEAN, status : Nat, usage : Usages]
    BY DEF Row, Usages, Books
  <2>2. [k EXCEPT !.recorded = TRUE] \in Books
    BY DEF Books
  <2>3. Append(rows, Row(k)) \in Rows
    BY <2>1 DEF Rows
  <2>. QED BY <1>1, <2>2, <2>3 DEF Record
<1>2. \A s \in Nat : [b EXCEPT !.success = FALSE, !.status = s] \in Books
  BY DEF Books
<1>3. \A s \in Nat : FailedWith(b, s) => books' \in Books /\ rows' \in Rows
  BY <1>1, <1>2 DEF FailedWith
<1>4. ASSUME NEW c \in Items, b = books, TakeChunk(c)
      PROVE  books' \in Books /\ rows' \in Rows
  <2>1. [books EXCEPT !.reported = @ \/ c.usage] \in Books
    BY <1>4, ItemType DEF Books
  <2>. QED BY <1>1, <1>4, <2>1 DEF TakeChunk
<1>. QED BY <1>1, <1>3, <1>4 DEF Aborted

\* A step of the body keeps all types.
LEMMA TypeBody == TypeOK /\ (Body \/ HangUp) => TypeOK'
<1>. SUFFICES ASSUME TypeOK, Body \/ HangUp PROVE TypeOK'
  OBVIOUS
<1>0. /\ ChannelOK(items) /\ rows \in Rows /\ books \in Books /\ told \in Seq(Items)
      /\ guard \in [terminal : BOOLEAN, finished : BOOLEAN]
  BY DEF TypeOK, BodyOK
<1>1. LeaveTasks
  BY DEF Body, BodyCut, BodyTruncate, BodyItem, BodyEnd, HangUp
<1>2. items # <<>> => ChannelOK(Tail(items)) /\ Head(items) \in Items
  BY <1>0, ChannelFacts
<1>3. ChannelOK(items')
  BY <1>0, <1>2 DEF Body, BodyCut, BodyTruncate, BodyItem, BodyEnd, HangUp
<1>4. BodyOK'
  <2>1. told' \in Seq(Items)
    BY <1>0, <1>2, SomeItems, SMTT(60) DEF Body, BodyCut, BodyTruncate, BodyItem, BodyEnd, HangUp
  <2>2. /\ body' \in {"open", "ended", "dropped"}
        /\ guard' \in [terminal : BOOLEAN, finished : BOOLEAN]
    <3>1. CASE BodyCut
      BY <1>0, <3>1 DEF TypeOK, BodyOK, BodyCut
    <3>2. CASE BodyTruncate
      BY <3>2 DEF TypeOK, BodyOK, BodyTruncate
    <3>3. CASE BodyItem
      BY <3>3 DEF TypeOK, BodyOK, BodyItem
    <3>4. CASE BodyEnd \/ HangUp
      BY <1>0, <3>4 DEF BodyEnd, HangUp
    <3>. QED BY <3>1, <3>2, <3>3, <3>4 DEF Body
  <2>. QED BY <2>1, <2>2 DEF BodyOK
<1>5. books' \in Books /\ rows' \in Rows
  <2>1. CASE BodyCut
    BY <1>0, <2>1 DEF BodyCut
  <2>2. CASE BodyTruncate
    BY <1>0, <2>2, SomeItems, RecordType DEF BodyTruncate
  <2>3. CASE BodyItem
    BY <1>0, <1>2, <2>3, ItemType, RecordType DEF BodyItem
  <2>4. CASE Aborted(books)
    BY <1>0, <2>4, RecordType
  <2>. QED BY <2>1, <2>2, <2>3, <2>4 DEF Body, BodyEnd, HangUp
<1>. QED BY <1>1, <1>3, <1>4, <1>5 DEF TypeOK, LeaveTasks, PumpOK, RouterOK, ChannelOK

\* A step keeps all types.
LEMMA TypeStep == TypeOK /\ [Next]_vars => TypeOK'
<1>1. TypeOK /\ UNCHANGED vars => TypeOK'
  BY DEF TypeOK, PumpOK, RouterOK, ChannelOK, BodyOK, vars
<1>. QED BY <1>1, TypePump, TypeRouter, TypeBody DEF Next

-----------------------------------------------------------------------------
(* The books *)

\* Nothing is told or booked at first.
LEMMA BooksInit == Init => FirstEnd /\ BooksInv
<1>. SUFFICES ASSUME Init PROVE FirstEnd /\ BooksInv
  OBVIOUS
<1>1. Ends = {} /\ DOMAIN told = {}
  BY DEF Init, Ends, EndsIn
<1>. QED BY <1>1 DEF Init, FirstEnd, BooksInv, NewBooks, BodyHere

\* What booking writes is the row of the books.
LEMMA RecordRow ==
  ASSUME NEW b \in Books, Record(b), rows = <<>>, ~b.recorded
  PROVE  books'.recorded /\ rows' = <<Row(b)>>
BY DEF Record, Books

\* Another item: the first of two ends stays the first, the only one becomes it.
LEMMA FirstEndStep ==
  ASSUME told \in Seq(Items), FirstEnd, NEW c \in Items, told' = Append(told, c)
  PROVE  FirstEnd'
<1>1. /\ Ends' = Ends \union {i \in {Len(told) + 1} : IsEnd(c)}
      /\ Ends \subseteq 1 .. Len(told) /\ Len(told) \in Nat
  BY EndsOfAppend DEF Ends
<1>2. CASE Ends = {}
  BY <1>1, <1>2 DEF FirstEnd
<1>3. CASE Ends # {}
  <2>1. PICK i \in Ends : \A j \in Ends : i <= j
    BY <1>3 DEF FirstEnd
  <2>2. i \in Ends' /\ \A j \in Ends' : i <= j
    BY <1>1, <2>1
  <2>. QED BY <2>2 DEF FirstEnd
<1>. QED BY <1>2, <1>3

\* A stream that is booked is told on, or not: its row stays.
LEMMA BookedStays ==
  ASSUME TypeOK, FirstEnd, BooksInv, books.recorded, BodyHere,
         NEW c \in Items, told' = Append(told, c), rows' = rows, books'.recorded, body' = body
  PROVE  BooksInv'
<1>1. Ends # {} /\ rows = <<TrueRow>> /\ told \in Seq(Items)
  BY DEF BooksInv, TypeOK, BodyOK
<1>2. PICK i \in Ends : \A j \in Ends : i <= j
  BY <1>1 DEF FirstEnd
<1>3. TrueRow' = TrueRow
  BY <1>1, <1>2, RowIsFinal DEF TrueRow, Ends
<1>4. Ends' # {}
  BY <1>1, EndsOfAppend DEF Ends
<1>. QED BY <1>1, <1>3, <1>4 DEF BooksInv, BodyHere

\* The first end is told and booked.
LEMMA BooksTheEnd ==
  ASSUME TypeOK, BooksInv, ~books.recorded, BodyHere, body' = body,
         NEW c \in Items, IsEnd(c), told' = Append(told, c),
         NEW b \in Books, Record(b), ~b.recorded,
         b.success = c.ok, b.status = IF c.ok THEN 200 ELSE ClientStatus(c),
         b.reported <=> (\E i \in DOMAIN told : told[i].usage) \/ c.usage
  PROVE  BooksInv'
<1>1. Ends = {} /\ rows = <<>> /\ told \in Seq(Items)
  BY DEF BooksInv, TypeOK, BodyOK
<1>2. books'.recorded /\ rows' = <<Row(b)>>
  BY <1>1, RecordRow
<1>3. TrueRow' = Row(b)
  BY <1>1, RowOfEnd DEF TrueRow, Ends, Row
<1>4. Ends' # {}
  BY <1>1, EndsOfAppend DEF Ends
<1>. QED BY <1>2, <1>3, <1>4 DEF BooksInv, BodyHere

\* Nothing is booked yet, and nothing has ended by what is told.
LEMMA ToldOn ==
  ASSUME TypeOK, BooksInv, ~books.recorded, BodyHere, body' = body, rows' = rows,
         NEW c \in Items, ~IsEnd(c), told' = Append(told, c),
         books' = [books EXCEPT !.reported = @ \/ c.usage]
  PROVE  BooksInv'
<1>1. Ends = {} /\ rows = <<>> /\ told \in Seq(Items) /\ books \in Books
  BY DEF BooksInv, TypeOK, BodyOK
<1>2. Ends' = {}
  BY <1>1, EndsOfAppend DEF Ends
<1>3. (\E i \in DOMAIN told' : told'[i].usage) <=> (\E i \in DOMAIN told : told[i].usage) \/ c.usage
  <2>1. /\ DOMAIN told = 1 .. Len(told) /\ Len(told) \in Nat
        /\ DOMAIN told' = 1 .. Len(told) + 1 /\ told'[Len(told) + 1] = c
        /\ \A i \in 1 .. Len(told) : told'[i] = told[i]
    BY <1>1
  <2>2. 1 .. Len(told) + 1 = (1 .. Len(told)) \union {Len(told) + 1}
    BY <2>1
  <2>. QED BY <2>1, <2>2
<1>4. /\ ~books'.recorded /\ books'.success /\ books'.status = 200
      /\ books'.reported <=> books.reported \/ c.usage
  BY <1>1, ItemType DEF BooksInv, Books
<1>5. books'.reported <=> \E i \in DOMAIN told' : told'[i].usage
  BY <1>3, <1>4 DEF BooksInv
<1>. QED BY <1>1, <1>2, <1>4, <1>5 DEF BooksInv, BodyHere

\* The body takes a chunk, which may be the end.
LEMMA TakeStep ==
  ASSUME TypeOK, FirstEnd, BooksInv, BodyHere, body' = body,
         NEW c \in Items, c.ok, TakeChunk(c), told' = Append(told, c)
  PROVE  BooksInv'
<1> DEFINE b == [books EXCEPT !.reported = @ \/ c.usage]
<1>1. books \in Books /\ b \in Books
      /\ b.recorded = books.recorded /\ b.success = books.success /\ b.status = books.status
      /\ (b.reported <=> books.reported \/ c.usage)
  BY ItemType DEF TypeOK, Books
<1>2. IsEnd(c) <=> c.finish # "no"
  BY DEF IsEnd
<1>3. CASE books.recorded
  <2>1. rows' = rows /\ books'.recorded
    BY <1>1, <1>3 DEF TakeChunk, Record, Books
  <2>. QED BY <1>3, <2>1, BookedStays
<1>4. CASE ~books.recorded /\ c.finish # "no"
  <2>1. Record(b)
    BY <1>4 DEF TakeChunk
  <2>2. b.success = c.ok /\ b.status = 200
        /\ (b.reported <=> (\E i \in DOMAIN told : told[i].usage) \/ c.usage)
    BY <1>1, <1>4, ItemType DEF BooksInv, Books
  <2>. HIDE DEF b
  <2>. QED BY <1>1, <1>2, <1>4, <2>1, <2>2, BooksTheEnd
<1>5. CASE ~books.recorded /\ c.finish = "no"
  BY <1>2, <1>5, ToldOn DEF TakeChunk, IsEnd
<1>. QED BY <1>3, <1>4, <1>5

\* The body is over.
LEMMA AbortedStep ==
  ASSUME TypeOK, BooksInv, told' = told, Aborted(books), ~BodyHere'
  PROVE  BooksInv'
<1>1. TrueRow' = TrueRow /\ Ends' = Ends /\ books \in Books
  BY DEF TrueRow, Ends, TypeOK
<1>2. CASE books.recorded
  BY <1>1, <1>2 DEF BooksInv, Aborted
<1>3. \A n \in Nat : n = 499 => [books EXCEPT !.success = FALSE, !.status = n] \in Books
  BY <1>1 DEF Books
<1>4. 499 \in Nat
  OBVIOUS
<1>5. CASE ~books.recorded
  <2> DEFINE b == [books EXCEPT !.success = FALSE, !.status = 499]
  <2>1. b \in Books /\ ~b.recorded /\ b.success = FALSE /\ b.status = 499
        /\ (b.reported <=> books.reported)
    <3>1. b \in Books
      BY <1>3, <1>4, ZenonT(60)
    <3>2. b.success = FALSE /\ b.status = 499 /\ b.recorded = books.recorded
      BY <1>1 DEF Books
    <3>3. b.reported = books.reported
      BY <1>1 DEF Books
    <3>. QED BY <1>5, <3>1, <3>2, <3>3
  <2>2. Record(b)
    BY <1>5 DEF Aborted, FailedWith
  <2>3. books'.recorded /\ rows' = <<Row(b)>>
    <3>. HIDE DEF b
    <3>. QED BY <1>5, <2>1, <2>2, RecordRow DEF BooksInv
  <2>4. TrueRow = Row(b)
    <3>. HIDE DEF b
    <3>1. EndsIn(told) = {}
      BY <1>5 DEF BooksInv, Ends
    <3>2. b.reported <=> \E i \in DOMAIN told : told[i].usage
      BY <1>5, <2>1 DEF BooksInv
    <3>. QED BY <2>1, <3>1, <3>2 DEF TrueRow, RowFor, Row, Books
  <2>. HIDE DEF b
  <2>. QED BY <1>1, <2>3, <2>4 DEF BooksInv, BodyHere
<1>. QED BY <1>2, <1>5

\* A step leaves the row that of what was told.
LEMMA BooksStep == TypeOK /\ FirstEnd /\ BooksInv /\ [Next]_vars => FirstEnd' /\ BooksInv'
<1>. SUFFICES ASSUME TypeOK, FirstEnd, BooksInv, [Next]_vars PROVE FirstEnd' /\ BooksInv'
  OBVIOUS
<1>0. ChannelOK(items) /\ told \in Seq(Items) /\ books \in Books
  BY DEF TypeOK, BodyOK
<1>1. ASSUME told' = told PROVE FirstEnd' /\ Ends' = Ends /\ TrueRow' = TrueRow
  BY <1>1 DEF FirstEnd, Ends, TrueRow
<1>2. CASE UNCHANGED <<books, body, rows, told>>
  BY <1>1, <1>2 DEF BooksInv, BodyHere
<1>3. CASE BodyTruncate
  <2>1. Truncated \in Items /\ told' = Append(told, Truncated)
    BY <1>3, SomeItems DEF BodyTruncate
  <2>2. FirstEnd'
    BY <1>0, <2>1, FirstEndStep
  <2>. QED BY <1>3, <2>1, <2>2, SomeItems, TakeStep DEF BodyTruncate
<1>4. CASE BodyItem
  <2> DEFINE c == Head(items)
  <2>1. c \in Items /\ told' = Append(told, c) /\ BodyHere /\ body' = body
    BY <1>0, <1>4, ChannelFacts DEF BodyItem
  <2>2. FirstEnd'
    <3>. HIDE DEF c
    <3>. QED BY <1>0, <2>1, FirstEndStep
  <2>3. CASE c.ok
    <3>1. TakeChunk(c)
      BY <1>4, <2>3 DEF BodyItem
    <3>. HIDE DEF c
    <3>. QED BY <2>1, <2>2, <2>3, <3>1, TakeStep
  <2>4. CASE ~c.ok
    <3> DEFINE b == [books EXCEPT !.success = FALSE, !.status = ClientStatus(c)]
    <3>1. Record(b)
      BY <1>4, <2>4 DEF BodyItem, FailedWith
    <3>2. b \in Books /\ b.recorded = books.recorded /\ ~b.success
          /\ b.status = ClientStatus(c) /\ b.reported = books.reported
      BY <1>0, <2>1, ItemType DEF Books
    <3>3. IsEnd(c) /\ ~c.usage
      BY <2>1, <2>4, ErrorsCountNothing DEF IsEnd
    <3>. HIDE DEF b, c
    <3>4. CASE books.recorded
      <4>1. rows' = rows /\ books'.recorded
        BY <3>1, <3>2, <3>4 DEF Record, Books
      <4>. QED BY <2>1, <2>2, <3>4, <4>1, BookedStays
    <3>5. CASE ~books.recorded
      <4>1. b.reported <=> (\E i \in DOMAIN told : told[i].usage) \/ c.usage
        BY <3>2, <3>3, <3>5 DEF BooksInv
      <4>2. b.success = c.ok
        BY <2>1, <2>4, <3>2, ItemType DEF Books
      <4>. QED BY <2>1, <2>2, <2>4, <3>1, <3>2, <3>3, <3>5, <4>1, <4>2, BooksTheEnd
    <3>. QED BY <3>4, <3>5
  <2>. QED BY <2>3, <2>4
<1>5. CASE BodyEnd \/ HangUp
  BY <1>1, <1>5, AbortedStep DEF BodyEnd, HangUp, BodyHere
<1>. QED BY <1>2, <1>3, <1>4, <1>5 DEF Next, vars, Pump, Router, Body, LeaveRest,
     PumpConnect, PumpRead, PumpIgnore, PumpFail, PumpDone, PumpEof, PumpSend, PumpClosed,
     RouterForward, RouterFailover, RouterEnd, RouterSend, BodyCut

-----------------------------------------------------------------------------
(* The end *)

\* Nobody has ended at first.
LEMMA EndInit == Init => EndInv
BY EndsOfNone DEF Init, EndInv, NewPump, RouterHere, BodyHere

\* What the pump does leaves the rest of the chain alone, and loses no end of its own.
LEMMA EndPump == TypeOK /\ EndInv /\ Pump => EndInv'
<1>. SUFFICES ASSUME TypeOK, EndInv, Pump PROVE EndInv'
  OBVIOUS
<1>0. /\ router' = router /\ items' = items /\ told' = told /\ guard' = guard /\ body' = body
  BY DEF LeaveRest, Pump, PumpConnect, PumpRead, PumpIgnore, PumpFail, PumpDone, PumpEof,
         PumpSend, PumpClosed
<1>1. SUFFICES /\ pump'.pc = "last" => HasEnd(pump'.pending)
               /\ (pump'.finishSeen \/ pump'.pc = "done") /\ RouterHere /\ BodyHere
                    => EndComes'
  BY <1>0 DEF EndInv, RouterHere, BodyHere
<1>2. ASSUME NEW e \in Items, IsEnd(e), pump' = [pump EXCEPT !.pc = "last", !.pending = <<e>>]
      PROVE  HasEnd(pump'.pending) /\ EndComes'
  <2>1. pump'.pending = <<e>>
    BY <1>2 DEF TypeOK, PumpOK, PumpStates
  <2>. QED BY <1>2, <2>1, EndsOfOne DEF EndComes
<1>3. CASE PumpConnect
  <2>1. CASE pump' = [pump EXCEPT !.pc = "read"]
    BY <1>0, <1>3, <2>1 DEF PumpConnect, EndInv, EndComes, TypeOK, PumpOK, PumpStates
  <2>. QED BY <1>2, <1>3, <2>1, SomeItems DEF PumpConnect
<1>4. CASE PumpRead
  <2>1. PICK c \in Chunks :
          pump' = [pump EXCEPT !.frames = @ + 1, !.pc = "send", !.pending = <<c>>,
                               !.finishSeen = @ \/ c.finish # "no"]
    BY <1>4 DEF PumpRead
  <2>2. /\ pump'.pc = "send" /\ pump'.pending = <<c>> /\ pump.pc = "read"
        /\ pump'.finishSeen => pump.finishSeen \/ c.finish # "no"
    BY <1>4, <2>1 DEF PumpRead, TypeOK, PumpOK, PumpStates
  <2>3. c.finish # "no" => HasEnd(pump'.pending)
    BY <2>2, SomeItems, EndsOfOne DEF IsEnd
  <2>4. ~HasEnd(pump.pending)
    BY <2>2, EndsOfNone DEF TypeOK, PumpOK
  <2>. QED BY <1>0, <1>4, <2>2, <2>3, <2>4 DEF PumpRead, EndInv, EndComes
<1>5. CASE PumpIgnore
  <2>1. pump'.pc = pump.pc /\ pump'.finishSeen = pump.finishSeen
        /\ pump'.pending = pump.pending
    BY <1>5 DEF PumpIgnore, TypeOK, PumpOK, PumpStates
  <2>. QED BY <1>0, <1>5, <2>1 DEF PumpIgnore, EndInv, EndComes
<1>6. CASE PumpFail
  BY <1>2, <1>6, SomeItems DEF PumpFail
<1>7. CASE PumpDone
  <2>1. CASE pump.finishSeen
    BY <1>0, <1>7, <2>1 DEF PumpDone, EndOnDone, EndInv, EndComes, TypeOK, PumpOK, PumpStates
  <2>. QED BY <1>2, <1>7, <2>1, SomeItems DEF PumpDone, EndOnDone
<1>8. CASE PumpEof
  <2>1. CASE pump.finishSeen
    BY <1>0, <1>8, <2>1 DEF PumpEof, EndOfBody, EndInv, EndComes, TypeOK, PumpOK, PumpStates
  <2>. QED BY <1>2, <1>8, <2>1, SomeItems DEF PumpEof, EndOfBody
<1>9. CASE PumpSend
  <2>1. CASE ~RouterHere
    BY <1>9, <2>1 DEF PumpSend, TypeOK, PumpOK, PumpStates
  <2>2. CASE RouterHere
    <3>1. PICK c \in Items : pump.pending = <<c>>
      BY <1>9, PendingFacts DEF PumpSend, TypeOK, PumpOK, PumpStates
    <3>2. /\ answers' = answers \o <<c>>
          /\ pump'.pc # "last" /\ pump'.finishSeen = pump.finishSeen
          /\ pump'.pc = "done" => pump.pc = "last"
      BY <1>9, <2>2, <3>1 DEF PumpSend, TypeOK, PumpOK, PumpStates
    <3>3. HasEnd(answers') <=> HasEnd(answers) \/ HasEnd(pump.pending)
      BY <3>1, <3>2, HasEndOfAppend DEF TypeOK, ChannelOK
    <3>. QED BY <1>0, <3>2, <3>3 DEF EndInv, EndComes
  <2>. QED BY <2>1, <2>2
<1>10. CASE PumpClosed
  BY <1>10 DEF PumpClosed, TypeOK, PumpOK, PumpStates
<1>. QED BY <1>3, <1>4, <1>5, <1>6, <1>7, <1>8, <1>9, <1>10 DEF Pump

\* A step of the router loses no end.
LEMMA EndRouter == TypeOK /\ EndInv /\ Router => EndInv'
<1>. SUFFICES ASSUME TypeOK, EndInv, Router PROVE EndInv'
  OBVIOUS
<1>0. /\ told' = told /\ guard' = guard /\ body' = body
      /\ ChannelOK(answers) /\ ChannelOK(items) /\ RouterOK
  BY DEF Router, RouterForward, RouterFailover, RouterEnd, RouterSend, TypeOK
<1>1. CASE RouterForward
  <2> DEFINE c == Head(answers)
  <2>1. c \in Items /\ (HasEnd(answers) => HasEnd(Tail(answers)) \/ IsEnd(c))
    BY <1>0, <1>1, EndsOfTail DEF RouterForward, ChannelOK
  <2>2. /\ router'.pending = <<c>> /\ router'.pc \in {"last", "send"}
        /\ router'.pc = "last" => ~c.ok
        /\ answers' = Tail(answers) /\ pump' = pump /\ items' = items
        /\ router.pc \in {"take", "forward"}
    BY <1>1 DEF RouterForward
  <2>. HIDE DEF c
  <2>3. HasEnd(router'.pending) <=> IsEnd(c)
    BY <2>1, <2>2, EndsOfOne
  <2>4. ~HasEnd(router.pending)
    BY <1>0, <2>2, EndsOfNone DEF RouterOK
  <2>. QED BY <1>0, <2>1, <2>2, <2>3, <2>4 DEF EndInv, EndComes, RouterHere, BodyHere, IsEnd
<1>2. CASE RouterFailover
  BY <1>0, <1>2 DEF RouterFailover, NewPump, EndInv, RouterHere, BodyHere
<1>3. CASE RouterEnd
  <2>1. ~HasEnd(pump.pending) /\ ~HasEnd(answers) /\ ~HasEnd(router.pending)
    BY <1>3, EndsOfNone DEF RouterEnd, TypeOK, PumpOK, RouterOK
  <2>2. router'.pc = "done" /\ pump' = pump /\ items' = items
    BY <1>0, <1>3 DEF RouterEnd, RouterOK, RouterStates
  <2>. QED BY <1>0, <1>3, <2>1, <2>2 DEF RouterEnd, EndInv, EndComes, RouterHere, BodyHere
<1>4. CASE RouterSend
  <2>1. CASE ~BodyHere
    BY <1>0, <1>4, <2>1 DEF RouterSend, EndInv, RouterHere, BodyHere
  <2>2. CASE BodyHere
    <3>1. PICK c \in Items : router.pending = <<c>>
      BY <1>0, <1>4, PendingFacts DEF RouterSend, RouterOK, RouterStates
    <3>2. /\ items' = items \o <<c>> /\ answers' = answers /\ pump' = pump
          /\ router'.pc \in {"forward", "done"}
          /\ router'.pc = "done" => router.pc = "last"
      BY <1>4, <2>2, <3>1 DEF RouterSend
    <3>3. HasEnd(items') <=> HasEnd(items) \/ HasEnd(router.pending)
      BY <1>0, <3>1, <3>2, HasEndOfAppend DEF ChannelOK
    <3>. QED BY <1>0, <1>4, <2>2, <3>2, <3>3 DEF RouterSend, EndInv, EndComes, RouterHere, BodyHere
  <2>. QED BY <2>1, <2>2
<1>. QED BY <1>1, <1>2, <1>3, <1>4 DEF Router

\* A step of the body, or a client that hangs up, loses no end.
LEMMA EndBody == TypeOK /\ EndInv /\ (Body \/ HangUp) => EndInv'
<1>. SUFFICES ASSUME TypeOK, EndInv, Body \/ HangUp PROVE EndInv'
  OBVIOUS
<1>0. /\ LeaveTasks /\ BodyHere
      /\ ChannelOK(items) /\ told \in Seq(Items)
      /\ guard \in [terminal : BOOLEAN, finished : BOOLEAN]
  BY DEF Body, BodyCut, BodyTruncate, BodyItem, BodyEnd, HangUp, TypeOK, BodyOK
<1>1. CASE BodyCut
  <2>1. guard'.terminal /\ guard'.finished = guard.finished /\ told' = told /\ body' = body
    BY <1>0, <1>1 DEF BodyCut
  <2>. QED BY <1>0, <2>1 DEF EndInv, EndComes, LeaveTasks, BodyHere
<1>2. CASE BodyTruncate
  <2>1. HasEnd(told') /\ body' = body
    BY <1>0, <1>2, SomeItems, HasEndOfAppend DEF BodyTruncate
  <2>. QED BY <1>0, <2>1 DEF EndInv, EndComes, LeaveTasks, BodyHere
<1>3. CASE BodyItem
  <2> DEFINE c == Head(items)
  <2>1. /\ c \in Items /\ told' = Append(told, c) /\ items' = Tail(items)
        /\ body' = body /\ guard' = guard
        /\ HasEnd(items) => HasEnd(Tail(items)) \/ IsEnd(c)
    BY <1>0, <1>3, EndsOfTail DEF BodyItem, ChannelOK
  <2>. HIDE DEF c
  <2>2. HasEnd(told') <=> HasEnd(told) \/ IsEnd(c)
    BY <1>0, <2>1, HasEndOfAppend
  <2>. QED BY <1>0, <2>1, <2>2 DEF EndInv, EndComes, LeaveTasks, RouterHere, BodyHere
<1>4. CASE BodyEnd
  <2>1. HasEnd(told)
    BY <1>0, <1>4, EndsOfNone DEF BodyEnd, EndInv
  <2>. QED BY <1>0, <1>4, <2>1 DEF BodyEnd, EndInv, LeaveTasks, BodyHere
<1>5. CASE HangUp
  BY <1>0, <1>5 DEF HangUp, EndInv, LeaveTasks, BodyHere
<1>. QED BY <1>1, <1>2, <1>3, <1>4, <1>5 DEF Body

\* A step loses no end.
LEMMA EndStep == TypeOK /\ EndInv /\ [Next]_vars => EndInv'
<1>1. EndInv /\ UNCHANGED vars => EndInv'
  BY DEF EndInv, EndComes, RouterHere, BodyHere, vars
<1>. QED BY <1>1, EndPump, EndRouter, EndBody DEF Next

-----------------------------------------------------------------------------
(* Theorems *)

\* However the two tasks, the body and its client interleave, types, books and
\* ends on their way agree (responses.rs, routing.rs, lib.rs, repetition_guard.rs).
THEOREM StreamsInvariance == Spec => []IInv
<1>1. Init => IInv
  BY TypeInit, BooksInit, EndInit DEF IInv
<1>2. IInv /\ [Next]_vars => IInv'
  BY TypeStep, BooksStep, EndStep DEF IInv
<1>. QED BY <1>1, <1>2, PTL DEF Spec

\* A task never waits with nothing to send, nor does a channel hold more than its
\* capacity (routing.rs, the mpsc channels of the executors).
THEOREM StreamsTypeCorrect == Spec => []TypeOK
<1>1. IInv => TypeOK
  BY DEF IInv
<1>. QED BY <1>1, StreamsInvariance, PTL

\* A stream that is over is booked once, and its row says what its client was
\* told: the first end it saw, and usage that came no later (lib.rs, StreamAccounting).
THEOREM TrueRows == Spec => []BooksWhatWasTold
<1>1. IInv => BooksWhatWasTold
  BY DEF IInv, BooksInv, BooksWhatWasTold
<1>. QED BY <1>1, StreamsInvariance, PTL

\* A client that stays is told how the answer ended (responses.rs, openai.rs,
\* routing.rs, repetition_guard.rs).
THEOREM AlwaysAnEnd == Spec => []NeverASilentEnd
<1>1. IInv => NeverASilentEnd
  BY DEF IInv, EndInv, NeverASilentEnd, HasEnd, Ends
<1>. QED BY <1>1, StreamsInvariance, PTL

-----------------------------------------------------------------------------
(* Folds.  What a fold computes is given by what it has after each         *)
(* element.                                                                *)

\* What holds of 0 and of every successor holds of every number.
LEMMA Induction ==
  ASSUME NEW S, 0 \in S, \A n \in Nat : n \in S => n + 1 \in S
  PROVE  Nat \subseteq S
<1>1. SUFFICES ASSUME Nat \ S # {} PROVE FALSE
  OBVIOUS
<1> DEFINE R == OpToRel(<, Nat)
<1>2. \A x, y \in Nat : <<y, x>> \in R <=> y < x
  BY DEF OpToRel
<1>3. IsWellFoundedOn(R, Nat)
  BY NatLessThanWellFounded
<1>4. \E x \in Nat \ S : \A y \in Nat \ S : ~(<<y, x>> \in R)
  <2>. HIDE DEF R
  <2>. QED BY <1>1, <1>3, WFMin
<1>5. PICK x \in Nat \ S : \A y \in Nat \ S : ~(y < x)
  BY <1>2, <1>4
<1>6. x # 0 /\ x - 1 \in Nat /\ x - 1 < x /\ (x - 1) + 1 = x
  BY <1>5
<1>. QED BY <1>5, <1>6

\* A sequence of whatever.
IsSeq(s) == \E X : s \in Seq(X)

\* The step of each fold, by its name.
FoldStep(fold, acc, x) ==
    CASE fold = "frames" -> ReadFrame(acc, x)
      [] fold = "tools" -> ToolUse(acc, x)
      [] fold = "chunks" -> Relay(acc, x)
      [] fold = "calls" -> NormalizeCall(acc, x)
      [] fold = "parts" -> GeminiPart(acc, x)
      [] fold = "assemble" -> AssembleCall(acc, x)
      [] fold = "starts" -> IF x.type = "content_block_start" THEN Append(acc, x) ELSE acc

\* The function that FoldLeft computes, of the sets of places in s.
FoldAfter(fold, base, F, s, T) ==
    IF T = {} THEN base ELSE FoldStep(fold, F[T \ {Max(T)}], s[Max(T)])

IsFold(fold, base, F, s, n) == F = [T \in SUBSET (1 .. n) |-> FoldAfter(fold, base, F, s, T)]

\* A set of numbers up to n has a greatest.
LEMMA GreatestIs ==
  ASSUME NEW n \in Nat, NEW T \in SUBSET (1 .. n), T # {}
  PROVE  Max(T) \in T /\ \A y \in T : Max(T) >= y
<1> DEFINE Has(m) == \A V \in SUBSET (1 .. m) : V # {} => \E x \in V : \A y \in V : x >= y
           Alike == {m \in Nat : Has(m)}
<1>1. Has(0)
  <2>1. 1 .. 0 = {}
    OBVIOUS
  <2>. QED BY <2>1
<1>2. ASSUME NEW m \in Nat, Has(m) PROVE Has(m + 1)
  <2>1. ASSUME NEW V \in SUBSET (1 .. m + 1), V # {}
        PROVE  \E x \in V : \A y \in V : x >= y
    <3>1. CASE m + 1 \in V
      <4>1. \A y \in V : m + 1 >= y
        OBVIOUS
      <4>. QED BY <3>1, <4>1
    <3>2. CASE m + 1 \notin V
      <4>1. V \in SUBSET (1 .. m)
        BY <3>2
      <4>. QED BY <1>2, <2>1, <4>1
    <3>. QED BY <3>1, <3>2
  <2>. QED BY <2>1
<1>3. Nat \subseteq Alike
  <2>1. 0 \in Alike /\ \A m \in Nat : m \in Alike => m + 1 \in Alike
    <3>. HIDE DEF Has
    <3>. QED BY <1>1, <1>2
  <2>. HIDE DEF Alike
  <2>. QED BY <2>1, Induction
<1>4. \E x \in T : \A y \in T : x >= y
  <2>1. Has(n)
    <3>. HIDE DEF Has
    <3>. QED BY <1>3
  <2>. QED BY <2>1
<1>. QED BY <1>4 DEF Max

\* Every fold has its function, for any number of elements.
LEMMA FoldExists ==
  ASSUME NEW fold, NEW base, NEW s, NEW n \in Nat
  PROVE  \E F : IsFold(fold, base, F, s, n)
<1> DEFINE Alike == {m \in Nat : \E F : IsFold(fold, base, F, s, m)}
<1>1. 0 \in Alike
  <2> DEFINE F == [T \in SUBSET (1 .. 0) |-> base]
  <2>1. 1 .. 0 = {}
    OBVIOUS
  <2>2. \A T \in SUBSET (1 .. 0) : FoldAfter(fold, base, F, s, T) = base
    BY <2>1 DEF FoldAfter
  <2>3. IsFold(fold, base, F, s, 0)
    BY <2>2 DEF IsFold
  <2>. QED BY <2>3
<1>2. ASSUME NEW m \in Nat, m \in Alike PROVE m + 1 \in Alike
  <2>1. PICK F : IsFold(fold, base, F, s, m)
    BY <1>2
  <2> DEFINE G == [T \in SUBSET (1 .. m + 1) |-> FoldAfter(fold, base, F, s, T)]
  <2>2. ASSUME NEW T \in SUBSET (1 .. m + 1), T # {}
        PROVE  T \ {Max(T)} \in SUBSET (1 .. m)
    <3>1. m + 1 \in Nat
      OBVIOUS
    <3>2. Max(T) \in T /\ \A y \in T : Max(T) >= y
      BY <2>2, <3>1, GreatestIs
    <3>3. ASSUME NEW y \in T \ {Max(T)} PROVE y \in 1 .. m
      <4>1. y \in 1 .. m + 1 /\ Max(T) \in 1 .. m + 1 /\ Max(T) >= y /\ y # Max(T)
        BY <3>2
      <4>. QED BY <4>1
    <3>. QED BY <3>3
  <2>3. \A V \in SUBSET (1 .. m) : V \in SUBSET (1 .. m + 1)
    OBVIOUS
  <2>4. \A V \in SUBSET (1 .. m) : G[V] = F[V]
    BY <2>1, <2>3 DEF IsFold
  <2>. HIDE DEF G
  <2>5. \A T \in SUBSET (1 .. m + 1) :
           FoldAfter(fold, base, F, s, T) = FoldAfter(fold, base, G, s, T)
    BY <2>2, <2>4 DEF FoldAfter
  <2>6. IsFold(fold, base, G, s, m + 1)
    BY <2>5 DEF IsFold, G
  <2>. QED BY <2>6
<1>3. Nat \subseteq Alike
  <2>. HIDE DEF Alike
  <2>. QED BY <1>1, <1>2, Induction
<1>. QED BY <1>3

\* What a fold has after each element, g[0] before any.
Steps(fold, base, s, n, g) ==
    /\ g = [k \in 0 .. n |-> g[k]]
    /\ g[0] = base
    /\ \A k \in 0 .. n - 1 : g[k + 1] = FoldStep(fold, g[k], s[k + 1])

\* A function of a fold gives the steps.
LEMMA FoldSteps ==
  ASSUME NEW fold, NEW base, NEW s, NEW n \in Nat, NEW F, IsFold(fold, base, F, s, n)
  PROVE  \E g : Steps(fold, base, s, n, g) /\ F[1 .. n] = g[n]
<1>1. ASSUME NEW T \in SUBSET (1 .. n) PROVE F[T] = FoldAfter(fold, base, F, s, T)
  BY DEF IsFold
<1>2. 1 .. 0 = {} /\ 1 .. 0 \in SUBSET (1 .. n)
  OBVIOUS
<1>3. ASSUME NEW k \in 0 .. n - 1
      PROVE  F[1 .. k + 1] = FoldStep(fold, F[1 .. k], s[k + 1])
  <2>1. k \in Nat /\ k + 1 \in Nat /\ 1 .. k + 1 \in SUBSET (1 .. n) /\ 1 .. k + 1 # {}
    <3>1. k \in Nat /\ k + 1 \in Nat /\ k + 1 <= n
      OBVIOUS
    <3>2. 1 \in 1 .. k + 1
      BY <3>1
    <3>3. 1 .. k + 1 \subseteq 1 .. n
      BY <3>1
    <3>. QED BY <3>1, <3>2, <3>3, Zenon
  <2>2. Max(1 .. k + 1) = k + 1
    <3>1. Max(1 .. k + 1) \in 1 .. k + 1 /\ \A y \in 1 .. k + 1 : Max(1 .. k + 1) >= y
      BY <2>1, GreatestIs
    <3>2. k + 1 \in 1 .. k + 1
      BY <2>1
    <3>3. Max(1 .. k + 1) >= k + 1
      BY <3>1, <3>2
    <3>. QED BY <2>1, <3>1, <3>3
  <2>3. (1 .. k + 1) \ {k + 1} = 1 .. k
    BY <2>1
  <2>4. F[1 .. k + 1] = FoldAfter(fold, base, F, s, 1 .. k + 1)
    BY <1>1, <2>1
  <2>. QED BY <2>1, <2>2, <2>3, <2>4 DEF FoldAfter
<1>4. F[1 .. 0] = base
  BY <1>1, <1>2 DEF FoldAfter
<1> DEFINE g == [k \in 0 .. n |-> F[1 .. k]]
<1>5. \A k \in 0 .. n : g[k] = F[1 .. k]
  OBVIOUS
<1>6. 0 \in 0 .. n /\ n \in 0 .. n /\ \A k \in 0 .. n - 1 : k \in 0 .. n /\ k + 1 \in 0 .. n
  OBVIOUS
<1>. HIDE DEF g
<1>7. g[0] = base /\ g[n] = F[1 .. n]
  BY <1>4, <1>5, <1>6
<1>8. \A k \in 0 .. n - 1 : g[k + 1] = FoldStep(fold, g[k], s[k + 1])
  BY <1>3, <1>5, <1>6
<1>9. g = [k \in 0 .. n |-> g[k]]
  BY DEF g
<1>. QED BY <1>7, <1>8, <1>9 DEF Steps

\* What is true of the base and kept by every step is true of the result.
LEMMA StepsKeep ==
  ASSUME NEW fold, NEW base, NEW s, NEW n \in Nat, NEW g, Steps(fold, base, s, n, g),
         NEW Good, 0 \in Good, \A k \in 0 .. n - 1 : k \in Good => k + 1 \in Good
  PROVE  \A k \in 0 .. n : k \in Good
<1> DEFINE Reached == {k \in Nat : k <= n => k \in Good}
<1>1. 0 \in Reached
  OBVIOUS
<1>2. \A k \in Nat : k \in Reached => k + 1 \in Reached
  <2>1. ASSUME NEW k \in Nat, k \in Reached, k + 1 <= n PROVE k + 1 \in Good
    <3>1. k \in 0 .. n - 1 /\ k <= n
      BY <2>1
    <3>. QED BY <2>1, <3>1
  <2>. QED BY <2>1
<1>. HIDE DEF Reached
<1>3. Nat \subseteq Reached
  BY <1>1, <1>2, Induction
<1>. QED BY <1>3 DEF Reached

\* A sequence with one element more.
LEMMA SeqMore ==
  ASSUME NEW s, IsSeq(s), NEW x
  PROVE  /\ IsSeq(Append(s, x)) /\ Len(s) \in Nat /\ DOMAIN s = 1 .. Len(s)
         /\ Len(Append(s, x)) = Len(s) + 1 /\ Append(s, x)[Len(s) + 1] = x
         /\ DOMAIN Append(s, x) = 1 .. Len(s) + 1
         /\ \A k \in 1 .. Len(s) : Append(s, x)[k] = s[k]
<1>1. PICK X : s \in Seq(X)
  BY DEF IsSeq
<1> DEFINE Y == X \union {x}
<1>2. s \in Seq(Y) /\ x \in Y
  BY <1>1
<1>. HIDE DEF Y
<1>3. Append(s, x) \in Seq(Y)
  BY <1>2
<1>. QED BY <1>2, <1>3 DEF IsSeq

\* Over one element more, a fold goes one step further.
LEMMA StepsMore ==
  ASSUME NEW fold, NEW base, NEW n \in Nat,
         NEW s, NEW g, Steps(fold, base, s, n, g),
         NEW t, NEW h, Steps(fold, base, t, n + 1, h),
         \A k \in 1 .. n : t[k] = s[k]
  PROVE  h[n + 1] = FoldStep(fold, g[n], t[n + 1])
<1> DEFINE Same == {k \in 0 .. n : h[k] = g[k]}
<1>1. 0 \in Same
  BY DEF Steps
<1>2. ASSUME NEW k \in 0 .. n - 1, k \in Same PROVE k + 1 \in Same
  <2>1. k \in 0 .. n /\ k + 1 \in 0 .. n /\ k + 1 \in 1 .. n /\ k \in 0 .. (n + 1) - 1
    OBVIOUS
  <2>2. g[k + 1] = FoldStep(fold, g[k], s[k + 1]) /\ h[k + 1] = FoldStep(fold, h[k], t[k + 1])
    BY <2>1 DEF Steps
  <2>. QED BY <1>2, <2>1, <2>2
<1>. HIDE DEF Same
<1>3. n \in Same
  BY <1>1, <1>2, StepsKeep
<1>4. n \in 0 .. (n + 1) - 1
  OBVIOUS
<1>5. h[n + 1] = FoldStep(fold, h[n], t[n + 1])
  BY <1>4 DEF Steps
<1>. QED BY <1>3, <1>5 DEF Same

ToolsAfter(base, F, s, T) == IF T = {} THEN base ELSE ToolUse(F[T \ {Max(T)}], s[Max(T)])

\* The calls of a chunk are told one after the other.
LEMMA ToolsSteps ==
  ASSUME NEW base, NEW s, IsSeq(s)
  PROVE  \E g : Steps("tools", base, s, Len(s), g) /\ FoldLeft(ToolUse, base, s) = g[Len(s)]
<1> DEFINE Is(F) == F = [T \in SUBSET DOMAIN s |-> ToolsAfter(base, F, s, T)]
<1>1. FoldLeft(ToolUse, base, s) = (CHOOSE F : Is(F))[DOMAIN s]
  BY DEF FoldLeft, MapThenFoldSet, ToolsAfter
<1>2. DOMAIN s = 1 .. Len(s) /\ Len(s) \in Nat
  BY DEF IsSeq
<1>3. \A F, T : ToolsAfter(base, F, s, T) = FoldAfter("tools", base, F, s, T)
  BY DEF ToolsAfter, FoldAfter, FoldStep
<1>4. \A F : Is(F) <=> IsFold("tools", base, F, s, Len(s))
  BY <1>2, <1>3 DEF IsFold
<1>. HIDE DEF Is
<1>5. PICK H : IsFold("tools", base, H, s, Len(s)) /\ FoldLeft(ToolUse, base, s) = H[1 .. Len(s)]
  <2>1. \E F : Is(F)
    BY <1>2, <1>4, FoldExists
  <2>. QED BY <1>1, <1>2, <1>4, <2>1
<1>. QED BY <1>2, <1>5, FoldSteps

ChunksAfter(base, F, s, T) == IF T = {} THEN base ELSE Relay(F[T \ {Max(T)}], s[Max(T)])

\* The chunks of an event are relayed one after the other.
LEMMA ChunksSteps ==
  ASSUME NEW base, NEW s, IsSeq(s)
  PROVE  \E g : Steps("chunks", base, s, Len(s), g) /\ FoldLeft(Relay, base, s) = g[Len(s)]
<1> DEFINE Is(F) == F = [T \in SUBSET DOMAIN s |-> ChunksAfter(base, F, s, T)]
<1>1. FoldLeft(Relay, base, s) = (CHOOSE F : Is(F))[DOMAIN s]
  BY DEF FoldLeft, MapThenFoldSet, ChunksAfter
<1>2. DOMAIN s = 1 .. Len(s) /\ Len(s) \in Nat
  BY DEF IsSeq
<1>3. \A F, T : ChunksAfter(base, F, s, T) = FoldAfter("chunks", base, F, s, T)
  BY DEF ChunksAfter, FoldAfter, FoldStep
<1>4. \A F : Is(F) <=> IsFold("chunks", base, F, s, Len(s))
  BY <1>2, <1>3 DEF IsFold
<1>. HIDE DEF Is
<1>5. PICK H : IsFold("chunks", base, H, s, Len(s)) /\ FoldLeft(Relay, base, s) = H[1 .. Len(s)]
  <2>1. \E F : Is(F)
    BY <1>2, <1>4, FoldExists
  <2>. QED BY <1>1, <1>2, <1>4, <2>1
<1>. QED BY <1>2, <1>5, FoldSteps

CallsAfter(base, F, s, T) == IF T = {} THEN base ELSE NormalizeCall(F[T \ {Max(T)}], s[Max(T)])

\* The calls of a chunk are completed one after the other.
LEMMA CallsSteps ==
  ASSUME NEW base, NEW s, IsSeq(s)
  PROVE  \E g : Steps("calls", base, s, Len(s), g) /\ FoldLeft(NormalizeCall, base, s) = g[Len(s)]
<1> DEFINE Is(F) == F = [T \in SUBSET DOMAIN s |-> CallsAfter(base, F, s, T)]
<1>1. FoldLeft(NormalizeCall, base, s) = (CHOOSE F : Is(F))[DOMAIN s]
  BY DEF FoldLeft, MapThenFoldSet, CallsAfter
<1>2. DOMAIN s = 1 .. Len(s) /\ Len(s) \in Nat
  BY DEF IsSeq
<1>3. \A F, T : CallsAfter(base, F, s, T) = FoldAfter("calls", base, F, s, T)
  BY DEF CallsAfter, FoldAfter, FoldStep
<1>4. \A F : Is(F) <=> IsFold("calls", base, F, s, Len(s))
  BY <1>2, <1>3 DEF IsFold
<1>. HIDE DEF Is
<1>5. PICK H : /\ IsFold("calls", base, H, s, Len(s))
               /\ FoldLeft(NormalizeCall, base, s) = H[1 .. Len(s)]
  <2>1. \E F : Is(F)
    BY <1>2, <1>4, FoldExists
  <2>. QED BY <1>1, <1>2, <1>4, <2>1
<1>. QED BY <1>2, <1>5, FoldSteps

PartsAfter(base, F, s, T) == IF T = {} THEN base ELSE GeminiPart(F[T \ {Max(T)}], s[Max(T)])

\* The parts of a payload are translated one after the other.
LEMMA PartsSteps ==
  ASSUME NEW base, NEW s, IsSeq(s)
  PROVE  \E g : Steps("parts", base, s, Len(s), g) /\ FoldLeft(GeminiPart, base, s) = g[Len(s)]
<1> DEFINE Is(F) == F = [T \in SUBSET DOMAIN s |-> PartsAfter(base, F, s, T)]
<1>1. FoldLeft(GeminiPart, base, s) = (CHOOSE F : Is(F))[DOMAIN s]
  BY DEF FoldLeft, MapThenFoldSet, PartsAfter
<1>2. DOMAIN s = 1 .. Len(s) /\ Len(s) \in Nat
  BY DEF IsSeq
<1>3. \A F, T : PartsAfter(base, F, s, T) = FoldAfter("parts", base, F, s, T)
  BY DEF PartsAfter, FoldAfter, FoldStep
<1>4. \A F : Is(F) <=> IsFold("parts", base, F, s, Len(s))
  BY <1>2, <1>3 DEF IsFold
<1>. HIDE DEF Is
<1>5. PICK H : IsFold("parts", base, H, s, Len(s)) /\ FoldLeft(GeminiPart, base, s) = H[1 .. Len(s)]
  <2>1. \E F : Is(F)
    BY <1>2, <1>4, FoldExists
  <2>. QED BY <1>1, <1>2, <1>4, <2>1
<1>. QED BY <1>2, <1>5, FoldSteps

FramesAfter(base, F, s, T) == IF T = {} THEN base ELSE ReadFrame(F[T \ {Max(T)}], s[Max(T)])

\* A client reads one frame after the other.
LEMMA FramesSteps ==
  ASSUME NEW base, NEW s, IsSeq(s)
  PROVE  \E g : Steps("frames", base, s, Len(s), g) /\ FoldLeft(ReadFrame, base, s) = g[Len(s)]
<1> DEFINE Is(F) == F = [T \in SUBSET DOMAIN s |-> FramesAfter(base, F, s, T)]
<1>1. FoldLeft(ReadFrame, base, s) = (CHOOSE F : Is(F))[DOMAIN s]
  BY DEF FoldLeft, MapThenFoldSet, FramesAfter
<1>2. DOMAIN s = 1 .. Len(s) /\ Len(s) \in Nat
  BY DEF IsSeq
<1>3. \A F, T : FramesAfter(base, F, s, T) = FoldAfter("frames", base, F, s, T)
  BY DEF FramesAfter, FoldAfter, FoldStep
<1>4. \A F : Is(F) <=> IsFold("frames", base, F, s, Len(s))
  BY <1>2, <1>3 DEF IsFold
<1>. HIDE DEF Is
<1>5. PICK H : IsFold("frames", base, H, s, Len(s)) /\ FoldLeft(ReadFrame, base, s) = H[1 .. Len(s)]
  <2>1. \E F : Is(F)
    BY <1>2, <1>4, FoldExists
  <2>. QED BY <1>1, <1>2, <1>4, <2>1
<1>. QED BY <1>2, <1>5, FoldSteps

-----------------------------------------------------------------------------
(* What a Claude client reads, and the blocks it is told of.               *)

Reads(frames) == FoldLeft(ReadFrame, "new", frames)

\* What a client has read after one more frame.
LEMMA ReadsMore ==
  ASSUME NEW frames, IsSeq(frames), NEW f
  PROVE  Reads(Append(frames, f)) = ReadFrame(Reads(frames), f)
<1> DEFINE n == Len(frames)
           t == Append(frames, f)
<1>1. /\ n \in Nat /\ IsSeq(t) /\ Len(t) = n + 1 /\ t[n + 1] = f
      /\ \A k \in 1 .. n : t[k] = frames[k]
  BY SeqMore
<1>2. PICK g : Steps("frames", "new", frames, n, g) /\ Reads(frames) = g[n]
  BY FramesSteps DEF Reads
<1>. HIDE DEF n, t
<1>3. PICK h : Steps("frames", "new", t, n + 1, h) /\ Reads(t) = h[n + 1]
  BY <1>1, FramesSteps DEF Reads
<1>4. h[n + 1] = FoldStep("frames", g[n], f)
  BY <1>1, <1>2, <1>3, StepsMore
<1>. QED BY <1>2, <1>3, <1>4 DEF FoldStep, t

\* The starts among the frames, as steps.
LEMMA StartsSteps ==
  ASSUME NEW frames, IsSeq(frames)
  PROVE  \E g : Steps("starts", <<>>, frames, Len(frames), g)
                /\ StartsIn(frames) = g[Len(frames)]
<1> DEFINE n == Len(frames)
           Is(F) == F = [k \in 0 .. n |->
                            IF k = 0 THEN <<>>
                            ELSE IF frames[k].type = "content_block_start"
                            THEN Append(F[k - 1], frames[k])
                            ELSE F[k - 1]]
<1>1. n \in Nat
  BY DEF IsSeq
<1>2. StartsIn(frames) = (CHOOSE F : Is(F))[n]
  BY DEF StartsIn
<1>. HIDE DEF n
<1>3. PICK G : IsFold("starts", <<>>, G, frames, n)
  BY <1>1, FoldExists
<1>4. PICK g : Steps("starts", <<>>, frames, n, g)
  BY <1>1, <1>3, FoldSteps
<1>5. Is(g)
  <2> DEFINE then(k) == IF k = 0 THEN <<>>
                        ELSE IF frames[k].type = "content_block_start"
                        THEN Append(g[k - 1], frames[k])
                        ELSE g[k - 1]
  <2>1. ASSUME NEW k \in 0 .. n PROVE g[k] = then(k)
    <3>1. CASE k = 0
      BY <1>4, <3>1 DEF Steps
    <3>2. CASE k # 0
      <4>1. k - 1 \in 0 .. n - 1 /\ (k - 1) + 1 = k
        BY <1>1, <3>2
      <4>2. g[k] = FoldStep("starts", g[k - 1], frames[k])
        BY <1>4, <4>1 DEF Steps
      <4>. QED BY <3>2, <4>2 DEF FoldStep
    <3>. QED BY <3>1, <3>2
  <2>2. g = [k \in 0 .. n |-> g[k]]
    BY <1>4 DEF Steps
  <2>3. [k \in 0 .. n |-> g[k]] = [k \in 0 .. n |-> then(k)]
    <3>. HIDE DEF then
    <3>. QED BY <2>1
  <2>4. g = [k \in 0 .. n |-> then(k)]
    <3>. HIDE DEF then
    <3>. QED BY <2>2, <2>3
  <2>. QED BY <2>4
<1> DEFINE H == CHOOSE F : Is(F)
<1>6. Is(H)
  <2>. HIDE DEF Is
  <2>. QED BY <1>5
<1>. HIDE DEF H
<1>7. Steps("starts", <<>>, frames, n, H)
  <2>1. H = [k \in 0 .. n |-> H[k]]
    BY <1>6
  <2>2. H[0] = <<>>
    BY <1>1, <1>6
  <2>3. ASSUME NEW k \in 0 .. n - 1
        PROVE  H[k + 1] = FoldStep("starts", H[k], frames[k + 1])
    <3>1. k + 1 \in 0 .. n /\ k + 1 # 0 /\ (k + 1) - 1 = k
      BY <1>1
    <3>2. H[k + 1] = IF frames[k + 1].type = "content_block_start"
                     THEN Append(H[k], frames[k + 1]) ELSE H[k]
      BY <1>6, <3>1
    <3>. QED BY <3>2 DEF FoldStep
  <2>. QED BY <2>1, <2>2, <2>3 DEF Steps
<1>. QED BY <1>2, <1>7 DEF n, H

\* The starts after one more frame.
LEMMA StartsMore ==
  ASSUME NEW frames, IsSeq(frames), NEW f
  PROVE  StartsIn(Append(frames, f)) =
             IF f.type = "content_block_start" THEN Append(StartsIn(frames), f)
             ELSE StartsIn(frames)
<1> DEFINE n == Len(frames)
           t == Append(frames, f)
<1>1. /\ n \in Nat /\ IsSeq(t) /\ Len(t) = n + 1 /\ t[n + 1] = f
      /\ \A k \in 1 .. n : t[k] = frames[k]
  BY SeqMore
<1>2. PICK g : Steps("starts", <<>>, frames, n, g) /\ StartsIn(frames) = g[n]
  BY StartsSteps
<1>. HIDE DEF n, t
<1>3. PICK h : Steps("starts", <<>>, t, n + 1, h) /\ StartsIn(t) = h[n + 1]
  BY <1>1, StartsSteps
<1>4. h[n + 1] = FoldStep("starts", g[n], f)
  BY <1>1, <1>2, <1>3, StepsMore
<1>. QED BY <1>2, <1>3, <1>4 DEF FoldStep, t

\* No frames, nothing read and no blocks.
LEMMA NothingRead == Reads(<<>>) = "new" /\ StartsIn(<<>>) = <<>>
<1>1. IsSeq(<<>>) /\ Len(<<>>) = 0
  BY DEF IsSeq
<1>2. \E g : Steps("frames", "new", <<>>, 0, g) /\ Reads(<<>>) = g[0]
  BY ONLY <1>1, FramesSteps DEF Reads
<1>3. \E g : Steps("starts", <<>>, <<>>, 0, g) /\ StartsIn(<<>>) = g[0]
  BY ONLY <1>1, StartsSteps
<1>. QED BY <1>2, <1>3 DEF Steps

\* The frames of a dialect name the blocks it began, and the block that is open is
\* the last one.
FramesTrue(frames, next) ==
    /\ IsSeq(frames) /\ next \in Nat
    /\ IsSeq(StartsIn(frames)) /\ Len(StartsIn(frames)) = next
    /\ \A i \in 1 .. next : StartsIn(frames)[i].index = i - 1
    /\ \A i \in DOMAIN frames :
          frames[i].type = "content_block_delta" =>
              /\ frames[i].index \in 0 .. next - 1
              /\ StartsIn(frames)[frames[i].index + 1].kind = frames[i].kind

OpenTrue(open, frames, next) ==
    open = NoBlock \/ /\ next > 0 /\ open.index = next - 1 /\ open.kind # ""
                      /\ open.kind = StartsIn(frames)[next].kind

Core(d) ==
    /\ d = [next |-> d.next, open |-> d.open, stopped |-> d.stopped, failed |-> d.failed,
            usage |-> d.usage, frames |-> d.frames]
    /\ FramesTrue(d.frames, d.next)
    /\ OpenTrue(d.open, d.frames, d.next)
    /\ d.stopped \in BOOLEAN /\ d.failed \in BOOLEAN

\* One frame more that is no start and, if it is a delta, is of the kind of its block.
LEMMA FrameMore ==
  ASSUME NEW frames, NEW next, FramesTrue(frames, next), NEW f,
         f.type # "content_block_start",
         f.type = "content_block_delta" =>
             f.index \in 0 .. next - 1 /\ StartsIn(frames)[f.index + 1].kind = f.kind
  PROVE  /\ FramesTrue(Append(frames, f), next)
         /\ StartsIn(Append(frames, f)) = StartsIn(frames)
         /\ Reads(Append(frames, f)) = ReadFrame(Reads(frames), f)
<1> DEFINE n == Len(frames)
           t == Append(frames, f)
<1>1. /\ n \in Nat /\ IsSeq(t) /\ DOMAIN t = 1 .. n + 1 /\ t[n + 1] = f
      /\ DOMAIN frames = 1 .. n
      /\ \A k \in 1 .. n : t[k] = frames[k]
  BY SeqMore DEF FramesTrue
<1>2. StartsIn(t) = StartsIn(frames) /\ Reads(t) = ReadFrame(Reads(frames), f)
  BY StartsMore, ReadsMore DEF FramesTrue
<1>. HIDE DEF t, n
<1>3. ASSUME NEW i \in DOMAIN t, t[i].type = "content_block_delta"
      PROVE  /\ t[i].index \in 0 .. next - 1
             /\ StartsIn(frames)[t[i].index + 1].kind = t[i].kind
  <2>1. CASE i = n + 1
    BY <1>1, <1>3, <2>1
  <2>2. CASE i # n + 1
    <3>1. i \in 1 .. n
      BY <1>1, <2>2
    <3>. QED BY <1>1, <1>3, <3>1 DEF FramesTrue
  <2>. QED BY <2>1, <2>2
<1>4. FramesTrue(t, next)
  BY <1>1, <1>2, <1>3 DEF FramesTrue
<1>. QED BY <1>2, <1>4 DEF t

\* One start more, under the next index.
LEMMA StartMore ==
  ASSUME NEW frames, NEW next, FramesTrue(frames, next), NEW f,
         f.type = "content_block_start", f.index = next
  PROVE  /\ FramesTrue(Append(frames, f), next + 1)
         /\ StartsIn(Append(frames, f))[next + 1] = f
         /\ Reads(Append(frames, f)) = ReadFrame(Reads(frames), f)
<1> DEFINE n == Len(frames)
           t == Append(frames, f)
           old == StartsIn(frames)
           new == StartsIn(t)
<1>1. /\ n \in Nat /\ IsSeq(t) /\ DOMAIN t = 1 .. n + 1 /\ t[n + 1] = f
      /\ DOMAIN frames = 1 .. n
      /\ \A k \in 1 .. n : t[k] = frames[k]
  BY SeqMore DEF FramesTrue
<1>2. new = Append(old, f) /\ Reads(t) = ReadFrame(Reads(frames), f)
  BY StartsMore, ReadsMore DEF FramesTrue
<1>3. /\ next \in Nat /\ Len(old) = next /\ IsSeq(old)
      /\ \A i \in 1 .. next : old[i].index = i - 1
  BY DEF FramesTrue
<1>. HIDE DEF t, n, old, new
<1>4. /\ IsSeq(new) /\ Len(new) = next + 1 /\ new[next + 1] = f
      /\ \A k \in 1 .. next : new[k] = old[k]
  BY <1>2, <1>3, SeqMore
<1>5. \A i \in 1 .. next + 1 : new[i].index = i - 1
  <2>1. \A i \in 1 .. next + 1 : i = next + 1 \/ i \in 1 .. next
    BY <1>3
  <2>2. (next + 1) - 1 = next
    BY <1>3
  <2>. QED BY <1>3, <1>4, <2>1, <2>2
<1>6. ASSUME NEW i \in DOMAIN t, t[i].type = "content_block_delta"
      PROVE  /\ t[i].index \in 0 .. (next + 1) - 1
             /\ new[t[i].index + 1].kind = t[i].kind
  <2>1. i # n + 1
    BY <1>1, <1>6
  <2>2. i \in 1 .. n
    BY <1>1, <2>1
  <2>3. frames[i].index \in 0 .. next - 1 /\ old[frames[i].index + 1].kind = frames[i].kind
        /\ t[i] = frames[i]
    BY <1>1, <1>6, <2>2 DEF FramesTrue, old
  <2>4. frames[i].index + 1 \in 1 .. next /\ frames[i].index \in 0 .. (next + 1) - 1
    BY <1>3, <2>3
  <2>. QED BY <1>4, <2>3, <2>4
<1>7. next + 1 \in Nat
  BY <1>3
<1>8. FramesTrue(t, next + 1)
  BY <1>1, <1>4, <1>5, <1>6, <1>7 DEF FramesTrue, new
<1>. QED BY <1>2, <1>4, <1>8 DEF t, new

\* A dialect with one frame more.
LEMMA ToldIs ==
  ASSUME NEW d, Core(d), NEW f
  PROVE  /\ Told(d, f) = [next |-> d.next, open |-> d.open, stopped |-> d.stopped,
                          failed |-> d.failed, usage |-> d.usage,
                          frames |-> Append(d.frames, f)]
<1>1. d = [next |-> d.next, open |-> d.open, stopped |-> d.stopped, failed |-> d.failed,
           usage |-> d.usage, frames |-> d.frames]
  BY DEF Core
<1>. QED BY <1>1, SMTT(60) DEF Told

\* A frame that is neither a start nor a delta changes no block.
LEMMA ToldOther ==
  ASSUME NEW d, Core(d), NEW f,
         f.type \notin {"content_block_start", "content_block_delta"}
  PROVE  LET t == Told(d, f) IN
         /\ Core(t) /\ t.next = d.next /\ t.open = d.open /\ t.stopped = d.stopped
         /\ t.failed = d.failed /\ t.usage = d.usage
         /\ Reads(t.frames) = ReadFrame(Reads(d.frames), f)
<1> DEFINE t == Told(d, f)
           fr == Append(d.frames, f)
<1>1. t = [next |-> d.next, open |-> d.open, stopped |-> d.stopped,
           failed |-> d.failed, usage |-> d.usage, frames |-> fr]
  BY ToldIs
<1>2. FramesTrue(fr, d.next) /\ StartsIn(fr) = StartsIn(d.frames)
      /\ Reads(fr) = ReadFrame(Reads(d.frames), f)
  BY FrameMore DEF Core
<1>. HIDE DEF t, fr
<1>3. OpenTrue(d.open, fr, d.next)
  BY <1>2 DEF Core, OpenTrue
<1>4. Core(t)
  BY <1>1, <1>2, <1>3 DEF Core
<1>. QED BY <1>1, <1>2, <1>4 DEF t

\* How far a client has read while a message goes on.
OpenOf(d) == IF d.open = NoBlock THEN "idle" ELSE "open"

Live(d) == Core(d) /\ Reads(d.frames) = OpenOf(d)

\* What a step leaves alone.
SameFlags(a, b) == a.stopped = b.stopped /\ a.failed = b.failed /\ a.usage = b.usage

\* A block is closed.
LEMMA CloseBlockLive ==
  ASSUME NEW d, Live(d)
  PROVE  Live(CloseBlock(d)) /\ CloseBlock(d).open = NoBlock /\ SameFlags(CloseBlock(d), d)
<1>1. CASE d.open = NoBlock
  BY <1>1 DEF CloseBlock, SameFlags
<1>2. CASE d.open # NoBlock
  <2> DEFINE e == [d EXCEPT !.open = NoBlock]
             f == Frame("content_block_stop", d.open.index, "", "", "", <<>>)
             t == Told(e, f)
  <2>1. e = [next |-> d.next, open |-> NoBlock, stopped |-> d.stopped,
             failed |-> d.failed, usage |-> d.usage, frames |-> d.frames]
    BY DEF Live, Core
  <2>2. Core(e) /\ SameFlags(e, d) /\ e.frames = d.frames /\ e.open = NoBlock
    BY <2>1 DEF Live, Core, OpenTrue, SameFlags
  <2>3. f.type = "content_block_stop"
    BY DEF Frame
  <2>4. CloseBlock(d) = t
    BY <1>2 DEF CloseBlock
  <2>. HIDE DEF e, f
  <2>5. /\ Core(t) /\ t.open = NoBlock /\ SameFlags(t, e)
        /\ Reads(t.frames) = ReadFrame(Reads(d.frames), f)
    BY <2>2, <2>3, ToldOther DEF SameFlags
  <2>6. Reads(d.frames) = "open"
    BY <1>2 DEF Live, OpenOf
  <2>7. ReadFrame("open", f) = "idle"
    BY <2>3 DEF ReadFrame
  <2>. HIDE DEF t
  <2>. QED BY <2>2, <2>4, <2>5, <2>6, <2>7 DEF Live, OpenOf, SameFlags
<1>. QED BY <1>1, <1>2

\* No block is of no kind, under no index.
LEMMA NoBlockIs == NoBlock.kind = "" /\ NoBlock.index = -1
BY DEF NoBlock

\* A dialect whose block of that kind is open, for another with the same flags.
Open(b, kind, d) == Live(b) /\ b.open.kind = kind /\ SameFlags(b, d)

\* A dialect with another block.
LEMMA OtherBlock ==
  ASSUME NEW c, c = [next |-> c.next, open |-> c.open, stopped |-> c.stopped,
                     failed |-> c.failed, usage |-> c.usage, frames |-> c.frames],
         NEW next, NEW open
  PROVE  [c EXCEPT !.next = next, !.open = open]
             = [next |-> next, open |-> open, stopped |-> c.stopped, failed |-> c.failed,
                usage |-> c.usage, frames |-> c.frames]
<1> DEFINE d == [c EXCEPT !.next = next]
<1>1. d = [next |-> next, open |-> c.open, stopped |-> c.stopped, failed |-> c.failed,
           usage |-> c.usage, frames |-> c.frames]
  OBVIOUS
<1>. HIDE DEF d
<1>2. [d EXCEPT !.open = open]
          = [next |-> next, open |-> open, stopped |-> c.stopped, failed |-> c.failed,
             usage |-> c.usage, frames |-> c.frames]
  BY <1>1
<1>. QED BY <1>2 DEF d

\* A block is begun.
LEMMA BeginLive ==
  ASSUME NEW d, Live(d), NEW kind, kind # "", NEW part, NEW id, NEW name
  PROVE  Open(Begin(d, kind, part, id, name), kind, d)
<1> DEFINE c == CloseBlock(d)
           o == [index |-> c.next, kind |-> kind, part |-> part]
           m == c.next + 1
           e == [c EXCEPT !.next = m, !.open = o]
           f == Frame("content_block_start", c.next, kind, id, name, <<>>)
           fr == Append(c.frames, f)
           b == Begin(d, kind, part, id, name)
<1>1. Live(c) /\ c.open = NoBlock /\ SameFlags(c, d)
  BY CloseBlockLive
<1>2. b = Told(e, f)
  BY DEF Begin
<1>. HIDE DEF c
<1>14. c.next \in Nat
  BY <1>1 DEF Live, Core, FramesTrue
<1>15. m \in Nat /\ m > 0 /\ m - 1 = c.next
  <2> DEFINE k == c.next
  <2>1. k \in Nat
    BY <1>14
  <2>. HIDE DEF k
  <2>2. k + 1 \in Nat /\ k + 1 > 0 /\ (k + 1) - 1 = k
    BY ONLY <2>1
  <2>. QED BY <2>2 DEF k
<1>. HIDE DEF m
<1>13. o.index = c.next /\ o.kind = kind /\ o # NoBlock
  <2>1. o.index = c.next /\ o.kind = kind
    OBVIOUS
  <2>. HIDE DEF o
  <2>. QED BY <2>1, NoBlockIs
<1>. HIDE DEF o
<1>3. e = [next |-> m, open |-> o, stopped |-> c.stopped, failed |-> c.failed,
           usage |-> c.usage, frames |-> c.frames]
  <2>1. c = [next |-> c.next, open |-> c.open, stopped |-> c.stopped, failed |-> c.failed,
             usage |-> c.usage, frames |-> c.frames]
    BY <1>1 DEF Live, Core
  <2>. QED BY <2>1, OtherBlock, ZenonT(60)
<1>. HIDE DEF e
<1>4. b = [next |-> m, open |-> o, stopped |-> c.stopped, failed |-> c.failed,
           usage |-> c.usage, frames |-> fr]
  BY <1>2, <1>3 DEF Told
<1>5. f.type = "content_block_start" /\ f.index = c.next /\ f.kind = kind
  BY DEF Frame
<1>. HIDE DEF b, e, f
<1>6. /\ FramesTrue(fr, m) /\ StartsIn(fr)[m] = f
      /\ Reads(fr) = ReadFrame(Reads(c.frames), f)
  <2>1. FramesTrue(c.frames, c.next)
    BY <1>1 DEF Live, Core
  <2>. QED BY ONLY <1>5, <2>1, StartMore DEF m, fr
<1>7. Reads(fr) = "open"
  BY <1>1, <1>5, <1>6 DEF Live, OpenOf, ReadFrame
<1>. HIDE DEF fr
<1>8. c.next \in Nat /\ c.stopped \in BOOLEAN /\ c.failed \in BOOLEAN
  BY <1>1 DEF Live, Core, FramesTrue
<1>9. OpenTrue(o, fr, m)
  BY <1>5, <1>6, <1>13, <1>15 DEF OpenTrue
<1>10. Core(b)
  BY <1>4, <1>6, <1>8, <1>9, <1>15 DEF Core
<1>11. Live(b)
  BY <1>4, <1>7, <1>10, <1>13 DEF Live, OpenOf
<1>12. SameFlags(b, d) /\ b.open.kind = kind
  BY <1>1, <1>4, <1>13 DEF SameFlags
<1>. QED BY <1>11, <1>12 DEF b, Open

\* A delta of the kind of the block that is open.
LEMMA DeltaLive ==
  ASSUME NEW d, Live(d), NEW kind, kind # "", d.open.kind = kind, NEW value
  PROVE  Live(BlockDelta(d, kind, value)) /\ SameFlags(BlockDelta(d, kind, value), d)
<1> DEFINE f == Frame("content_block_delta", d.open.index, kind, "", "", value)
           fr == Append(d.frames, f)
           t == BlockDelta(d, kind, value)
<1>1. d.open # NoBlock
  BY NoBlockIs
<1>2. f.type = "content_block_delta" /\ f.index = d.open.index /\ f.kind = kind
  BY DEF Frame
<1>3. t = [next |-> d.next, open |-> d.open, stopped |-> d.stopped,
           failed |-> d.failed, usage |-> d.usage, frames |-> fr]
  <2>1. t = Told(d, f)
    BY DEF BlockDelta
  <2>. HIDE DEF f
  <2>. QED BY <2>1, ToldIs DEF Live
<1>. HIDE DEF f, t
<1>4. /\ d.next \in Nat /\ d.next > 0 /\ d.open.index = d.next - 1
      /\ StartsIn(d.frames)[d.next].kind = kind
  BY <1>1 DEF Live, Core, OpenTrue, FramesTrue
<1>5. f.index \in 0 .. d.next - 1 /\ StartsIn(d.frames)[f.index + 1].kind = f.kind
  <2>1. f.index = d.next - 1
    BY <1>2, <1>4
  <2>2. (d.next - 1) + 1 = d.next /\ d.next - 1 \in 0 .. d.next - 1
    <3> DEFINE k == d.next
    <3>1. k \in Nat /\ k > 0
      BY <1>4
    <3>. HIDE DEF k
    <3>2. (k - 1) + 1 = k /\ k - 1 \in 0 .. k - 1
      BY ONLY <3>1
    <3>. QED BY <3>2 DEF k
  <2>. QED BY <1>2, <1>4, <2>1, <2>2
<1>6. /\ FramesTrue(fr, d.next) /\ StartsIn(fr) = StartsIn(d.frames)
      /\ Reads(fr) = ReadFrame(Reads(d.frames), f)
  BY <1>2, <1>5, FrameMore DEF Live, Core
<1>. HIDE DEF fr
<1>7. Reads(fr) = "open"
  BY <1>1, <1>2, <1>6 DEF Live, OpenOf, ReadFrame
<1>8. Core(t)
  <2>1. OpenTrue(d.open, fr, d.next)
    BY <1>6 DEF Live, Core, OpenTrue
  <2>2. d.stopped \in BOOLEAN /\ d.failed \in BOOLEAN
    BY DEF Live, Core
  <2>. QED BY <1>3, <1>6, <2>1, <2>2 DEF Core
<1>9. Live(t) /\ SameFlags(t, d)
  BY <1>1, <1>3, <1>7, <1>8 DEF Live, OpenOf, SameFlags
<1>. QED BY <1>9 DEF t

\* A text, or a thought.
LEMMA TextLive ==
  ASSUME NEW d, Live(d), NEW kind, kind # "", NEW piece
  PROVE  Live(TextDelta(d, kind, piece)) /\ SameFlags(TextDelta(d, kind, piece), d)
<1> DEFINE b == ContinueBlock(d, kind)
<1>1. Open(b, kind, d)
  <2>1. CASE d.open.kind = kind
    BY <2>1 DEF ContinueBlock, SameFlags, Open
  <2>2. CASE d.open.kind # kind
    BY <2>2, BeginLive DEF ContinueBlock
  <2>. QED BY <2>1, <2>2
<1>. HIDE DEF b
<1>2. Live(BlockDelta(b, kind, <<piece>>)) /\ SameFlags(BlockDelta(b, kind, <<piece>>), b)
  BY <1>1, DeltaLive DEF Open
<1>3. CASE piece = 0
  BY <1>3 DEF TextDelta, SameFlags
<1>4. CASE piece # 0
  <2>1. TextDelta(d, kind, piece) = BlockDelta(b, kind, <<piece>>)
    BY <1>4 DEF TextDelta, b
  <2>. QED BY <1>1, <1>2, <2>1 DEF SameFlags, Open
<1>. QED BY <1>3, <1>4

\* A fragment of a call.
LEMMA ToolUseLive ==
  ASSUME NEW d, Live(d), NEW call
  PROVE  Live(ToolUse(d, call)) /\ SameFlags(ToolUse(d, call), d)
<1> DEFINE b == IF d.open.kind = "tool_use" /\ d.open.part = call.index THEN d
                ELSE Begin(d, "tool_use", call.index, call.id, call.name)
<1>1. Open(b, "tool_use", d)
  <2>1. CASE d.open.kind = "tool_use" /\ d.open.part = call.index
    BY <2>1 DEF SameFlags, Open
  <2>2. CASE ~(d.open.kind = "tool_use" /\ d.open.part = call.index)
    BY <2>2, BeginLive
  <2>. QED BY <2>1, <2>2
<1>2. ToolUse(d, call) = BlockDelta(b, "tool_use", call.args)
  BY DEF ToolUse
<1>. HIDE DEF b
<1>3. LET t == BlockDelta(b, "tool_use", call.args) IN Live(t) /\ SameFlags(t, b)
  BY <1>1, DeltaLive DEF Open
<1>. QED BY <1>1, <1>2, <1>3 DEF SameFlags, Open

\* The calls of a chunk.
LEMMA ToolsLive ==
  ASSUME NEW d, Live(d), NEW calls, IsSeq(calls)
  PROVE  LET t == FoldLeft(ToolUse, d, calls) IN Live(t) /\ SameFlags(t, d)
<1> DEFINE n == Len(calls)
<1>1. n \in Nat
  BY DEF IsSeq
<1>. HIDE DEF n
<1>2. PICK g : Steps("tools", d, calls, n, g) /\ FoldLeft(ToolUse, d, calls) = g[n]
  BY ToolsSteps DEF n
<1> DEFINE Fine == {k \in 0 .. n : Live(g[k]) /\ SameFlags(g[k], d)}
<1>3. 0 \in Fine
  BY <1>1, <1>2 DEF Steps, SameFlags
<1>4. ASSUME NEW k \in 0 .. n - 1, k \in Fine PROVE k + 1 \in Fine
  <2>1. g[k + 1] = ToolUse(g[k], calls[k + 1])
    BY <1>2 DEF Steps, FoldStep
  <2>2. Live(g[k + 1]) /\ SameFlags(g[k + 1], g[k])
    BY <1>4, <2>1, ToolUseLive
  <2>3. k + 1 \in 0 .. n
    BY <1>1
  <2>. QED BY <1>4, <2>2, <2>3 DEF SameFlags
<1>. HIDE DEF Fine
<1>5. n \in Fine
  <2>1. \A k \in 0 .. n : k \in Fine
    BY <1>1, <1>2, <1>3, <1>4, StepsKeep
  <2>. QED BY <1>1, <2>1
<1>. QED BY <1>2, <1>5 DEF Fine

\* A dialect that was ended, and one that failed.
LEMMA OtherFlags ==
  ASSUME NEW d, d = [next |-> d.next, open |-> d.open, stopped |-> d.stopped,
                     failed |-> d.failed, usage |-> d.usage, frames |-> d.frames],
         NEW flag
  PROVE  /\ [d EXCEPT !.stopped = flag]
                = [next |-> d.next, open |-> d.open, stopped |-> flag, failed |-> d.failed,
                   usage |-> d.usage, frames |-> d.frames]
         /\ [d EXCEPT !.failed = flag]
                = [next |-> d.next, open |-> d.open, stopped |-> d.stopped, failed |-> flag,
                   usage |-> d.usage, frames |-> d.frames]
OBVIOUS

\* A message that goes on, is over, or was given up.
Going(d) == Live(d) /\ ~d.stopped /\ ~d.failed
Over(d) == Core(d) /\ d.stopped /\ ~d.failed /\ Reads(d.frames) = "over"
Refused(d) == Core(d) /\ d.failed /\ Reads(d.frames) = "failed"

\* A message that is ended is over.
LEMMA StopOver ==
  ASSUME NEW d, Live(d), ~d.failed, NEW reason
  PROVE  Over(StopMessage(d, reason))
<1> DEFINE e == [d EXCEPT !.stopped = TRUE]
           c == CloseBlock(e)
           f == Frame("message_delta", -1, reason, "", "", d.usage)
           h == Frame("message_stop", -1, "", "", "", <<>>)
           t == Told(c, f)
           u == Told(t, h)
<1>1. Live(e) /\ e.stopped /\ ~e.failed
  <2>1. e = [next |-> d.next, open |-> d.open, stopped |-> TRUE, failed |-> d.failed,
             usage |-> d.usage, frames |-> d.frames]
    <3>1. d = [next |-> d.next, open |-> d.open, stopped |-> d.stopped,
               failed |-> d.failed, usage |-> d.usage, frames |-> d.frames]
      BY DEF Live, Core
    <3>. QED BY ONLY <3>1, OtherFlags DEF e
  <2>2. FramesTrue(d.frames, d.next) /\ OpenTrue(d.open, d.frames, d.next) /\ d.failed \in BOOLEAN
    BY DEF Live, Core
  <2>3. Core(e)
    BY <2>1, <2>2 DEF Core
  <2>. QED BY <2>1, <2>3 DEF Live, OpenOf
<1>2. StopMessage(d, reason) = u
  BY DEF StopMessage
<1>. HIDE DEF e
<1>3. Live(c) /\ c.open = NoBlock /\ c.stopped /\ ~c.failed
  BY <1>1, CloseBlockLive DEF SameFlags
<1>4. f.type = "message_delta" /\ h.type = "message_stop"
  BY DEF Frame
<1>. HIDE DEF c, f, h
<1>5. Reads(c.frames) = "idle" /\ Core(c)
  BY <1>3 DEF Live, OpenOf
<1>6. Core(t) /\ t.stopped = c.stopped /\ t.failed = c.failed
      /\ Reads(t.frames) = ReadFrame("idle", f)
  BY <1>4, <1>5, ToldOther
<1>7. ReadFrame("idle", f) = "ending" /\ ReadFrame("ending", h) = "over"
  BY <1>4 DEF ReadFrame
<1>. HIDE DEF t
<1>8. Core(u) /\ u.stopped = t.stopped /\ u.failed = t.failed
      /\ Reads(u.frames) = ReadFrame("ending", h)
  BY <1>4, <1>6, <1>7, ToldOther
<1>. HIDE DEF u
<1>. QED BY <1>2, <1>3, <1>6, <1>7, <1>8 DEF Over

\* What a chunk makes of a message that goes on.
LEMMA ChunkTold ==
  ASSUME NEW d, Going(d), NEW chunk, IsSeq(chunk.calls)
  PROVE  IF chunk.finish = "" THEN Going(DialectChunk(d, chunk))
         ELSE Over(DialectChunk(d, chunk))
<1> DEFINE a == TextDelta(d, "text", chunk.content)
           b == TextDelta(a, "thinking", chunk.reasoning)
           tools == FoldLeft(ToolUse, b, chunk.calls)
           counted == IF chunk.usage = NoUsage THEN tools
                      ELSE [tools EXCEPT !.usage = chunk.usage]
<1>1. DialectChunk(d, chunk) =
          IF chunk.finish = "" THEN counted
          ELSE StopMessage(CloseBlock(counted), ClaudeReason(chunk.finish))
  BY DEF DialectChunk
<1>2. Live(a) /\ SameFlags(a, d)
  BY TextLive DEF Going
<1>. HIDE DEF a
<1>3. Live(b) /\ SameFlags(b, a)
  BY <1>2, TextLive
<1>. HIDE DEF b
<1>4. Live(tools) /\ SameFlags(tools, b)
  BY <1>3, ToolsLive
<1>. HIDE DEF tools
<1>5. Live(counted) /\ counted.stopped = tools.stopped /\ counted.failed = tools.failed
  <2>1. CASE chunk.usage = NoUsage
    BY <1>4, <2>1
  <2>2. CASE chunk.usage # NoUsage
    <3>1. counted = [tools EXCEPT !.usage = chunk.usage]
      BY <2>2
    <3>. HIDE DEF counted
    <3>2. counted = [next |-> tools.next, open |-> tools.open, stopped |-> tools.stopped,
                     failed |-> tools.failed, usage |-> chunk.usage, frames |-> tools.frames]
      BY <1>4, <3>1 DEF Live, Core
    <3>3. /\ FramesTrue(tools.frames, tools.next)
          /\ OpenTrue(tools.open, tools.frames, tools.next)
          /\ tools.failed \in BOOLEAN /\ tools.stopped \in BOOLEAN
      BY <1>4 DEF Live, Core
    <3>4. Core(counted)
      BY <3>2, <3>3 DEF Core
    <3>. QED BY <1>4, <3>2, <3>4 DEF Live, OpenOf
  <2>. QED BY <2>1, <2>2
<1>. HIDE DEF counted
<1>6. Going(counted)
  BY <1>2, <1>3, <1>4, <1>5 DEF Going, SameFlags
<1>7. Live(CloseBlock(counted)) /\ ~CloseBlock(counted).failed
  BY <1>6, CloseBlockLive DEF Going, SameFlags
<1>8. Over(StopMessage(CloseBlock(counted), ClaudeReason(chunk.finish)))
  BY <1>7, StopOver
<1>. QED BY <1>1, <1>6, <1>8

\* A message that goes on or is over may be given up.
LEMMA RefusalTold ==
  ASSUME NEW d, Going(d) \/ Over(d)
  PROVE  Refused(DialectFinish(DialectRefusal(d)))
<1> DEFINE e == [d EXCEPT !.failed = TRUE]
           f == Frame("error", -1, "", "", "", <<>>)
           t == Told(e, f)
<1>1. Core(d)
  BY DEF Going, Over, Live
<1>2. e = [next |-> d.next, open |-> d.open, stopped |-> d.stopped, failed |-> TRUE,
           usage |-> d.usage, frames |-> d.frames]
  <2>1. d = [next |-> d.next, open |-> d.open, stopped |-> d.stopped,
             failed |-> d.failed, usage |-> d.usage, frames |-> d.frames]
    BY <1>1 DEF Core
  <2>. QED BY ONLY <2>1, OtherFlags DEF e
<1>3. FramesTrue(d.frames, d.next) /\ OpenTrue(d.open, d.frames, d.next) /\ d.stopped \in BOOLEAN
  BY <1>1 DEF Core
<1>4. DialectRefusal(d) = t
  BY DEF DialectRefusal
<1>5. f.type = "error"
  BY DEF Frame
<1>. HIDE DEF e, f
<1>6. Core(e) /\ e.failed /\ e.frames = d.frames
  BY <1>2, <1>3 DEF Core
<1>7. Core(t) /\ t.failed /\ Reads(t.frames) = ReadFrame(Reads(d.frames), f)
  BY <1>5, <1>6, ToldOther
<1>8. Reads(d.frames) \in {"idle", "open", "over"}
  BY DEF Going, Over, Live, OpenOf
<1>9. ReadFrame(Reads(d.frames), f) = "failed"
  BY <1>5, <1>8 DEF ReadFrame
<1>. HIDE DEF t
<1>10. Refused(t) /\ DialectFinish(t) = t
  BY <1>7, <1>9 DEF Refused, DialectFinish
<1>. QED BY <1>4, <1>10

\* A message whose upstream is through is over.
LEMMA FinishTold ==
  ASSUME NEW d, Going(d) \/ Over(d)
  PROVE  Over(DialectFinish(d))
<1>1. CASE Going(d)
  <2>1. DialectFinish(d) = StopMessage(d, "end_turn")
    BY <1>1 DEF Going, DialectFinish
  <2>. QED BY <1>1, <2>1, StopOver DEF Going
<1>2. CASE Over(d)
  BY <1>2 DEF Over, DialectFinish
<1>. QED BY <1>1, <1>2

\* The first message.
LEMMA StartGoing == Going(DialectStart)
<1> DEFINE f == Frame("message_start", -1, "", "", "", <<>>)
           fr == Append(<<>>, f)
<1>1. f.type = "message_start"
  BY DEF Frame
<1>2. DialectStart = [next |-> 0, open |-> NoBlock, stopped |-> FALSE, failed |-> FALSE,
                      usage |-> NoUsage, frames |-> fr]
  <2>1. fr = <<f>>
    <3>. HIDE DEF f
    <3>. QED OBVIOUS
  <2>. QED BY <2>1 DEF DialectStart
<1>. HIDE DEF f
<1>3. FramesTrue(<<>>, 0)
  <2>1. IsSeq(<<>>) /\ Len(<<>>) = 0 /\ DOMAIN <<>> = {}
    BY DEF IsSeq
  <2>. QED BY <2>1, NothingRead DEF FramesTrue
<1>4. FramesTrue(fr, 0) /\ Reads(fr) = "idle"
  <2>1. FramesTrue(fr, 0) /\ Reads(fr) = ReadFrame("new", f)
    BY <1>1, <1>3, NothingRead, FrameMore
  <2>. QED BY <1>1, <2>1 DEF ReadFrame
<1>. HIDE DEF fr
<1>. QED BY <1>2, <1>4 DEF Going, Live, Core, OpenTrue, OpenOf

-----------------------------------------------------------------------------
(* What the chunks of one event do.                                        *)

\* Two sequences, one after the other.
LEMMA ConcatIs ==
  ASSUME NEW s, IsSeq(s), NEW t, IsSeq(t)
  PROVE  /\ IsSeq(s \o t) /\ Len(s) \in Nat /\ Len(t) \in Nat
         /\ DOMAIN s = 1 .. Len(s) /\ DOMAIN t = 1 .. Len(t)
         /\ Len(s \o t) = Len(s) + Len(t)
         /\ DOMAIN (s \o t) = 1 .. Len(s) + Len(t)
         /\ \A k \in 1 .. Len(s) : (s \o t)[k] = s[k]
         /\ \A k \in 1 .. Len(t) : (s \o t)[Len(s) + k] = t[k]
<1>1. PICK X : s \in Seq(X)
  BY DEF IsSeq
<1>2. PICK Y : t \in Seq(Y)
  BY DEF IsSeq
<1> DEFINE Z == X \union Y
<1>3. s \in Seq(Z) /\ t \in Seq(Z)
  BY <1>1, <1>2
<1>. HIDE DEF Z
<1>4. s \o t \in Seq(Z)
  BY <1>3
<1>5. Len(s) \in Nat /\ Len(t) \in Nat /\ DOMAIN s = 1 .. Len(s) /\ DOMAIN t = 1 .. Len(t)
  BY <1>3
<1>6. /\ Len(s \o t) = Len(s) + Len(t)
      /\ DOMAIN (s \o t) = 1 .. Len(s) + Len(t)
  BY <1>3, <1>4
<1>7. \A k \in 1 .. Len(s) : (s \o t)[k] = s[k]
  BY <1>3, <1>5
<1>8. \A k \in 1 .. Len(t) : (s \o t)[Len(s) + k] = t[k]
  BY <1>3, <1>5
<1>. QED BY <1>4, <1>5, <1>6, <1>7, <1>8 DEF IsSeq

\* Events that do not complete the answer, and such that do with the last one.
Uncompleted(ev) == IsSeq(ev) /\ \A i \in 1 .. Len(ev) : ev[i] # "response.completed"
Completes(ev) ==
    /\ IsSeq(ev) /\ Len(ev) > 0
    /\ \A i \in 1 .. Len(ev) : ev[i] = "response.completed" => i = Len(ev)

\* An answer that is completed is not spoken of again, unless something breaks.
LastWord(ev) ==
    /\ IsSeq(ev)
    /\ \A i, j \in 1 .. Len(ev) :
          i < j /\ ev[i] = "response.completed" => ev[j] = "error"

\* More events after such that do not complete the answer.
LEMMA WordsAdd ==
  ASSUME NEW s, Uncompleted(s), NEW t
  PROVE  /\ Uncompleted(t) => Uncompleted(s \o t)
         /\ Completes(t) => Completes(s \o t)
<1> DEFINE m == Len(s)
           n == Len(t)
           u == s \o t
<1>1. ASSUME IsSeq(t)
      PROVE  /\ IsSeq(u) /\ m \in Nat /\ n \in Nat /\ Len(u) = m + n
             /\ \A k \in 1 .. m : u[k] = s[k]
             /\ \A k \in 1 .. n : u[m + k] = t[k]
  BY <1>1, ConcatIs DEF Uncompleted
<1>. HIDE DEF u, n, m
<1>2. ASSUME m \in Nat, n \in Nat, NEW i \in 1 .. m + n
      PROVE  i \in 1 .. m \/ (i - m \in 1 .. n /\ m + (i - m) = i)
  BY <1>2
<1>3. \A k \in 1 .. m : s[k] # "response.completed"
  BY DEF Uncompleted, m
<1>4. ASSUME Uncompleted(t) PROVE Uncompleted(u)
  <2>1. IsSeq(t) /\ \A k \in 1 .. n : t[k] # "response.completed"
    BY <1>4 DEF Uncompleted, n
  <2>2. \A i \in 1 .. m + n : u[i] # "response.completed"
    BY <1>1, <1>2, <1>3, <2>1
  <2>. QED BY <1>1, <2>1, <2>2 DEF Uncompleted
<1>5. ASSUME Completes(t) PROVE Completes(u)
  <2>1. IsSeq(t) /\ n > 0 /\ \A k \in 1 .. n : t[k] = "response.completed" => k = n
    BY <1>5 DEF Completes, n
  <2>2. m \in Nat /\ n \in Nat
    BY <1>1, <2>1
  <2>3. ASSUME NEW i \in 1 .. m + n, u[i] = "response.completed" PROVE i = m + n
    <3>1. i \notin 1 .. m
      BY <1>1, <1>3, <2>1, <2>3
    <3>2. i - m \in 1 .. n /\ m + (i - m) = i
      BY <1>2, <2>2, <3>1
    <3>3. t[i - m] = "response.completed"
      BY <1>1, <2>1, <2>3, <3>2
    <3>4. i - m = n
      BY <2>1, <3>2, <3>3
    <3>. QED BY <3>2, <3>4
  <2>4. m + n > 0
    BY <2>1, <2>2
  <2>. QED BY <1>1, <2>1, <2>3, <2>4 DEF Completes
<1>. QED BY <1>4, <1>5 DEF u

\* No event, the completing one, and any other.
LEMMA OneWord ==
  ASSUME NEW x
  PROVE  /\ Uncompleted(<<>>) /\ Completes(<<"response.completed">>)
         /\ x # "response.completed" => Uncompleted(<<x>>)
<1>1. IsSeq(<<>>) /\ Len(<<>>) = 0
  BY DEF IsSeq
<1>2. \A y : IsSeq(<<y>>) /\ Len(<<y>>) = 1 /\ <<y>>[1] = y
  <2>1. \A y : <<y>> \in Seq({y})
    OBVIOUS
  <2>. QED BY <2>1 DEF IsSeq
<1>3. 1 .. 0 = {} /\ 1 .. 1 = {1}
  OBVIOUS
<1>. QED BY <1>1, <1>2, <1>3 DEF Uncompleted, Completes

\* What a Responses client is told of a chunk.
LEMMA EventsOf ==
  ASSUME NEW c
  PROVE  IF c.finish = "" THEN Uncompleted(ResponsesEvents(c)) ELSE Completes(ResponsesEvents(c))
<1> DEFINE r == IF c.reasoning = 0 THEN <<>> ELSE <<"response.reasoning_text.delta">>
           t == IF c.content = 0 THEN <<>> ELSE <<"response.output_text.delta">>
           a == IF c.calls = <<>> THEN <<>> ELSE <<"response.output_item.added">>
           f == IF c.finish = "" THEN <<>> ELSE <<"response.completed">>
<1>1. Uncompleted(r) /\ Uncompleted(t) /\ Uncompleted(a)
  BY OneWord
<1>2. IF c.finish = "" THEN Uncompleted(f) ELSE Completes(f)
  BY OneWord
<1>3. ResponsesEvents(c) = ((r \o t) \o a) \o f
  BY DEF ResponsesEvents
<1>. HIDE DEF r, t, a, f
<1>4. Uncompleted((r \o t) \o a)
  BY <1>1, WordsAdd
<1>. QED BY <1>2, <1>3, <1>4, WordsAdd

\* Events that complete the answer at most with the last one say no more after it.
LEMMA CompletesLast ==
  ASSUME NEW ev, Uncompleted(ev) \/ Completes(ev)
  PROVE  LastWord(ev)
<1>1. IsSeq(ev)
  BY DEF Uncompleted, Completes
<1>2. Len(ev) \in Nat
  BY <1>1 DEF IsSeq
<1>3. ASSUME NEW i \in 1 .. Len(ev), NEW j \in 1 .. Len(ev), i < j
      PROVE  ev[i] # "response.completed"
  <2>1. i # Len(ev)
    BY <1>2, <1>3
  <2>. QED BY <2>1 DEF Uncompleted, Completes
<1>. QED BY <1>1, <1>3 DEF LastWord

\* A word on what broke.
LEMMA ErrorLast ==
  ASSUME NEW ev, LastWord(ev)
  PROVE  LastWord(Append(ev, "error"))
<1> DEFINE n == Len(ev)
           t == Append(ev, "error")
<1>1. /\ IsSeq(t) /\ n \in Nat /\ Len(t) = n + 1 /\ t[n + 1] = "error"
      /\ \A k \in 1 .. n : t[k] = ev[k]
  BY SeqMore DEF LastWord
<1>2. \A i, j \in 1 .. n : i < j /\ ev[i] = "response.completed" => ev[j] = "error"
  BY DEF LastWord
<1>. HIDE DEF t, n
<1>3. ASSUME NEW i \in 1 .. n + 1, NEW j \in 1 .. n + 1, i < j, t[i] = "response.completed"
      PROVE  t[j] = "error"
  <2>1. CASE j = n + 1
    BY <1>1, <2>1
  <2>2. CASE j # n + 1
    <3>1. i \in 1 .. n /\ j \in 1 .. n
      BY <1>1, <1>3, <2>2
    <3>2. ev[i] = "response.completed" /\ t[j] = ev[j]
      BY <1>1, <1>3, <3>1
    <3>. QED BY <1>2, <1>3, <3>1, <3>2
  <2>. QED BY <2>1, <2>2
<1>. QED BY <1>1, <1>3 DEF LastWord, t

\* A chunk, its calls one after the other.
ChunkOK(c) ==
    /\ c = [content |-> c.content, reasoning |-> c.reasoning, calls |-> c.calls,
            finish |-> c.finish, usage |-> c.usage]
    /\ IsSeq(c.calls)

\* The pump names the calls of a chunk, and they stay as many.
LEMMA NormalizeKeeps ==
  ASSUME NEW known, NEW chunk, IsSeq(chunk.calls)
  PROVE  /\ IsSeq(Normalize(known, chunk).calls)
         /\ chunk.calls = <<>> => Normalize(known, chunk).calls = <<>>
<1> DEFINE base == [seen |-> known, calls |-> <<>>]
           calls == chunk.calls
           n == Len(calls)
<1>1. n \in Nat /\ (calls = <<>> => n = 0)
  BY DEF IsSeq
<1>2. base.calls = <<>> /\ IsSeq(<<>>)
  BY DEF IsSeq
<1>3. Normalize(known, chunk) = FoldLeft(NormalizeCall, base, calls)
  BY DEF Normalize
<1>. HIDE DEF base
<1>4. PICK g : Steps("calls", base, calls, n, g) /\ FoldLeft(NormalizeCall, base, calls) = g[n]
  BY CallsSteps
<1>. HIDE DEF n, calls
<1> DEFINE Fine == {k \in 0 .. n : IsSeq(g[k].calls)}
<1>5. 0 \in Fine
  BY <1>1, <1>2, <1>4 DEF Steps
<1>6. ASSUME NEW k \in 0 .. n - 1, k \in Fine PROVE k + 1 \in Fine
  <2>1. g[k + 1] = NormalizeCall(g[k], calls[k + 1])
    BY <1>4 DEF Steps, FoldStep
  <2>2. \E x : NormalizeCall(g[k], calls[k + 1]).calls = Append(g[k].calls, x)
    BY DEF NormalizeCall
  <2>3. IsSeq(g[k + 1].calls)
    BY <1>6, <2>1, <2>2, SeqMore
  <2>4. k + 1 \in 0 .. n
    BY <1>1
  <2>. QED BY <2>3, <2>4
<1>. HIDE DEF Fine
<1>7. n \in Fine
  <2>1. \A k \in 0 .. n : k \in Fine
    BY <1>1, <1>4, <1>5, <1>6, StepsKeep
  <2>. QED BY <1>1, <2>1
<1>8. IsSeq(g[n].calls)
  BY <1>7 DEF Fine
<1>9. calls = <<>> => g[n].calls = <<>>
  BY <1>1, <1>2, <1>4 DEF Steps
<1>. QED BY <1>3, <1>4, <1>8, <1>9 DEF calls

\* What the clients have before the end of an answer, and after it.
Goes(d, ev) == Going(d) /\ Uncompleted(ev)
Ended(d, ev, ch) == Over(d) /\ LastWord(ev) /\ ch.finish # ""

\* A chunk that says nothing is dropped.
LEMMA RelayNothing ==
  ASSUME NEW acc PROVE Relay(acc, Empty) = acc
<1> DEFINE n == Normalize(acc.seen, Empty)
           c == [Empty EXCEPT !.calls = n.calls]
<1>1. Empty.calls = <<>> /\ IsSeq(<<>>)
  BY DEF Empty, IsSeq
<1>2. n.calls = <<>>
  BY <1>1, NormalizeKeeps
<1>. HIDE DEF n
<1>3. c = Empty
  <2>1. c = [content |-> 0, reasoning |-> 0, calls |-> n.calls, finish |-> "",
             usage |-> NoUsage]
    <3>1. Empty.content = 0 /\ Empty.reasoning = 0 /\ Empty.finish = "" /\ Empty.usage = NoUsage
          /\ DOMAIN Empty = {"content", "reasoning", "calls", "finish", "usage"}
      BY DEF Empty
    <3>2. c = [x \in {"content", "reasoning", "calls", "finish", "usage"} |->
                  IF x = "calls" THEN n.calls ELSE Empty[x]]
      BY <3>1
    <3>. HIDE DEF c
    <3>. QED BY <3>1, <3>2
  <2>. HIDE DEF c
  <2>. QED BY <1>2, <2>1 DEF Empty
<1>4. Relay(acc, Empty) = IF ~Reducible(c) THEN acc
        ELSE [seen |-> n.seen,
              dialect |-> DialectChunk(acc.dialect, c),
              events |-> acc.events \o ResponsesEvents(c),
              chat |-> Assemble(acc.chat, c)]
  BY DEF Relay, n
<1>. QED BY <1>3, <1>4 DEF Reducible

\* One chunk.
LEMMA RelayOne ==
  ASSUME NEW acc, Goes(acc.dialect, acc.events), NEW chunk, ChunkOK(chunk)
  PROVE  LET r == Relay(acc, chunk) IN
         IF chunk.finish = "" THEN Goes(r.dialect, r.events)
         ELSE Ended(r.dialect, r.events, r.chat)
<1> DEFINE n == Normalize(acc.seen, chunk)
           c == [chunk EXCEPT !.calls = n.calls]
           reply == DialectChunk(acc.dialect, c)
           ev == acc.events \o ResponsesEvents(c)
           ch == Assemble(acc.chat, c)
           then == [seen |-> n.seen, dialect |-> reply, events |-> ev, chat |-> ch]
<1>1. IsSeq(n.calls)
  BY NormalizeKeeps DEF ChunkOK
<1>2. Relay(acc, chunk) = IF ~Reducible(c) THEN acc ELSE then
  BY DEF Relay
<1>. HIDE DEF n
<1>3. c.finish = chunk.finish /\ c.calls = n.calls
  BY DEF ChunkOK
<1>. HIDE DEF c
<1>4. IF c.finish = "" THEN Going(reply) ELSE Over(reply)
  BY <1>1, <1>3, ChunkTold DEF Goes
<1>5. IF c.finish = "" THEN Uncompleted(ev) ELSE LastWord(ev)
  BY EventsOf, WordsAdd, CompletesLast DEF Goes
<1>6. c.finish # "" => ch.finish = c.finish
  BY DEF Assemble
<1>7. then.dialect = reply /\ then.events = ev /\ then.chat = ch
  OBVIOUS
<1>8. c.finish # "" => Reducible(c)
  <2>1. Empty.finish = ""
    BY DEF Empty
  <2>. QED BY <2>1 DEF Reducible
<1>. HIDE DEF reply, ev, ch, then
<1>. QED BY <1>2, <1>3, <1>4, <1>5, <1>6, <1>7, <1>8 DEF Goes, Ended

\* Chunks that do not end the answer, and such that do with the last one.
GoesOn(c) == ChunkOK(c) /\ c.finish = ""
Finishes(c) == ChunkOK(c) /\ c.finish # ""
Plain(chunks) == IsSeq(chunks) /\ \A i \in 1 .. Len(chunks) : GoesOn(chunks[i])
Ending(chunks) ==
    /\ IsSeq(chunks) /\ Len(chunks) > 0 /\ Finishes(chunks[Len(chunks)])
    /\ \A i \in 1 .. Len(chunks) : i < Len(chunks) => GoesOn(chunks[i])
Silent(chunks) == chunks = <<>> \/ chunks = <<Empty>>

\* The chunks of an event in the middle of the answer.
LEMMA RelayPlain ==
  ASSUME NEW acc, Goes(acc.dialect, acc.events), NEW chunks, Plain(chunks)
  PROVE  LET r == FoldLeft(Relay, acc, chunks) IN Goes(r.dialect, r.events)
<1> DEFINE n == Len(chunks)
<1>1. n \in Nat /\ \A i \in 1 .. n : GoesOn(chunks[i])
  BY DEF Plain, IsSeq
<1>2. PICK g : Steps("chunks", acc, chunks, n, g) /\ FoldLeft(Relay, acc, chunks) = g[n]
  BY ChunksSteps DEF Plain
<1>. HIDE DEF n
<1> DEFINE Fine == {k \in 0 .. n : Goes(g[k].dialect, g[k].events)}
<1>3. 0 \in Fine
  BY <1>1, <1>2 DEF Steps
<1>4. ASSUME NEW k \in 0 .. n - 1, k \in Fine PROVE k + 1 \in Fine
  <2>1. g[k + 1] = Relay(g[k], chunks[k + 1])
    BY <1>2 DEF Steps, FoldStep
  <2>2. k + 1 \in 0 .. n /\ k + 1 \in 1 .. n
    BY <1>1
  <2>3. GoesOn(chunks[k + 1])
    BY <1>1, <2>2
  <2>4. Goes(g[k + 1].dialect, g[k + 1].events)
    BY <1>4, <2>1, <2>3, RelayOne DEF GoesOn
  <2>. QED BY <2>2, <2>4
<1>. HIDE DEF Fine
<1>5. n \in Fine
  <2>1. \A k \in 0 .. n : k \in Fine
    BY <1>1, <1>2, <1>3, <1>4, StepsKeep
  <2>. QED BY <1>1, <2>1
<1>. QED BY <1>2, <1>5 DEF Fine

\* The chunks of the event that ends the answer.
LEMMA RelayEnding ==
  ASSUME NEW acc, Goes(acc.dialect, acc.events), NEW chunks, Ending(chunks)
  PROVE  LET r == FoldLeft(Relay, acc, chunks) IN Ended(r.dialect, r.events, r.chat)
<1> DEFINE n == Len(chunks)
<1>1. /\ n \in Nat /\ n > 0 /\ Finishes(chunks[n])
      /\ \A i \in 1 .. n : i < n => GoesOn(chunks[i])
  BY DEF Ending, IsSeq
<1>2. PICK g : Steps("chunks", acc, chunks, n, g) /\ FoldLeft(Relay, acc, chunks) = g[n]
  BY ChunksSteps DEF Ending
<1>. HIDE DEF n
<1> DEFINE Fine == {k \in 0 .. n : k < n => Goes(g[k].dialect, g[k].events)}
<1>3. 0 \in Fine
  BY <1>1, <1>2 DEF Steps
<1>6. \A k \in 0 .. n - 1 : g[k + 1] = Relay(g[k], chunks[k + 1])
  BY <1>2 DEF Steps, FoldStep
<1>4. ASSUME NEW k \in 0 .. n - 1, k \in Fine PROVE k + 1 \in Fine
  <2>1. g[k + 1] = Relay(g[k], chunks[k + 1])
    BY <1>6
  <2>2. k + 1 \in 0 .. n /\ k + 1 \in 1 .. n /\ k < n
    BY <1>1
  <2>3. ASSUME k + 1 < n PROVE Goes(g[k + 1].dialect, g[k + 1].events)
    <3>1. GoesOn(chunks[k + 1])
      BY <1>1, <2>2, <2>3
    <3>2. Goes(g[k].dialect, g[k].events)
      BY <1>4, <2>2
    <3>. QED BY <2>1, <3>1, <3>2, RelayOne DEF GoesOn
  <2>. QED BY <2>2, <2>3
<1>. HIDE DEF Fine
<1>5. n - 1 \in Fine
  <2>1. \A k \in 0 .. n : k \in Fine
    BY <1>1, <1>2, <1>3, <1>4, StepsKeep
  <2>. QED BY <1>1, <2>1
<1>7. n - 1 \in 0 .. n - 1 /\ n - 1 < n /\ (n - 1) + 1 = n /\ n \in 1 .. n
  BY <1>1
<1>8. g[n] = Relay(g[n - 1], chunks[n]) /\ Goes(g[n - 1].dialect, g[n - 1].events)
  BY <1>5, <1>6, <1>7 DEF Fine
<1>9. ChunkOK(chunks[n]) /\ chunks[n].finish # ""
  BY <1>1 DEF Finishes
<1>. QED BY <1>2, <1>8, <1>9, RelayOne

\* The chunks of an event that says nothing.
LEMMA RelaySilent ==
  ASSUME NEW acc, NEW chunks, Silent(chunks)
  PROVE  FoldLeft(Relay, acc, chunks) = acc
<1>1. CASE chunks = <<>>
  <2>1. IsSeq(<<>>) /\ Len(<<>>) = 0
    BY DEF IsSeq
  <2>2. \E g : Steps("chunks", acc, <<>>, 0, g) /\ FoldLeft(Relay, acc, <<>>) = g[0]
    BY ONLY <2>1, ChunksSteps
  <2>. QED BY <1>1, <2>2 DEF Steps
<1>2. CASE chunks = <<Empty>>
  <2> DEFINE one == <<Empty>>
  <2>1. IsSeq(one) /\ Len(one) = 1 /\ one[1] = Empty
    <3>1. one \in Seq({Empty})
      OBVIOUS
    <3>. QED BY <3>1 DEF IsSeq
  <2>. HIDE DEF one
  <2>2. PICK g : Steps("chunks", acc, one, 1, g) /\ FoldLeft(Relay, acc, one) = g[1]
    BY ONLY <2>1, ChunksSteps
  <2>3. 0 \in 0 .. 1 - 1 /\ 0 + 1 = 1
    OBVIOUS
  <2>4. g[0] = acc /\ g[1] = Relay(g[0], one[1])
    <3>1. g[0 + 1] = FoldStep("chunks", g[0], one[0 + 1])
      BY <2>2, <2>3 DEF Steps
    <3>. QED BY <2>2, <2>3, <3>1 DEF Steps, FoldStep
  <2>. QED BY <1>2, <2>1, <2>2, <2>4, RelayNothing DEF one
<1>. QED BY <1>1, <1>2 DEF Silent

-----------------------------------------------------------------------------
(* What the translators make of what their upstreams say.                  *)

\* A sequence of one.
LEMMA OneIs ==
  ASSUME NEW c
  PROVE  IsSeq(<<c>>) /\ Len(<<c>>) = 1 /\ <<c>>[1] = c /\ 1 .. 1 = {1}
<1>1. <<c>> \in Seq({c})
  OBVIOUS
<1>2. IsSeq(<<c>>)
  BY <1>1 DEF IsSeq
<1>. QED BY <1>2

\* A chunk with another field.
LEMMA OtherChunk ==
  ASSUME NEW c, ChunkOK(c), NEW v
  PROVE  /\ ChunkOK([c EXCEPT !.content = v]) /\ [c EXCEPT !.content = v].finish = c.finish
         /\ ChunkOK([c EXCEPT !.reasoning = v]) /\ [c EXCEPT !.reasoning = v].finish = c.finish
         /\ IsSeq(v) => ChunkOK([c EXCEPT !.calls = v])
         /\ [c EXCEPT !.calls = v].finish = c.finish
         /\ ChunkOK([c EXCEPT !.finish = v]) /\ [c EXCEPT !.finish = v].finish = v
         /\ ChunkOK([c EXCEPT !.usage = v]) /\ [c EXCEPT !.usage = v].finish = c.finish
<1>1. ChunkOK([c EXCEPT !.content = v]) /\ [c EXCEPT !.content = v].finish = c.finish
  BY DEF ChunkOK
<1>2. ChunkOK([c EXCEPT !.reasoning = v]) /\ [c EXCEPT !.reasoning = v].finish = c.finish
  BY DEF ChunkOK
<1>3. /\ IsSeq(v) => ChunkOK([c EXCEPT !.calls = v])
      /\ [c EXCEPT !.calls = v].finish = c.finish
  BY DEF ChunkOK
<1>4. ChunkOK([c EXCEPT !.finish = v]) /\ [c EXCEPT !.finish = v].finish = v
  BY DEF ChunkOK
<1>5. ChunkOK([c EXCEPT !.usage = v]) /\ [c EXCEPT !.usage = v].finish = c.finish
  BY DEF ChunkOK
<1>. QED BY <1>1, <1>2, <1>3, <1>4, <1>5

\* The chunks the translators put together.
LEMMA ChunksAre ==
  /\ GoesOn(Empty)
  /\ \A piece : GoesOn(Text(piece)) /\ GoesOn(Thought(piece))
  /\ \A call : GoesOn(Tool(call))
  /\ \A reason, usage : reason # "" => Finishes(Finish(reason, usage))
<1>1. ChunkOK(Empty) /\ Empty.finish = ""
  <2>1. Empty = [content |-> Empty.content, reasoning |-> Empty.reasoning,
                 calls |-> Empty.calls, finish |-> Empty.finish, usage |-> Empty.usage]
    BY DEF Empty
  <2>2. Empty.calls = <<>> /\ Empty.finish = "" /\ IsSeq(<<>>)
    BY DEF Empty, IsSeq
  <2>. QED BY <2>1, <2>2 DEF ChunkOK
<1>2. ASSUME NEW piece PROVE GoesOn(Text(piece)) /\ GoesOn(Thought(piece))
  BY <1>1, OtherChunk DEF Text, Thought, GoesOn
<1>3. ASSUME NEW call PROVE GoesOn(Tool(call))
  <2> DEFINE v == <<call>>
  <2>1. IsSeq(v)
    BY OneIs
  <2>2. Tool(call) = [Empty EXCEPT !.calls = v]
    BY DEF Tool
  <2>. HIDE DEF v
  <2>3. ChunkOK([Empty EXCEPT !.calls = v]) /\ [Empty EXCEPT !.calls = v].finish = ""
    BY <1>1, <2>1, OtherChunk
  <2>. QED BY <2>2, <2>3 DEF GoesOn
<1>4. ASSUME NEW reason, NEW usage, reason # ""
      PROVE  Finishes(Finish(reason, usage))
  <2> DEFINE a == [Empty EXCEPT !.finish = reason]
             b == [a EXCEPT !.usage = usage]
  <2>1. Finish(reason, usage) = b
    BY DEF Finish
  <2>2. ChunkOK(a) /\ a.finish = reason
    BY <1>1, OtherChunk
  <2>. HIDE DEF a
  <2>3. ChunkOK(b) /\ b.finish = reason
    BY <2>2, OtherChunk
  <2>. HIDE DEF b
  <2>. QED BY <1>4, <2>1, <2>3 DEF Finishes
<1>. QED BY <1>1, <1>2, <1>3, <1>4 DEF GoesOn

\* None, one, or one more.
LEMMA ChunksAdd ==
  /\ Plain(<<>>)
  /\ \A c : GoesOn(c) => Plain(<<c>>)
  /\ \A c : Finishes(c) => Ending(<<c>>)
  /\ \A chunks, c : Plain(chunks) /\ GoesOn(c) => Plain(Append(chunks, c))
  /\ \A chunks, c : Plain(chunks) /\ Finishes(c) => Ending(Append(chunks, c))
<1>1. Plain(<<>>)
  <2>1. IsSeq(<<>>) /\ Len(<<>>) = 0 /\ 1 .. 0 = {}
    BY DEF IsSeq
  <2>. QED BY <2>1 DEF Plain
<1>3. ASSUME NEW c, GoesOn(c) PROVE Plain(<<c>>)
  <2> DEFINE one == <<c>>
  <2>1. IsSeq(one) /\ Len(one) = 1 /\ one[1] = c /\ 1 .. 1 = {1}
    BY OneIs
  <2>. HIDE DEF one
  <2>2. Plain(one)
    BY <1>3, <2>1 DEF Plain
  <2>. QED BY <2>2 DEF one
<1>4. ASSUME NEW c, Finishes(c) PROVE Ending(<<c>>)
  <2> DEFINE one == <<c>>
  <2>1. IsSeq(one) /\ Len(one) = 1 /\ one[1] = c /\ 1 .. 1 = {1}
    BY OneIs
  <2>. HIDE DEF one
  <2>2. Ending(one)
    BY <1>4, <2>1 DEF Ending
  <2>. QED BY <2>2 DEF one
<1>5. ASSUME NEW chunks, Plain(chunks), NEW c
      PROVE  /\ GoesOn(c) => Plain(Append(chunks, c))
             /\ Finishes(c) => Ending(Append(chunks, c))
  <2> DEFINE n == Len(chunks)
             t == Append(chunks, c)
  <2>1. /\ n \in Nat /\ IsSeq(t) /\ Len(t) = n + 1 /\ t[n + 1] = c
        /\ \A k \in 1 .. n : t[k] = chunks[k]
    BY <1>5, SeqMore DEF Plain
  <2>2. \A k \in 1 .. n : GoesOn(chunks[k])
    BY <1>5 DEF Plain
  <2>. HIDE DEF t, n
  <2>3. \A k \in 1 .. n : GoesOn(t[k])
    BY <2>1, <2>2
  <2>4. /\ n + 1 > 0
        /\ \A k \in 1 .. n + 1 : (k < n + 1 => k \in 1 .. n) /\ (k = n + 1 \/ k \in 1 .. n)
    BY <2>1
  <2>5. GoesOn(c) => Plain(t)
    BY <2>1, <2>3, <2>4 DEF Plain
  <2>6. Finishes(c) => Ending(t)
    BY <2>1, <2>3, <2>4 DEF Ending
  <2>. QED BY <2>5, <2>6 DEF t
<1>. QED BY <1>1, <1>3, <1>4, <1>5

\* What an event gives.
LEMMA EmitIs ==
  ASSUME NEW state, NEW chunks
  PROVE  /\ Emit(state, chunks).state = state /\ Emit(state, chunks).chunks = chunks
         /\ Emit(state, chunks).failed = FALSE
         /\ Ignore(state).state = state /\ Ignore(state).chunks = <<>>
         /\ Ignore(state).failed = FALSE
         /\ Fail(state).failed = TRUE
<1>1. /\ Emit(state, chunks).state = state /\ Emit(state, chunks).chunks = chunks
      /\ Emit(state, chunks).failed = FALSE
  BY DEF Emit
<1>2. /\ Ignore(state).state = state /\ Ignore(state).chunks = <<>>
      /\ Ignore(state).failed = FALSE
  BY DEF Ignore, Emit
<1>3. Fail(state).failed = TRUE
  <2>1. "failed" \in DOMAIN Ignore(state)
    BY DEF Ignore, Emit
  <2>. QED BY <2>1 DEF Fail
<1>. QED BY <1>1, <1>2, <1>3

\* An answer that goes on, or that comes to its end.
Telling(out) == out.failed = FALSE /\ Plain(out.chunks)
Closing(out) == out.failed = FALSE /\ Ending(out.chunks)

\* What an event tells, by its chunks.
LEMMA Tells ==
  ASSUME NEW state
  PROVE  /\ Telling(Ignore(state))
         /\ \A c : GoesOn(c) => Telling(Emit(state, <<c>>))
         /\ \A c : Finishes(c) => Closing(Emit(state, <<c>>))
         /\ \A chunks : Plain(chunks) => Telling(Emit(state, chunks))
         /\ \A chunks : Ending(chunks) => Closing(Emit(state, chunks))
<1>1. Telling(Ignore(state))
  BY EmitIs, ChunksAdd DEF Telling
<1>2. ASSUME NEW chunks
      PROVE  /\ Plain(chunks) => Telling(Emit(state, chunks))
             /\ Ending(chunks) => Closing(Emit(state, chunks))
  <2> DEFINE out == Emit(state, chunks)
  <2>1. out.failed = FALSE /\ out.chunks = chunks
    BY DEF Emit
  <2>. HIDE DEF out
  <2>2. (Plain(chunks) => Telling(out)) /\ (Ending(chunks) => Closing(out))
    BY <2>1 DEF Telling, Closing
  <2>. QED BY <2>2 DEF out
<1>3. ASSUME NEW c
      PROVE  /\ GoesOn(c) => Telling(Emit(state, <<c>>))
             /\ Finishes(c) => Closing(Emit(state, <<c>>))
  BY <1>2, ChunksAdd
<1>. QED BY <1>1, <1>2, <1>3

\* The parts of a payload.
LEMMA PartsTell ==
  ASSUME NEW base, NEW parts, IsSeq(parts), Plain(base.chunks),
         base = [next |-> base.next, chunks |-> base.chunks]
  PROVE  Plain(FoldLeft(GeminiPart, base, parts).chunks)
<1> DEFINE n == Len(parts)
<1>1. n \in Nat
  BY DEF IsSeq
<1>2. PICK g : Steps("parts", base, parts, n, g) /\ FoldLeft(GeminiPart, base, parts) = g[n]
  BY PartsSteps
<1>. HIDE DEF n
<1> DEFINE Shape(o) == o = [next |-> o.next, chunks |-> o.chunks] /\ Plain(o.chunks)
           Fine == {k \in 0 .. n : Shape(g[k])}
<1>3. 0 \in Fine
  BY <1>1, <1>2 DEF Steps
<1>4. ASSUME NEW o, Shape(o), NEW part PROVE Shape(GeminiPart(o, part))
  <2>1. ASSUME NEW c, GoesOn(c), NEW m
        PROVE  /\ Shape([o EXCEPT !.chunks = Append(@, c)])
               /\ Shape([next |-> m, chunks |-> Append(o.chunks, c)])
    <3>1. Plain(Append(o.chunks, c))
      BY <1>4, <2>1, ChunksAdd
    <3>2. [o EXCEPT !.chunks = Append(@, c)] = [next |-> o.next, chunks |-> Append(o.chunks, c)]
      BY <1>4, SMTT(60)
    <3>. QED BY <3>1, <3>2
  <2>. HIDE DEF Shape
  <2>2. CASE part.kind = "call" /\ part.name # ""
    <3>1. GeminiPart(o, part) =
              [next |-> o.next + 1,
               chunks |-> Append(o.chunks, Tool(Call(o.next, GeminiId(o.next), part.name,
                                                     part.args)))]
      BY <2>2 DEF GeminiPart
    <3>. QED BY <2>1, <3>1, ChunksAre
  <2>3. CASE part.kind = "text"
    <3>1. GeminiPart(o, part) = [o EXCEPT !.chunks = Append(@, Text(part.piece))]
      BY <2>3 DEF GeminiPart
    <3>. QED BY <2>1, <3>1, ChunksAre
  <2>4. CASE part.kind = "thought"
    <3>1. GeminiPart(o, part) = [o EXCEPT !.chunks = Append(@, Thought(part.piece))]
      BY <2>4 DEF GeminiPart
    <3>. QED BY <2>1, <3>1, ChunksAre
  <2>5. CASE /\ ~(part.kind = "call" /\ part.name # "")
             /\ part.kind # "text" /\ part.kind # "thought"
    <3>1. GeminiPart(o, part) = o
      BY <2>5 DEF GeminiPart
    <3>. QED BY <1>4, <3>1
  <2>. QED BY <2>2, <2>3, <2>4, <2>5
<1>. HIDE DEF Shape
<1>5. ASSUME NEW k \in 0 .. n - 1, k \in Fine PROVE k + 1 \in Fine
  <2>1. g[k + 1] = GeminiPart(g[k], parts[k + 1])
    BY <1>2 DEF Steps, FoldStep
  <2>2. k + 1 \in 0 .. n
    BY <1>1
  <2>. QED BY <1>4, <1>5, <2>1, <2>2
<1>. HIDE DEF Fine
<1>6. n \in Fine
  <2>1. \A k \in 0 .. n : k \in Fine
    BY <1>1, <1>2, <1>3, <1>5, StepsKeep
  <2>. QED BY <1>1, <2>1
<1>. QED BY <1>2, <1>6 DEF Fine, Shape

\* A payload of a Gemini upstream ends the answer only if it says so.
LEMMA GeminiTells ==
  ASSUME NEW s, NEW e, e.type # "error", IsSeq(e.parts)
  PROVE  LET out == GeminiConvert(s, e) IN
         Telling(out) \/ (Closing(out) /\ e.finish # "")
<1> DEFINE role == IF s.started THEN <<>> ELSE <<Empty>>
           base == [next |-> s.next, chunks |-> role]
           parts == FoldLeft(GeminiPart, base, e.parts)
           t == [s EXCEPT !.started = TRUE, !.next = parts.next,
                          !.saw = @ \/ parts.next > s.next,
                          !.usage = CaptureUsage(@, e.usage)]
           u == [t EXCEPT !.sent = TRUE]
           last == Finish(GeminiReason(t, e), t.usage)
<1>1. Plain(role)
  BY ChunksAre, ChunksAdd
<1>. HIDE DEF role
<1>2. Plain(parts.chunks)
  BY <1>1, PartsTell
<1>3. GeminiConvert(s, e) = IF e.finish # "" /\ ~s.sent
                            THEN Emit(u, Append(parts.chunks, last))
                            ELSE Emit(t, parts.chunks)
  BY DEF GeminiConvert, role
<1>4. Finishes(last)
  <2>1. GeminiReason(t, e) # ""
    <3>. HIDE DEF t
    <3>. QED BY DEF GeminiReason, NormalizeFinish
  <2>. HIDE DEF t
  <2>. QED BY <2>1, ChunksAre
<1>. HIDE DEF parts, t, u, last
<1>5. Telling(Emit(t, parts.chunks)) /\ Closing(Emit(u, Append(parts.chunks, last)))
  BY <1>2, <1>4, Tells, ChunksAdd
<1>. QED BY <1>3, <1>5

\* A Responses upstream.
LEMMA ResponsesTells ==
  ASSUME NEW s, NEW e, e.type # "failed"
  PROVE  LET out == ResponsesConvert(s, e) IN
         Telling(out) \/ (Closing(out) /\ e.type \in {"completed", "incomplete"})
<1>1. \A t : Telling(Ignore(t))
  BY Tells
<1>2. \A t, c : (GoesOn(c) => Telling(Emit(t, <<c>>))) /\ (Finishes(c) => Closing(Emit(t, <<c>>)))
  BY Tells
<1>3. CASE e.type = "text"
  <2>1. ResponsesConvert(s, e) = Emit(s, <<Text(e.piece)>>)
    BY <1>3 DEF ResponsesConvert
  <2>. QED BY <1>2, <2>1, ChunksAre
<1>4. CASE e.type = "reasoning"
  <2>1. ResponsesConvert(s, e) = Emit(s, <<Thought(e.piece)>>)
    BY <1>4 DEF ResponsesConvert
  <2>. QED BY <1>2, <2>1, ChunksAre
<1>5. CASE e.type = "added"
  <2>1. ResponsesConvert(s, e) = Announce(s, e)
    BY <1>5 DEF ResponsesConvert
  <2>2. \E t, call : Announce(s, e) \in {Ignore(t), Emit(t, <<Tool(call)>>)}
    <3>1. \E t, call : Announce(s, e) = IF e.name = "" THEN Ignore(t) ELSE Emit(t, <<Tool(call)>>)
      BY Zenon DEF Announce
    <3>. QED BY <3>1
  <2>. QED BY <1>1, <1>2, <2>1, <2>2, ChunksAre
<1>6. CASE e.type = "arguments"
  <2>1. ResponsesConvert(s, e) = Buffer(s, e)
    BY <1>6 DEF ResponsesConvert
  <2>2. \E t : Buffer(s, e) = Ignore(t)
    BY DEF Buffer
  <2>. QED BY <1>1, <2>1, <2>2
<1>7. CASE e.type = "done"
  <2>1. ResponsesConvert(s, e) = ItemDone(s, e)
    BY <1>7 DEF ResponsesConvert
  <2>2. \E t, call : ItemDone(s, e) \in {Ignore(t), Emit(t, <<Tool(call)>>)}
    <3>1. \E i, t, call : ItemDone(s, e) = IF i = -1 THEN Ignore(t) ELSE Emit(t, <<Tool(call)>>)
      <4> DEFINE id == DoneId(s, e)
                 entry == IF Known(s.calls, id) THEN s.calls[id]
                          ELSE [index |-> -1, args |-> <<>>]
                 fresh == e.name # "" /\ entry.index = -1
                 index == IF fresh THEN s.next ELSE entry.index
                 args == IF e.args # <<>> THEN e.args ELSE entry.args
                 t == [s EXCEPT !.calls = [other \in DOMAIN @ \ {id} |-> @[other]],
                                !.current = IF @ = id THEN "" ELSE @,
                                !.next = IF fresh THEN @ + 1 ELSE @]
      <4>1. ItemDone(s, e) = IF index = -1 THEN Ignore(t)
                             ELSE Emit(t, <<Tool(Call(index, "", "", args))>>)
        BY Zenon DEF ItemDone
      <4>. HIDE DEF index, t, args
      <4>. QED BY <4>1
    <3>. QED BY <3>1
  <2>. QED BY <1>1, <1>2, <2>1, <2>2, ChunksAre
<1>8. CASE e.type = "completed"
  <2> DEFINE c == Finish(ResponsesReason(s), ResponsesUsage(e.usage))
             t == [s EXCEPT !.sent = TRUE]
  <2>1. ResponsesConvert(s, e) = IF ~s.sent THEN Emit(t, <<c>>) ELSE Ignore(s)
    BY <1>8 DEF ResponsesConvert
  <2>2. Finishes(c)
    <3>1. ResponsesReason(s) # ""
      BY DEF ResponsesReason
    <3>. QED BY <3>1, ChunksAre
  <2>. HIDE DEF c, t
  <2>3. Closing(Emit(t, <<c>>)) /\ Telling(Ignore(s))
    BY <1>1, <1>2, <2>2
  <2>. QED BY <1>8, <2>1, <2>3
<1>9. CASE e.type = "incomplete"
  <2> DEFINE c == Finish("length", ResponsesUsage(e.usage))
             t == [s EXCEPT !.sent = TRUE]
  <2>1. ResponsesConvert(s, e) = IF ~s.sent THEN Emit(t, <<c>>) ELSE Ignore(s)
    BY <1>9 DEF ResponsesConvert
  <2>2. Finishes(c)
    BY ChunksAre
  <2>. HIDE DEF c, t
  <2>3. Closing(Emit(t, <<c>>)) /\ Telling(Ignore(s))
    BY <1>1, <1>2, <2>2
  <2>. QED BY <1>9, <2>1, <2>3
<1>10. CASE e.type \notin {"text", "reasoning", "added", "arguments", "done", "completed",
                            "incomplete"}
  <2>1. ResponsesConvert(s, e) = Ignore(s)
    BY <1>10 DEF ResponsesConvert
  <2>. QED BY <1>1, <2>1
<1>. QED BY <1>3, <1>4, <1>5, <1>6, <1>7, <1>8, <1>9, <1>10

\* The translator of a Claude upstream knows whether it told the finish.
ClaudeKnows(s) ==
    s = [tools |-> s.tools, next |-> s.next, sent |-> s.sent, finish |-> s.finish,
         usage |-> s.usage]

\* A translator with another field.
LEMMA ClaudeOther ==
  ASSUME NEW s, ClaudeKnows(s), NEW v
  PROVE  /\ ClaudeKnows([s EXCEPT !.tools = v]) /\ ClaudeKnows([s EXCEPT !.next = v])
         /\ ClaudeKnows([s EXCEPT !.usage = v])
         /\ ClaudeKnows([s EXCEPT !.sent = v]) /\ [s EXCEPT !.sent = v].sent = v
         /\ ClaudeKnows([s EXCEPT !.finish = v]) /\ [s EXCEPT !.finish = v].finish = v
         /\ [s EXCEPT !.finish = v].sent = s.sent
<1>1. ClaudeKnows([s EXCEPT !.tools = v])
  BY DEF ClaudeKnows
<1>2. ClaudeKnows([s EXCEPT !.next = v])
  BY DEF ClaudeKnows
<1>3. ClaudeKnows([s EXCEPT !.usage = v])
  BY DEF ClaudeKnows
<1>4. ClaudeKnows([s EXCEPT !.sent = v]) /\ [s EXCEPT !.sent = v].sent = v
  BY DEF ClaudeKnows
<1>5. /\ ClaudeKnows([s EXCEPT !.finish = v]) /\ [s EXCEPT !.finish = v].finish = v
      /\ [s EXCEPT !.finish = v].sent = s.sent
  BY DEF ClaudeKnows
<1>. QED BY <1>1, <1>2, <1>3, <1>4, <1>5

\* Before the message is stopped it tells no finish.
LEMMA ClaudeTells ==
  ASSUME NEW s, ClaudeKnows(s), NEW e,
         e.type \in {"message_start", "content_block_start", "content_block_delta",
                     "content_block_stop"}
  PROVE  LET out == ClaudeConvert(s, e) IN Telling(out) /\ ClaudeKnows(out.state)
<1> DEFINE Fine(out) == Telling(out) /\ ClaudeKnows(out.state)
<1>1. ASSUME NEW t, ClaudeKnows(t) PROVE Fine(Ignore(t))
  BY <1>1, Tells, EmitIs
<1>2. ASSUME NEW t, ClaudeKnows(t), NEW c, GoesOn(c) PROVE Fine(Emit(t, <<c>>))
  <2>1. Emit(t, <<c>>).state = t
    BY DEF Emit
  <2>. QED BY <1>2, <2>1, Tells
<1>. HIDE DEF Fine
<1>3. CASE e.type = "message_start"
  <2>1. ClaudeConvert(s, e) = Emit([s EXCEPT !.usage = e.usage], <<Empty>>)
    BY <1>3 DEF ClaudeConvert
  <2>. QED BY <1>2, <2>1, ClaudeOther, ChunksAre, ZenonT(60) DEF Fine
<1>4. CASE e.type = "content_block_start"
  <2>1. CASE e.kind = "tool"
    <3> DEFINE v == Append(s.tools, [block |-> e.index, id |-> e.id, name |-> e.name,
                                     args |-> <<>>])
    <3>1. ClaudeConvert(s, e) = Ignore([s EXCEPT !.tools = v])
      BY <1>4, <2>1 DEF ClaudeConvert
    <3>. HIDE DEF v
    <3>. QED BY <1>1, <3>1, ClaudeOther DEF Fine
  <2>2. CASE e.kind # "tool"
    <3>1. ClaudeConvert(s, e) = Ignore(s)
      BY <1>4, <2>2 DEF ClaudeConvert
    <3>. QED BY <1>1, <3>1 DEF Fine
  <2>. QED BY <2>1, <2>2
<1>5. CASE e.type = "content_block_delta"
  <2>1. ClaudeConvert(s, e) = ClaudeDelta(s, e)
    BY <1>5 DEF ClaudeConvert
  <2>2. CASE e.kind = "text"
    <3>1. ClaudeDelta(s, e) = Emit(s, <<Text(e.piece)>>)
      BY <2>2 DEF ClaudeDelta
    <3>. QED BY <1>2, <2>1, <3>1, ChunksAre DEF Fine
  <2>3. CASE e.kind = "thinking"
    <3>1. ClaudeDelta(s, e) = Emit(s, <<Thought(e.piece)>>)
      BY <2>3 DEF ClaudeDelta
    <3>. QED BY <1>2, <2>1, <3>1, ChunksAre DEF Fine
  <2>4. CASE e.kind \notin {"text", "thinking"}
    <3>1. \E v : ClaudeDelta(s, e) \in {Ignore(s), Ignore([s EXCEPT !.tools = v])}
      <4> DEFINE at == OpenTool(s, e.index)
                 v == [s.tools EXCEPT ![at].args = Append(@, e.piece)]
      <4>1. CASE e.kind = "tool" /\ at # 0
        <5>1. ClaudeDelta(s, e) = Ignore([s EXCEPT !.tools[at].args = Append(@, e.piece)])
          BY <4>1 DEF ClaudeDelta
        <5>2. [s EXCEPT !.tools[at].args = Append(@, e.piece)] = [s EXCEPT !.tools = v]
          OBVIOUS
        <5>. HIDE DEF v, at
        <5>. QED BY <5>1, <5>2
      <4>2. CASE ~(e.kind = "tool" /\ at # 0)
        <5>1. ClaudeDelta(s, e) = Ignore(s)
          BY <2>4, <4>2 DEF ClaudeDelta
        <5>. QED BY <5>1
      <4>. QED BY <4>1, <4>2
    <3>. QED BY <1>1, <2>1, <3>1, ClaudeOther DEF Fine
  <2>. QED BY <2>2, <2>3, <2>4
<1>6. CASE e.type = "content_block_stop"
  <2> DEFINE at == SelectInSeq(s.tools, LAMBDA t : t.block = e.index)
             v == RemoveAt(s.tools, at)
             m == s.next + 1
             a == [s EXCEPT !.tools = v]
             b == [a EXCEPT !.next = m]
             c == Tool(Call(s.next, s.tools[at].id, s.tools[at].name, s.tools[at].args))
  <2>1. ClaudeConvert(s, e) = ClaudeBlockStop(s, e)
    BY <1>6 DEF ClaudeConvert
  <2>2. ClaudeBlockStop(s, e) = IF at = 0 THEN Ignore(s) ELSE Emit(b, <<c>>)
    <3>1. ClaudeBlockStop(s, e) = IF at = 0 THEN Ignore(s)
              ELSE Emit([s EXCEPT !.tools = v, !.next = m], <<c>>)
      BY Zenon DEF ClaudeBlockStop
    <3>. HIDE DEF at, v, m, c
    <3>. QED BY <3>1
  <2>3. GoesOn(c)
    BY ChunksAre
  <2>. HIDE DEF at, v, m, c
  <2>4. ClaudeKnows(a)
    BY ClaudeOther
  <2>. HIDE DEF a
  <2>5. ClaudeKnows(b)
    BY <2>4, ClaudeOther
  <2>. HIDE DEF b
  <2>. QED BY <1>1, <1>2, <2>1, <2>2, <2>3, <2>5 DEF Fine
<1>. QED BY <1>3, <1>4, <1>5, <1>6

\* When it is stopped, it does.
LEMMA ClaudeEnds ==
  ASSUME NEW s, ClaudeKnows(s), NEW e, e.type = "message_delta", e.reason # ""
  PROVE  LET out == ClaudeConvert(s, e) IN
         Closing(out) /\ ClaudeKnows(out.state) /\ out.state.sent = TRUE
<1> DEFINE u == MergeUsage(s.usage, e.usage)
           r == ClaudeStopReason(e.reason)
           yes == TRUE
           a == [s EXCEPT !.usage = u]
           b == [a EXCEPT !.sent = yes]
           t == [b EXCEPT !.finish = r]
           c == ClaudeFinish(t)
<1>1. ClaudeConvert(s, e) = Emit(t, <<c>>)
  <2>1. ClaudeConvert(s, e) =
            LET x == [s EXCEPT !.usage = u, !.sent = yes, !.finish = r]
            IN  Emit(x, <<ClaudeFinish(x)>>)
    BY DEF ClaudeConvert
  <2>. HIDE DEF u, r, yes
  <2>. QED BY <2>1
<1>2. r # "" /\ yes = TRUE
  BY DEF ClaudeStopReason
<1>. HIDE DEF u, r, yes
<1>3. ClaudeKnows(a)
  BY ClaudeOther
<1>. HIDE DEF a
<1>4. ClaudeKnows(b) /\ b.sent = yes
  BY <1>3, ClaudeOther
<1>. HIDE DEF b
<1>5. ClaudeKnows(t) /\ t.sent = yes /\ t.finish = r
  BY <1>4, ClaudeOther
<1>. HIDE DEF t
<1>6. Finishes(c)
  BY <1>2, <1>5, ChunksAre DEF ClaudeFinish
<1>. HIDE DEF c
<1>7. Emit(t, <<c>>).state = t
  BY DEF Emit
<1>8. Closing(Emit(t, <<c>>))
  BY <1>6, Tells
<1>. QED BY <1>1, <1>2, <1>5, <1>7, <1>8

\* And then it has nothing more to tell.
LEMMA ClaudeOver ==
  ASSUME NEW s, s.sent = TRUE, NEW e, e.type = "message_stop"
  PROVE  ClaudeConvert(s, e) = Ignore(s)
BY DEF ClaudeConvert

-----------------------------------------------------------------------------
(* The invariant: a message goes on until a finish is relayed, which the   *)
(* upstream does not follow with more, and a body that is closed has left  *)
(* every client with an end.                                               *)

WireOK(w) ==
    w = [phase |-> w.phase, events |-> w.events, kind |-> w.kind, open |-> w.open,
         block |-> w.block]

\* A client was told an end, of the answer or of the connection.
ToldEnd(d, ev) ==
    FramesTrue(d.frames, d.next) /\ Reads(d.frames) \in {"over", "failed"} /\ LastWord(ev)

HasEnded == wire.phase \in {"stopped", "over"} /\ Ended(dialect, events, chat)

DialectsInv ==
    /\ WireOK(wire)
    /\ \/ wire.phase # "closed" /\ Goes(dialect, events)
       \/ HasEnded
       \/ wire.phase = "closed" /\ ToldEnd(dialect, events)
    /\ provider = "claude" =>
           ClaudeKnows(translator) /\ (wire.phase = "stopped" => translator.sent = TRUE)

\* An upstream that is further.
LEMMA WireOther ==
  ASSUME NEW w, WireOK(w), NEW v
  PROVE  /\ WireOK([w EXCEPT !.phase = v]) /\ [w EXCEPT !.phase = v].phase = v
         /\ WireOK([w EXCEPT !.events = v]) /\ [w EXCEPT !.events = v].phase = w.phase
         /\ WireOK([w EXCEPT !.kind = v]) /\ [w EXCEPT !.kind = v].phase = w.phase
         /\ WireOK([w EXCEPT !.open = v]) /\ [w EXCEPT !.open = v].phase = w.phase
         /\ WireOK([w EXCEPT !.block = v]) /\ [w EXCEPT !.block = v].phase = w.phase
<1>1. WireOK([w EXCEPT !.phase = v]) /\ [w EXCEPT !.phase = v].phase = v
  BY DEF WireOK
<1>2. WireOK([w EXCEPT !.events = v]) /\ [w EXCEPT !.events = v].phase = w.phase
  BY DEF WireOK
<1>3. WireOK([w EXCEPT !.kind = v]) /\ [w EXCEPT !.kind = v].phase = w.phase
  BY DEF WireOK
<1>4. WireOK([w EXCEPT !.open = v]) /\ [w EXCEPT !.open = v].phase = w.phase
  BY DEF WireOK
<1>5. WireOK([w EXCEPT !.block = v]) /\ [w EXCEPT !.block = v].phase = w.phase
  BY DEF WireOK
<1>. QED BY <1>1, <1>2, <1>3, <1>4, <1>5

\* A body that broke leaves an end.
LEMMA RefuseEnds ==
  ASSUME Goes(dialect, events) \/ Ended(dialect, events, chat), Refuse
  PROVE  ToldEnd(dialect', events')
<1>1. Going(dialect) \/ Over(dialect)
  BY DEF Goes, Ended
<1>2. LastWord(events)
  BY CompletesLast DEF Goes, Ended
<1>3. Refused(dialect')
  BY <1>1, RefusalTold DEF Refuse
<1>4. LastWord(events')
  BY <1>2, ErrorLast DEF Refuse
<1>. QED BY <1>3, <1>4 DEF ToldEnd, Refused, Core

\* What an event leaves, by what its translator makes of it.
LEMMA SendsKeep ==
  ASSUME DialectsInv, NEW e, NEW w, NEW s, Sends(e, w, s), wire.phase # "closed",
         WireOK(w), w.phase # "closed",
         NEW out, out = Convert(translator, e),
         \/ out.failed = TRUE
         \/ Telling(out) /\ Goes(dialect, events)
         \/ Closing(out) /\ Goes(dialect, events) /\ w.phase \in {"stopped", "over"}
         \/ out.failed = FALSE /\ Silent(out.chunks) /\ w.phase \in {"stopped", "over"},
         provider = "claude" =>
             /\ out.failed = FALSE /\ ClaudeKnows(out.state)
             /\ w.phase = "stopped" => out.state.sent = TRUE
  PROVE  DialectsInv'
<1> DEFINE acc == [seen |-> seen, dialect |-> dialect, events |-> events, chat |-> chat]
           all == FoldLeft(Relay, acc, out.chunks)
           n == w.events + 1
           ph == IF out.failed THEN "closed" ELSE w.phase
           v == [w EXCEPT !.events = n]
           u == [v EXCEPT !.phase = ph]
<1>1. acc.dialect = dialect /\ acc.events = events /\ acc.chat = chat
  OBVIOUS
<1>2. wire' = u
  <2>1. wire' = [w EXCEPT !.events = n, !.phase = ph]
    BY DEF Sends
  <2>. HIDE DEF n, ph
  <2>. QED BY <2>1
<1>3. translator' = out.state /\ provider' = provider
  BY DEF Sends, Feed
<1>4. IF out.failed THEN Refuse ELSE Surfaces(out.chunks)
  BY DEF Sends, Feed
<1>5. Surfaces(out.chunks) => dialect' = all.dialect /\ events' = all.events /\ chat' = all.chat
  BY DEF Surfaces
<1>. HIDE DEF acc, n
<1>6. WireOK(v) /\ v.phase = w.phase
  BY WireOther
<1>. HIDE DEF v
<1>7. ph = IF out.failed THEN "closed" ELSE w.phase
  OBVIOUS
<1>. HIDE DEF ph
<1>8. WireOK(wire') /\ wire'.phase = ph
  BY <1>2, <1>6, WireOther, ZenonT(60)
<1>. HIDE DEF u, all
<1>9. Goes(dialect, events) \/ Ended(dialect, events, chat)
  BY DEF DialectsInv, HasEnded
<1>10. \/ wire'.phase # "closed" /\ Goes(dialect', events')
       \/ wire'.phase \in {"stopped", "over"} /\ Ended(dialect', events', chat')
       \/ wire'.phase = "closed" /\ ToldEnd(dialect', events')
  <2>1. CASE out.failed = TRUE
    <3>1. Refuse
      BY <1>4, <2>1
    <3>2. ToldEnd(dialect', events')
      BY <1>9, <3>1, RefuseEnds
    <3>3. ph = "closed"
      BY <1>7, <2>1
    <3>. QED BY <1>8, <3>2, <3>3
  <2>2. CASE Telling(out) /\ Goes(dialect, events)
    <3>1. Surfaces(out.chunks) /\ ph = w.phase
      BY <1>4, <1>7, <2>2 DEF Telling
    <3>2. Goes(all.dialect, all.events)
      BY <1>1, <2>2, RelayPlain DEF Telling, all
    <3>. QED BY <1>5, <1>8, <3>1, <3>2
  <2>3. CASE Closing(out) /\ Goes(dialect, events) /\ w.phase \in {"stopped", "over"}
    <3>1. Surfaces(out.chunks) /\ ph = w.phase
      BY <1>4, <1>7, <2>3 DEF Closing
    <3>2. Ended(all.dialect, all.events, all.chat)
      BY <1>1, <2>3, RelayEnding DEF Closing, all
    <3>. QED BY <1>5, <1>8, <2>3, <3>1, <3>2
  <2>4. CASE out.failed = FALSE /\ Silent(out.chunks) /\ w.phase \in {"stopped", "over"}
    <3>1. Surfaces(out.chunks) /\ ph = w.phase
      BY <1>4, <1>7, <2>4
    <3>2. all.dialect = dialect /\ all.events = events /\ all.chat = chat
      BY <1>1, <2>4, RelaySilent DEF all
    <3>3. dialect' = dialect /\ events' = events /\ chat' = chat
      BY <1>5, <3>1, <3>2
    <3>4. wire'.phase \in {"stopped", "over"} /\ wire'.phase # "closed"
      BY <1>8, <2>4, <3>1
    <3>. QED BY <1>9, <3>3, <3>4
  <2>. QED BY <2>1, <2>2, <2>3, <2>4
<1>11. provider' = "claude" =>
           ClaudeKnows(translator') /\ (wire'.phase = "stopped" => translator'.sent = TRUE)
  <2>1. ASSUME provider' = "claude"
        PROVE  ClaudeKnows(translator') /\ (wire'.phase = "stopped" => translator'.sent = TRUE)
    <3>1. /\ out.failed = FALSE /\ ClaudeKnows(out.state)
          /\ w.phase = "stopped" => out.state.sent = TRUE
      BY <1>3, <2>1
    <3>2. wire'.phase = w.phase
      BY <1>7, <1>8, <3>1
    <3>. QED BY <1>3, <3>1, <3>2
  <2>. QED BY <2>1
<1>. QED BY <1>8, <1>10, <1>11 DEF DialectsInv, HasEnded

\* An upstream that has not stopped is in the middle of its answer.
LEMMA InTheMiddle ==
  ASSUME DialectsInv, wire.phase \in {"start", "body"}
  PROVE  Goes(dialect, events)
BY DEF DialectsInv, HasEnded

\* A Claude upstream in the middle of its answer.
LEMMA ClaudeGoesOn ==
  ASSUME DialectsInv, provider = "claude", wire.phase \in {"start", "body"},
         NEW e, NEW w, NEW s, Sends(e, w, s), WireOK(w), w.phase = "body",
         e.type \in {"message_start", "content_block_start", "content_block_delta",
                     "content_block_stop"}
  PROVE  DialectsInv'
<1> DEFINE out == Convert(translator, e)
<1>1. out = ClaudeConvert(translator, e)
  BY DEF Convert
<1>. HIDE DEF out
<1>2. ClaudeKnows(translator)
  BY DEF DialectsInv
<1>3. Telling(out) /\ ClaudeKnows(out.state)
  BY <1>1, <1>2, ClaudeTells
<1>4. Goes(dialect, events)
  BY InTheMiddle
<1>5. out.failed = FALSE
  BY <1>3 DEF Telling
<1>6. wire.phase # "closed" /\ w.phase # "closed" /\ w.phase # "stopped"
  OBVIOUS
<1>. QED BY <1>3, <1>4, <1>5, <1>6, SendsKeep DEF out

\* The steps of a Claude upstream.
LEMMA ClaudeKeeps ==
  ASSUME DialectsInv,
         \/ ClaudeBegins \/ ClaudeOpensBlock \/ ClaudeSendsDelta \/ ClaudeStopsBlock
         \/ ClaudeStops \/ ClaudeSaysStop
  PROVE  DialectsInv'
<1>0. WireOK(wire)
  BY DEF DialectsInv
<1>1. CASE ClaudeBegins
  <2>1. PICK read \in {0, 2} :
            LET usage == [input |-> 1, output |-> 0, read |-> read] IN
            Sends([type |-> "message_start", usage |-> usage],
                  [wire EXCEPT !.phase = "body"], [said EXCEPT !.usage = usage])
    BY <1>1 DEF ClaudeBegins
  <2> DEFINE u == [input |-> 1, output |-> 0, read |-> read]
             e == [type |-> "message_start", usage |-> u]
             w == [wire EXCEPT !.phase = "body"]
             s == [said EXCEPT !.usage = u]
  <2>2. Sends(e, w, s) /\ e.type = "message_start"
    BY <2>1
  <2>3. WireOK(w) /\ w.phase = "body"
    BY <1>0, WireOther
  <2>4. provider = "claude" /\ wire.phase = "start"
    BY <1>1 DEF ClaudeBegins
  <2>. HIDE DEF e, w, s
  <2>. QED BY <2>2, <2>3, <2>4, ClaudeGoesOn
<1>2. CASE ClaudeOpensBlock
  <2>1. \E e, w, s : /\ Sends(e, w, s) /\ e.type = "content_block_start"
                     /\ WireOK(w) /\ w.phase = "body"
    <3>1. PICK kind \in {"text", "thinking", "tool"} :
              LET part == CallPart(<<>>, TRUE) IN
              Sends([type |-> "content_block_start", kind |-> kind, index |-> wire.block,
                     id |-> part.id, name |-> part.name],
                    [wire EXCEPT !.kind = kind],
                    IF kind = "tool" THEN SaysPart(part) ELSE said)
      BY <1>2 DEF ClaudeOpensBlock
    <3> DEFINE part == CallPart(<<>>, TRUE)
               e == [type |-> "content_block_start", kind |-> kind, index |-> wire.block,
                     id |-> part.id, name |-> part.name]
               w == [wire EXCEPT !.kind = kind]
               s == IF kind = "tool" THEN SaysPart(part) ELSE said
    <3>2. Sends(e, w, s) /\ e.type = "content_block_start"
      BY <3>1
    <3>3. WireOK(w) /\ w.phase = wire.phase
      BY <1>0, WireOther
    <3>4. wire.phase = "body"
      BY <1>2 DEF ClaudeOpensBlock
    <3>. HIDE DEF e, w, s
    <3>. QED BY <3>2, <3>3, <3>4
  <2>2. provider = "claude" /\ wire.phase = "body"
    BY <1>2 DEF ClaudeOpensBlock
  <2>. QED BY <2>1, <2>2, ClaudeGoesOn
<1>3. CASE ClaudeSendsDelta
  <2>1. \E e, s : Sends(e, wire, s) /\ e.type = "content_block_delta"
    <3>1. PICK index \in {wire.block, -1} :
              Sends([type |-> "content_block_delta", kind |-> wire.kind, index |-> index,
                     piece |-> Now],
                    wire,
                    CASE wire.kind = "text" -> SaysPart(Part("text", Now))
                      [] wire.kind = "thinking" -> SaysPart(Part("thought", Now))
                      [] wire.kind = "tool" -> Says(Len(said.parts), Now))
      BY <1>3 DEF ClaudeSendsDelta
    <3> DEFINE e == [type |-> "content_block_delta", kind |-> wire.kind, index |-> index,
                     piece |-> Now]
               s == CASE wire.kind = "text" -> SaysPart(Part("text", Now))
                      [] wire.kind = "thinking" -> SaysPart(Part("thought", Now))
                      [] wire.kind = "tool" -> Says(Len(said.parts), Now)
    <3>2. Sends(e, wire, s) /\ e.type = "content_block_delta"
      BY <3>1
    <3>. HIDE DEF e, s
    <3>. QED BY <3>2
  <2>2. provider = "claude" /\ wire.phase = "body"
    BY <1>3 DEF ClaudeSendsDelta
  <2>. QED BY <1>0, <2>1, <2>2, ClaudeGoesOn
<1>4. CASE ClaudeStopsBlock
  <2> DEFINE n == wire.block + 1
             e == [type |-> "content_block_stop", index |-> wire.block]
             v == [wire EXCEPT !.kind = ""]
             w == [v EXCEPT !.block = n]
  <2>1. Sends(e, w, said) /\ e.type = "content_block_stop"
    <3>1. Sends(e, [wire EXCEPT !.kind = "", !.block = n], said)
      BY <1>4 DEF ClaudeStopsBlock
    <3>. QED BY <3>1
  <2>2. provider = "claude" /\ wire.phase = "body"
    BY <1>4 DEF ClaudeStopsBlock
  <2>. HIDE DEF e, n
  <2>3. WireOK(v) /\ v.phase = wire.phase
    BY <1>0, WireOther
  <2>. HIDE DEF v
  <2>4. WireOK(w) /\ w.phase = wire.phase
    BY <2>3, WireOther
  <2>. HIDE DEF w
  <2>. QED BY <2>1, <2>2, <2>4, ClaudeGoesOn
<1>5. CASE ClaudeStops
  <2>1. provider = "claude" /\ wire.phase = "body"
    BY <1>5 DEF ClaudeStops
  <2>2. PICK e, w, s : /\ Sends(e, w, s) /\ e.type = "message_delta" /\ e.reason # ""
                       /\ w = [wire EXCEPT !.phase = "stopped"]
    <3>1. PICK again \in BOOLEAN :
            LET counts == IF again THEN [said.usage EXCEPT !.output = 1]
                          ELSE [input |-> 0, output |-> 1, read |-> 0]
                reason == IF Calls # {} THEN {"tool_use", "max_tokens"}
                          ELSE {"end_turn", "max_tokens"}
            IN \E r \in reason :
                  Sends([type |-> "message_delta", reason |-> r, usage |-> counts],
                        [wire EXCEPT !.phase = "stopped"],
                        [said EXCEPT !.stop = r, !.usage.output = 1])
      BY <1>5 DEF ClaudeStops
    <3> DEFINE counts == IF again THEN [said.usage EXCEPT !.output = 1]
                         ELSE [input |-> 0, output |-> 1, read |-> 0]
               reason == IF Calls # {} THEN {"tool_use", "max_tokens"}
                         ELSE {"end_turn", "max_tokens"}
    <3>2. PICK r \in reason :
                  Sends([type |-> "message_delta", reason |-> r, usage |-> counts],
                        [wire EXCEPT !.phase = "stopped"],
                        [said EXCEPT !.stop = r, !.usage.output = 1])
      BY <3>1
    <3>3. r # ""
      BY <3>2
    <3> DEFINE e == [type |-> "message_delta", reason |-> r, usage |-> counts]
               w == [wire EXCEPT !.phase = "stopped"]
               s == [said EXCEPT !.stop = r, !.usage.output = 1]
    <3>4. Sends(e, w, s) /\ e.type = "message_delta" /\ e.reason = r
      BY <3>2
    <3>. HIDE DEF e, s, counts, reason
    <3>. QED BY <3>3, <3>4
  <2>3. WireOK(w) /\ w.phase = "stopped"
    BY <1>0, <2>2, WireOther
  <2> DEFINE out == Convert(translator, e)
  <2>4. out = ClaudeConvert(translator, e)
    BY <2>1 DEF Convert
  <2>. HIDE DEF out
  <2>5. ClaudeKnows(translator)
    BY <2>1 DEF DialectsInv
  <2>6. Closing(out) /\ ClaudeKnows(out.state) /\ out.state.sent = TRUE
    BY <2>2, <2>4, <2>5, ClaudeEnds
  <2>7. Goes(dialect, events)
    BY <2>1, InTheMiddle
  <2>8. out.failed = FALSE
    BY <2>6 DEF Closing
  <2>9. wire.phase # "closed" /\ w.phase # "closed" /\ w.phase \in {"stopped", "over"}
    BY <2>1, <2>3
  <2>. QED BY <2>2, <2>3, <2>6, <2>7, <2>8, <2>9, SendsKeep DEF out
<1>6. CASE ClaudeSaysStop
  <2>1. provider = "claude" /\ wire.phase = "stopped"
    BY <1>6 DEF ClaudeSaysStop
  <2> DEFINE e == [type |-> "message_stop"]
             w == [wire EXCEPT !.phase = "over"]
             out == Convert(translator, e)
  <2>2. Sends(e, w, said) /\ e.type = "message_stop"
    BY <1>6 DEF ClaudeSaysStop
  <2>3. WireOK(w) /\ w.phase = "over"
    BY <1>0, WireOther
  <2>. HIDE DEF e, w
  <2>4. ClaudeKnows(translator) /\ translator.sent = TRUE
    BY <2>1 DEF DialectsInv
  <2>5. out = ClaudeConvert(translator, e)
    BY <2>1 DEF Convert
  <2>. HIDE DEF out
  <2>6. out = Ignore(translator)
    BY <2>2, <2>4, <2>5, ClaudeOver
  <2>7. out.failed = FALSE /\ Silent(out.chunks) /\ out.state = translator
    BY <2>6 DEF Ignore, Emit, Silent
  <2>8. wire.phase # "closed" /\ w.phase # "closed" /\ w.phase \in {"stopped", "over"}
        /\ w.phase # "stopped"
    BY <2>1, <2>3
  <2>. QED BY <2>2, <2>3, <2>4, <2>7, <2>8, SendsKeep DEF out
<1>. QED BY <1>1, <1>2, <1>3, <1>4, <1>5, <1>6

\* An upstream whose event the translator does not take.
LEMMA FailureKeeps ==
  ASSUME DialectsInv, wire.phase # "closed", provider # "claude",
         NEW e, NEW w, NEW s, Sends(e, w, s), WireOK(w), w.phase # "closed",
         Convert(translator, e).failed = TRUE
  PROVE  DialectsInv'
<1> DEFINE out == Convert(translator, e)
<1>1. out = Convert(translator, e) /\ out.failed = TRUE
  OBVIOUS
<1>. HIDE DEF out
<1>. QED BY <1>1, SendsKeep

\* Another upstream in the middle of its answer.
LEMMA OthersGoOn ==
  ASSUME DialectsInv, wire.phase \in {"start", "body"}, provider # "claude",
         NEW e, NEW w, NEW s, Sends(e, w, s), WireOK(w), w.phase # "closed",
         LET out == Convert(translator, e) IN
         Telling(out) \/ (Closing(out) /\ w.phase \in {"stopped", "over"})
  PROVE  DialectsInv'
<1> DEFINE out == Convert(translator, e)
<1>1. /\ out = Convert(translator, e)
      /\ Telling(out) \/ (Closing(out) /\ w.phase \in {"stopped", "over"})
  OBVIOUS
<1>. HIDE DEF out
<1>2. Goes(dialect, events) /\ wire.phase # "closed"
  BY InTheMiddle
<1>. QED BY <1>1, <1>2, SendsKeep

\* Sequences of at most two.
LEMMA FewAre == IsSeq(<<>>) /\ \A x, y : IsSeq(<<x>>) /\ IsSeq(<<x, y>>)
<1>1. ASSUME NEW x, NEW y PROVE IsSeq(<<x, y>>)
  <2>1. <<x, y>> \in Seq({x, y})
    OBVIOUS
  <2>. QED BY <2>1 DEF IsSeq
<1>2. IsSeq(<<>>)
  BY DEF IsSeq
<1>. QED BY <1>1, <1>2, OneIs

\* The steps of a Gemini upstream.
LEMMA GeminiKeeps ==
  ASSUME DialectsInv, GeminiSends \/ GeminiFails
  PROVE  DialectsInv'
<1>0. WireOK(wire)
  BY SMTT(60) DEF DialectsInv
<1>1. CASE GeminiSends
  <2>1. provider = "gemini" /\ wire.phase \in {"start", "body"}
    BY <1>1 DEF GeminiSends
  <2>2. PICK parts, finish, e, s :
            /\ IsSeq(parts) /\ e.type = "payload" /\ e.parts = parts /\ e.finish = finish
            /\ Sends(e, [wire EXCEPT !.phase = IF finish = "" THEN "body" ELSE "over"], s)
    <3> DEFINE a == Part("text", Now)
               b == Part("thought", Now)
               c == CallPart(<<Now>>, TRUE)
               d == [CallPart(<<>>, TRUE) EXCEPT !.name = ""]
               all == {<<>>, <<a>>, <<b>>, <<c>>, <<d, a>>}
    <3>1. PICK parts \in all, finish \in {"", "STOP", "MAX_TOKENS", "SAFETY"} :
             LET meta == IF finish = "" THEN NoMeta
                         ELSE [prompt |-> 1, candidates |-> 0, thoughts |-> 1,
                               total |-> 3, cached |-> 1]
             IN  Sends([type |-> "payload", parts |-> parts, finish |-> finish, usage |-> meta],
                       [wire EXCEPT !.phase = IF finish = "" THEN "body" ELSE "over"],
                       [parts |-> said.parts \o parts, stop |-> finish, usage |-> meta])
      BY <1>1, ZenonT(60) DEF GeminiSends
    <3>. HIDE DEF a, b, c, d
    <3>2. IsSeq(parts)
      <4>1. IsSeq(<<>>) /\ \A x, y : IsSeq(<<x>>) /\ IsSeq(<<x, y>>)
        BY ONLY FewAre
      <4>. QED BY <3>1, <4>1
    <3> DEFINE meta == IF finish = "" THEN NoMeta
                       ELSE [prompt |-> 1, candidates |-> 0, thoughts |-> 1,
                             total |-> 3, cached |-> 1]
               e == [type |-> "payload", parts |-> parts, finish |-> finish, usage |-> meta]
               s == [parts |-> said.parts \o parts, stop |-> finish, usage |-> meta]
    <3>3. Sends(e, [wire EXCEPT !.phase = IF finish = "" THEN "body" ELSE "over"], s)
      BY <3>1
    <3>4. e.type = "payload" /\ e.parts = parts /\ e.finish = finish
      OBVIOUS
    <3>. HIDE DEF e, s, all
    <3>. QED BY <3>2, <3>3, <3>4
  <2> DEFINE ph == IF finish = "" THEN "body" ELSE "over"
             w == [wire EXCEPT !.phase = ph]
             out == Convert(translator, e)
  <2>3. Sends(e, w, s)
    BY <2>2
  <2>4. ph \in {"body", "over"} /\ (finish # "" => ph = "over")
    OBVIOUS
  <2>. HIDE DEF ph
  <2>5. WireOK(w) /\ w.phase = ph
    BY <1>0, WireOther
  <2>. HIDE DEF w
  <2>6. out = GeminiConvert(translator, e)
    BY <2>1 DEF Convert
  <2>7. Telling(out) \/ (Closing(out) /\ e.finish # "")
    <3>. HIDE DEF out
    <3>1. e.type # "error" /\ IsSeq(e.parts)
      BY <2>2
    <3>. QED BY <2>6, <3>1, GeminiTells
  <2>8. Telling(out) \/ (Closing(out) /\ w.phase \in {"stopped", "over"})
    BY <2>2, <2>4, <2>5, <2>7
  <2>9. provider # "claude" /\ w.phase # "closed"
    BY <2>1, <2>4, <2>5
  <2>. QED BY <2>1, <2>3, <2>5, <2>8, <2>9, OthersGoOn, SMTT(60)
<1>2. CASE GeminiFails
  <2> DEFINE e == [type |-> "error"]
  <2>1. provider = "gemini" /\ wire.phase # "closed" /\ Sends(e, wire, said)
    BY <1>2 DEF GeminiFails
  <2>2. Convert(translator, e) = Fail(translator)
    BY <2>1 DEF Convert, GeminiConvert
  <2>3. Fail(translator).failed = TRUE
    BY EmitIs
  <2>. HIDE DEF e
  <2>. QED BY <1>0, <2>1, <2>2, <2>3, FailureKeeps
<1>. QED BY <1>1, <1>2

\* A Responses upstream, by what it sends.
LEMMA ResponsesGoesOn ==
  ASSUME DialectsInv, Talking("responses"), NEW e, NEW w, NEW s, Sends(e, w, s), WireOK(w),
         \/ w.phase = wire.phase /\ e.type \in {"text", "reasoning", "added", "arguments", "done"}
         \/ w.phase = "over" /\ e.type \in {"completed", "incomplete", "failed"}
  PROVE  DialectsInv'
<1> DEFINE out == Convert(translator, e)
<1>1. provider = "responses" /\ wire.phase \in {"start", "body"}
  BY DEF Talking
<1>2. out = ResponsesConvert(translator, e)
  BY <1>1 DEF Convert
<1>3. provider # "claude" /\ wire.phase # "closed" /\ w.phase # "closed"
  BY <1>1
<1>4. CASE e.type = "failed"
  <2> DEFINE yes == TRUE
             t == [translator EXCEPT !.sent = yes]
  <2>1. out = Fail(t)
    BY <1>2, <1>4 DEF ResponsesConvert
  <2>. HIDE DEF t
  <2>2. Fail(t).failed = TRUE
    BY EmitIs
  <2>3. Convert(translator, e).failed = TRUE
    BY <2>1, <2>2
  <2>. QED BY <1>3, <2>3, FailureKeeps
<1>5. CASE e.type # "failed"
  <2>1. Telling(out) \/ (Closing(out) /\ e.type \in {"completed", "incomplete"})
    <3>. HIDE DEF out
    <3>. QED BY <1>2, <1>5, ResponsesTells
  <2>2. e.type \in {"completed", "incomplete"} => w.phase \in {"stopped", "over"}
    OBVIOUS
  <2>3. Telling(out) \/ (Closing(out) /\ w.phase \in {"stopped", "over"})
    BY <2>1, <2>2
  <2>. QED BY <1>1, <1>3, <2>3, OthersGoOn
<1>. QED BY <1>4, <1>5

\* The steps of a Responses upstream.
LEMMA ResponsesKeeps ==
  ASSUME DialectsInv,
         \/ ResponsesSendsText \/ ResponsesAddsCall \/ ResponsesSendsArguments
         \/ ResponsesEndsCall \/ ResponsesStops
  PROVE  DialectsInv'
<1>0. WireOK(wire)
  BY DEF DialectsInv
<1>1. CASE ResponsesSendsText
  <2>1. \E e, s : Sends(e, wire, s) /\ e.type \in {"text", "reasoning"}
    <3> DEFINE e == [type |-> "text", piece |-> Now]
               f == [type |-> "reasoning", piece |-> Now]
    <3>1. \/ Sends(e, wire, SaysPart(Part("text", Now)))
          \/ Sends(f, wire, SaysPart(Part("thought", Now)))
      BY <1>1 DEF ResponsesSendsText
    <3>2. e.type = "text" /\ f.type = "reasoning"
      OBVIOUS
    <3>. HIDE DEF e, f
    <3>. QED BY <3>1, <3>2
  <2>2. Talking("responses")
    BY <1>1 DEF ResponsesSendsText
  <2>. QED BY <1>0, <2>1, <2>2, ResponsesGoesOn
<1>2. CASE ResponsesAddsCall
  <2>1. \E e, w, s : /\ Sends(e, w, s) /\ e.type = "added" /\ WireOK(w)
                     /\ w.phase = wire.phase
    <3>1. PICK announced \in BOOLEAN :
          LET part == CallPart(<<>>, announced) IN
          Sends([type |-> "added", id |-> part.id, item |-> ItemId(part.id),
                 output |-> Len(said.parts),
                 name |-> IF announced THEN part.name ELSE ""],
                [wire EXCEPT !.open = @ \union {Len(said.parts) + 1}], SaysPart(part))
      BY <1>2 DEF ResponsesAddsCall
    <3> DEFINE part == CallPart(<<>>, announced)
               e == [type |-> "added", id |-> part.id, item |-> ItemId(part.id),
                     output |-> Len(said.parts),
                     name |-> IF announced THEN part.name ELSE ""]
               more == wire.open \union {Len(said.parts) + 1}
               w == [wire EXCEPT !.open = more]
               s == SaysPart(part)
    <3>2. Sends(e, w, s)
      BY <3>1
    <3>3. e.type = "added"
      OBVIOUS
    <3>. HIDE DEF e, s, more
    <3>4. WireOK(w) /\ w.phase = wire.phase
      BY <1>0, WireOther
    <3>. HIDE DEF w
    <3>. QED BY <3>2, <3>3, <3>4
  <2>2. Talking("responses")
    BY <1>2 DEF ResponsesAddsCall
  <2>. QED BY <2>1, <2>2, ResponsesGoesOn
<1>3. CASE ResponsesSendsArguments
  <2>1. \E e, s : Sends(e, wire, s) /\ e.type = "arguments"
    <3>1. PICK i \in wire.open, by \in {"item", "output", "none"} :
              Sends([type |-> "arguments", piece |-> Now,
                     item |-> IF by = "item" THEN ItemId(said.parts[i].id) ELSE "",
                     output |-> IF by = "output" THEN i - 1 ELSE -1],
                    wire, Says(i, Now))
      BY <1>3 DEF ResponsesSendsArguments
    <3> DEFINE e == [type |-> "arguments", piece |-> Now,
                     item |-> IF by = "item" THEN ItemId(said.parts[i].id) ELSE "",
                     output |-> IF by = "output" THEN i - 1 ELSE -1]
    <3>2. Sends(e, wire, Says(i, Now)) /\ e.type = "arguments"
      BY <3>1
    <3>. HIDE DEF e
    <3>. QED BY <3>2
  <2>2. Talking("responses")
    BY <1>3 DEF ResponsesSendsArguments
  <2>. QED BY <1>0, <2>1, <2>2, ResponsesGoesOn
<1>4. CASE ResponsesEndsCall
  <2>1. \E e, w : /\ Sends(e, w, said) /\ e.type = "done" /\ WireOK(w)
                  /\ w.phase = wire.phase
    <3>1. PICK i \in wire.open, repeats \in BOOLEAN, identified \in BOOLEAN, named \in BOOLEAN :
              Sends([type |-> "done", item |-> ItemId(said.parts[i].id),
                     id |-> IF identified THEN said.parts[i].id ELSE "",
                     name |-> IF named THEN said.parts[i].name ELSE "",
                     args |-> IF repeats THEN said.parts[i].args ELSE <<>>],
                    [wire EXCEPT !.open = @ \ {i}], said)
      BY <1>4 DEF ResponsesEndsCall
    <3> DEFINE e == [type |-> "done", item |-> ItemId(said.parts[i].id),
                     id |-> IF identified THEN said.parts[i].id ELSE "",
                     name |-> IF named THEN said.parts[i].name ELSE "",
                     args |-> IF repeats THEN said.parts[i].args ELSE <<>>]
               fewer == wire.open \ {i}
               w == [wire EXCEPT !.open = fewer]
    <3>2. Sends(e, w, said) /\ e.type = "done"
      BY <3>1
    <3>. HIDE DEF e, fewer
    <3>3. WireOK(w) /\ w.phase = wire.phase
      BY <1>0, WireOther
    <3>. HIDE DEF w
    <3>. QED BY <3>2, <3>3
  <2>2. Talking("responses")
    BY <1>4 DEF ResponsesEndsCall
  <2>. QED BY <2>1, <2>2, ResponsesGoesOn
<1>5. CASE ResponsesStops
  <2>1. \E e, w, s : /\ Sends(e, w, s) /\ e.type \in {"completed", "incomplete", "failed"}
                     /\ WireOK(w) /\ w.phase = "over"
    <3> DEFINE counts == [input |-> 2, output |-> 1, cached |-> 1, claude |-> FALSE]
    <3>1. PICK type \in {"completed", "incomplete", "failed"} :
              Sends([type |-> type, usage |-> counts], [wire EXCEPT !.phase = "over"],
                    [said EXCEPT !.stop = type, !.usage = counts])
      BY <1>5 DEF ResponsesStops
    <3>. HIDE DEF counts
    <3> DEFINE e == [type |-> type, usage |-> counts]
               w == [wire EXCEPT !.phase = "over"]
               s == [said EXCEPT !.stop = type, !.usage = counts]
    <3>2. Sends(e, w, s) /\ e.type = type
      BY <3>1
    <3>3. WireOK(w) /\ w.phase = "over"
      BY <1>0, WireOther
    <3>. HIDE DEF e, w, s
    <3>. QED BY <3>1, <3>2, <3>3
  <2>2. Talking("responses")
    BY <1>5 DEF ResponsesStops
  <2>. QED BY <2>1, <2>2, ResponsesGoesOn
<1>. QED BY <1>1, <1>2, <1>3, <1>4, <1>5

\* An OpenAI upstream, whose chunks are passed on.
LEMMA OpenAiGoesOn ==
  ASSUME DialectsInv, Talking("openai"), NEW e, NEW w, NEW s, Sends(e, w, s), WireOK(w),
         e.type = "chunk",
         \/ w.phase = wire.phase /\ GoesOn(e.chunk)
         \/ w.phase = "over" /\ Finishes(e.chunk)
  PROVE  DialectsInv'
<1> DEFINE out == Convert(translator, e)
           c == e.chunk
<1>1. provider = "openai" /\ wire.phase \in {"start", "body"}
  BY DEF Talking
<1>2. out = Emit(translator, <<c>>)
  BY <1>1 DEF Convert
<1>3. provider # "claude" /\ wire.phase # "closed" /\ w.phase # "closed"
  BY <1>1
<1>4. (GoesOn(c) => Telling(out)) /\ (Finishes(c) => Closing(out))
  <2>. HIDE DEF out, c
  <2>. QED BY <1>2, Tells
<1>5. Telling(out) \/ (Closing(out) /\ w.phase \in {"stopped", "over"})
  BY <1>4
<1>. QED BY <1>1, <1>3, <1>5, OthersGoOn

\* The steps of an OpenAI upstream.
LEMMA OpenAiKeeps ==
  ASSUME DialectsInv,
         \/ OpenAiSendsText \/ OpenAiOpensCall \/ OpenAiSendsArguments \/ OpenAiStops
         \/ OpenAiCounts \/ OpenAiFails
  PROVE  DialectsInv'
<1>0. WireOK(wire)
  BY DEF DialectsInv
<1>6. ASSUME NEW c PROVE [type |-> "chunk", chunk |-> c].type = "chunk"
                         /\ [type |-> "chunk", chunk |-> c].chunk = c
  OBVIOUS
<1>1. CASE OpenAiSendsText
  <2>1. \E c, s : Sends([type |-> "chunk", chunk |-> c], wire, s) /\ GoesOn(c)
    BY <1>1, ChunksAre DEF OpenAiSendsText
  <2>2. Talking("openai")
    BY <1>1 DEF OpenAiSendsText
  <2>3. PICK c, s : Sends([type |-> "chunk", chunk |-> c], wire, s) /\ GoesOn(c)
    BY <2>1
  <2> DEFINE e == [type |-> "chunk", chunk |-> c]
  <2>4. Sends(e, wire, s) /\ e.type = "chunk" /\ GoesOn(e.chunk)
    BY <1>6, <2>3
  <2>. HIDE DEF e
  <2>. QED BY <1>0, <2>2, <2>4, OpenAiGoesOn
<1>2. CASE OpenAiOpensCall
  <2>2. Talking("openai")
    BY <1>2 DEF OpenAiOpensCall
  <2>3. PICK c, more, s : /\ Sends([type |-> "chunk", chunk |-> c], [wire EXCEPT !.open = more], s)
                          /\ GoesOn(c)
    <3>1. PICK args \in {<<>>, <<Now>>} :
          LET part == CallPart(args, TRUE)
              index == Cardinality(Calls)
          IN  Sends([type |-> "chunk", chunk |-> Tool(Call(index, part.id, part.name, args))],
                    [wire EXCEPT !.open = @ \union {Len(said.parts) + 1}], SaysPart(part))
      BY <1>2 DEF OpenAiOpensCall
    <3> DEFINE part == CallPart(args, TRUE)
               c == Tool(Call(Cardinality(Calls), part.id, part.name, args))
               more == wire.open \union {Len(said.parts) + 1}
               s == SaysPart(part)
    <3>2. Sends([type |-> "chunk", chunk |-> c], [wire EXCEPT !.open = more], s)
      BY <3>1
    <3>3. GoesOn(c)
      BY ChunksAre
    <3>. HIDE DEF c, more, s
    <3>. QED BY <3>2, <3>3
  <2> DEFINE e == [type |-> "chunk", chunk |-> c]
             w == [wire EXCEPT !.open = more]
  <2>4. Sends(e, w, s) /\ e.type = "chunk" /\ GoesOn(e.chunk)
    BY <1>6, <2>3
  <2>5. WireOK(w) /\ w.phase = wire.phase
    BY <1>0, WireOther
  <2>. HIDE DEF e, w
  <2>. QED BY <2>2, <2>4, <2>5, OpenAiGoesOn
<1>3. CASE OpenAiSendsArguments
  <2>2. Talking("openai")
    BY <1>3 DEF OpenAiSendsArguments
  <2>3. PICK c, s : Sends([type |-> "chunk", chunk |-> c], wire, s) /\ GoesOn(c)
    <3>1. PICK i \in wire.open :
              Sends([type |-> "chunk", chunk |-> Tool(Call(IndexOf(i), "", "", <<Now>>))],
                    wire, Says(i, Now))
      BY <1>3 DEF OpenAiSendsArguments
    <3> DEFINE c == Tool(Call(IndexOf(i), "", "", <<Now>>))
    <3>2. Sends([type |-> "chunk", chunk |-> c], wire, Says(i, Now)) /\ GoesOn(c)
      BY <3>1, ChunksAre
    <3>. HIDE DEF c
    <3>. QED BY <3>2
  <2> DEFINE e == [type |-> "chunk", chunk |-> c]
  <2>4. Sends(e, wire, s) /\ e.type = "chunk" /\ GoesOn(e.chunk)
    BY <1>6, <2>3
  <2>. HIDE DEF e
  <2>. QED BY <1>0, <2>2, <2>4, OpenAiGoesOn
<1>4. CASE OpenAiStops
  <2>2. Talking("openai")
    BY <1>4 DEF OpenAiStops
  <2>3. PICK c, s : /\ Sends([type |-> "chunk", chunk |-> c], [wire EXCEPT !.phase = "over"], s)
                    /\ Finishes(c)
    <3> DEFINE reasons == IF wire.open = {} THEN {"stop", "length"} ELSE {"tool_calls", "length"}
    <3>1. PICK reason \in reasons,
               counts \in {NoUsage, [prompt |-> 2, completion |-> 1, cached |-> 1]} :
              Sends([type |-> "chunk", chunk |-> Finish(reason, counts)],
                    [wire EXCEPT !.phase = "over"],
                    [said EXCEPT !.stop = reason, !.usage = counts])
      BY <1>4 DEF OpenAiStops
    <3>2. reason # ""
      BY <3>1
    <3> DEFINE c == Finish(reason, counts)
               s == [said EXCEPT !.stop = reason, !.usage = counts]
    <3>3. Sends([type |-> "chunk", chunk |-> c], [wire EXCEPT !.phase = "over"], s)
      BY <3>1
    <3>4. Finishes(c)
      BY <3>2, ChunksAre
    <3>. HIDE DEF c, s
    <3>. QED BY <3>3, <3>4
  <2> DEFINE e == [type |-> "chunk", chunk |-> c]
             w == [wire EXCEPT !.phase = "over"]
  <2>4. Sends(e, w, s) /\ e.type = "chunk" /\ Finishes(e.chunk)
    BY <1>6, <2>3
  <2>5. WireOK(w) /\ w.phase = "over"
    BY <1>0, WireOther
  <2>. HIDE DEF e, w
  <2>. QED BY <2>2, <2>4, <2>5, OpenAiGoesOn
<1>5. CASE OpenAiCounts
  <2> DEFINE e == [type |-> "chunk", chunk |-> Empty]
             out == Convert(translator, e)
  <2>1. provider = "openai" /\ wire.phase = "over" /\ Sends(e, wire, said)
    BY <1>5 DEF OpenAiCounts
  <2>2. e.type = "chunk" /\ e.chunk = Empty
    BY <1>6
  <2>. HIDE DEF e
  <2>3. out = Emit(translator, <<Empty>>)
    BY <2>1, <2>2 DEF Convert
  <2>. HIDE DEF out
  <2>4. out.failed = FALSE /\ Silent(out.chunks)
    BY <2>3 DEF Emit, Silent
  <2>5. provider # "claude" /\ wire.phase # "closed" /\ wire.phase \in {"stopped", "over"}
    BY <2>1
  <2>. QED BY <1>0, <2>1, <2>4, <2>5, SendsKeep DEF out
<1>7. CASE OpenAiFails
  <2> DEFINE e == [type |-> "error"]
  <2>1. provider = "openai" /\ wire.phase # "closed" /\ Sends(e, wire, said)
    BY <1>7 DEF OpenAiFails
  <2>2. Convert(translator, e) = Fail(translator)
    BY <2>1 DEF Convert
  <2>3. Fail(translator).failed = TRUE
    BY EmitIs
  <2>. HIDE DEF e
  <2>. QED BY <1>0, <2>1, <2>2, <2>3, FailureKeeps
<1>. QED BY <1>1, <1>2, <1>3, <1>4, <1>5, <1>7

\* The body ends, or breaks off.
LEMMA ClosingKeeps ==
  ASSUME DialectsInv, Break \/ DoneEarly \/ End
  PROVE  DialectsInv'
<1>1. wire.phase # "closed"
  BY DEF Break, DoneEarly, End
<1>2. Goes(dialect, events) \/ Ended(dialect, events, chat)
  BY <1>1 DEF DialectsInv, HasEnded
<1>3. /\ wire' = [wire EXCEPT !.phase = "closed"] /\ provider' = provider
      /\ translator' = translator
  BY DEF Break, DoneEarly, End, Closed
<1>4. WireOK(wire') /\ wire'.phase = "closed"
  <2>1. WireOK(wire)
    BY DEF DialectsInv
  <2>. QED BY <1>3, <2>1, WireOther
<1>5. ToldEnd(dialect', events')
  <2>1. CASE Break
    BY <1>2, <2>1, RefuseEnds DEF Break
  <2>2. CASE DoneEarly
    <3> DEFINE acc == [seen |-> seen, dialect |-> dialect, events |-> events, chat |-> chat]
               c == Finish("stop", NoUsage)
               n == Relay(acc, c)
    <3>1. dialect' = DialectFinish(n.dialect) /\ events' = n.events
      BY <2>2 DEF DoneEarly
    <3>2. Goes(dialect, events)
      BY <1>2, <2>2 DEF DoneEarly, Ended
    <3>3. acc.dialect = dialect /\ acc.events = events
      OBVIOUS
    <3>4. Finishes(c)
      BY ChunksAre
    <3>. HIDE DEF acc, c
    <3>5. Ended(n.dialect, n.events, n.chat)
      BY <3>2, <3>3, <3>4, RelayOne DEF Finishes
    <3>. HIDE DEF n
    <3>6. Over(DialectFinish(n.dialect)) /\ LastWord(n.events)
      BY <3>5, FinishTold DEF Ended
    <3>. QED BY <3>1, <3>6 DEF ToldEnd, Over, Core
  <2>3. CASE End
    <3>1. Over(dialect')
      BY <1>2, <2>3, FinishTold DEF End, Goes, Ended
    <3>2. LastWord(events')
      BY <1>2, <2>3, CompletesLast DEF End, Goes, Ended
    <3>. QED BY <3>1, <3>2 DEF ToldEnd, Over, Core
  <2>. QED BY <2>1, <2>2, <2>3
<1>6. provider = "claude" => ClaudeKnows(translator)
  BY DEF DialectsInv
<1>. QED BY <1>3, <1>4, <1>5, <1>6 DEF DialectsInv

\* A message is opened, and nobody was told anything else.
LEMMA DialectsStart ==
  ASSUME DialectsInit
  PROVE  DialectsInv
<1>1. WireOK(wire) /\ wire.phase = "start"
  <2> DEFINE w == [phase |-> "start", events |-> 0, kind |-> "", open |-> {}, block |-> 0]
  <2>1. WireOK(w) /\ w.phase = "start"
    BY DEF WireOK
  <2>. HIDE DEF w
  <2>2. wire = w
    BY DEF DialectsInit, w
  <2>. QED BY <2>1, <2>2
<1>2. Goes(dialect, events)
  BY StartGoing, OneWord DEF DialectsInit, Goes
<1>3. provider = "claude" => ClaudeKnows(translator)
  <2>1. ClaudeKnows(ClaudeStart)
    BY DEF ClaudeStart, ClaudeKnows
  <2>. QED BY <2>1 DEF DialectsInit, TranslatorStart
<1>. QED BY <1>1, <1>2, <1>3 DEF DialectsInv

\* Whatever the upstream says, in whatever order, and wherever it breaks off, the
\* clients are in the middle of a message they can read, or at its end.
THEOREM ClientsAreTold == DialectsSpec => []DialectsInv
<1>1. DialectsInit => DialectsInv
  BY DialectsStart
<1>2. DialectsInv /\ [DialectsNext]_dialectsVars => DialectsInv'
  <2> SUFFICES ASSUME DialectsInv, [DialectsNext]_dialectsVars PROVE DialectsInv'
    OBVIOUS
  <2>1. CASE ClaudeBegins \/ ClaudeOpensBlock \/ ClaudeSendsDelta \/ ClaudeStopsBlock
             \/ ClaudeStops \/ ClaudeSaysStop
    BY <2>1, ClaudeKeeps
  <2>2. CASE GeminiSends \/ GeminiFails
    BY <2>2, GeminiKeeps
  <2>3. CASE ResponsesSendsText \/ ResponsesAddsCall \/ ResponsesSendsArguments
             \/ ResponsesEndsCall \/ ResponsesStops
    BY <2>3, ResponsesKeeps
  <2>4. CASE OpenAiSendsText \/ OpenAiOpensCall \/ OpenAiSendsArguments \/ OpenAiStops
             \/ OpenAiCounts \/ OpenAiFails
    BY <2>4, OpenAiKeeps
  <2>5. CASE Break \/ DoneEarly \/ End
    BY <2>5, ClosingKeeps
  <2>6. CASE UNCHANGED dialectsVars
    BY <2>6 DEF dialectsVars, DialectsInv, HasEnded
  <2>. QED BY <2>1, <2>2, <2>3, <2>4, <2>5, <2>6 DEF DialectsNext
<1>. QED BY <1>1, <1>2, PTL DEF DialectsSpec

\* What they were told is well formed.
LEMMA ToldIsWellFormed ==
  ASSUME DialectsInv
  PROVE  WellFormed
<1> DEFINE frames == dialect.frames
           next == dialect.next
           n == Len(events)
           starts == StartsIn(frames)
<1>1. FramesTrue(frames, next)
  BY DEF DialectsInv, HasEnded, Goes, Ended, Going, Over, Live, Core, ToldEnd
<1>2. Reads(frames) \in {"idle", "open", "over", "failed"}
  BY DEF DialectsInv, HasEnded, Goes, Ended, Going, Over, Live, OpenOf, ToldEnd
<1>3. wire.phase = "closed" => Reads(frames) \in {"over", "failed"}
  BY DEF DialectsInv, HasEnded, ToldEnd
<1>4. LastWord(events)
  BY CompletesLast DEF DialectsInv, HasEnded, Goes, Ended, ToldEnd
<1>5. DOMAIN events = 1 .. n /\ n \in Nat
  BY <1>4 DEF LastWord, IsSeq
<1>6. \A i, j \in 1 .. n : i < j /\ events[i] = "response.completed" => events[j] = "error"
  BY <1>4 DEF LastWord
<1>7. DOMAIN starts = 1 .. next /\ Len(starts) = next /\ next \in Nat
  BY <1>1, SeqMore DEF FramesTrue
<1>8. Starts = starts
  BY DEF Starts
<1>9. \A i \in DOMAIN starts : starts[i].index = i - 1
  BY <1>1, <1>7 DEF FramesTrue
<1>10. ASSUME NEW i \in DOMAIN frames, frames[i].type = "content_block_delta"
       PROVE  /\ frames[i].index < Len(starts)
              /\ starts[frames[i].index + 1].kind = frames[i].kind
  <2>1. frames[i].index \in 0 .. next - 1 /\ starts[frames[i].index + 1].kind = frames[i].kind
    BY <1>1, <1>10 DEF FramesTrue
  <2>2. \A x \in 0 .. next - 1 : x < next
    BY <1>7
  <2>. QED BY <1>7, <2>1, <2>2
<1>11. \A i \in {k \in DOMAIN events : events[k] = "response.completed"} :
          \A j \in DOMAIN events : j > i => events[j] = "error"
  BY <1>5, <1>6
<1>12. Reads(frames) = FoldLeft(ReadFrame, "new", dialect.frames)
  BY DEF Reads
<1>. HIDE DEF starts
<1>13. /\ Reads(frames) # "bad"
       /\ wire.phase = "closed" => Reads(frames) \in {"over", "failed"}
       /\ \A i \in DOMAIN Starts : Starts[i].index = i - 1
       /\ \A i \in DOMAIN dialect.frames :
             LET f == dialect.frames[i] IN
             f.type = "content_block_delta" =>
                 f.index < Len(Starts) /\ StartOf(f).kind = f.kind
  BY <1>2, <1>3, <1>8, <1>9, <1>10 DEF StartOf
<1>. QED BY <1>11, <1>12, <1>13 DEF WellFormed

\* Whatever the order in which texts, thoughts and the fragments of calls come in,
\* and wherever the stream breaks off, a Claude client and a Responses client can
\* read what they are told (claude_endpoint.rs, responses.rs, backend.rs).
THEOREM ClientsCanRead == DialectsSpec => []WellFormed
BY ClientsAreTold, ToldIsWellFormed, PTL

-----------------------------------------------------------------------------
(* Whether a client that is told to run a tool has been shown one.         *)

Shown(frames) ==
    \E j \in 1 .. Len(StartsIn(frames)) : StartsIn(frames)[j].kind = "tool_use"

AsksForTool(f) == f.type = "message_delta" /\ f.kind = "tool_use"
Asks(frames) == \E i \in 1 .. Len(frames) : AsksForTool(frames[i])

Shape(d) ==
    /\ d = [next |-> d.next, open |-> d.open, stopped |-> d.stopped, failed |-> d.failed,
            usage |-> d.usage, frames |-> d.frames]
    /\ IsSeq(d.frames) /\ IsSeq(StartsIn(d.frames))

\* A block of a tool, and a finish that asks for one, come after its start.
Honest(d) ==
    /\ Shape(d)
    /\ d.open.kind = "tool_use" => Shown(d.frames)
    /\ Asks(d.frames) => Shown(d.frames)

\* What was shown stays shown.
Follows(e, d) == Shown(d.frames) => Shown(e.frames)

\* Frames with one more.
LEMMA ShownMore ==
  ASSUME NEW frames, IsSeq(frames), IsSeq(StartsIn(frames)), NEW f
  PROVE  LET t == Append(frames, f) IN
         /\ IsSeq(t) /\ IsSeq(StartsIn(t))
         /\ Shown(frames) => Shown(t)
         /\ f.type = "content_block_start" /\ f.kind = "tool_use" => Shown(t)
         /\ Asks(t) => Asks(frames) \/ AsksForTool(f)
<1> DEFINE t == Append(frames, f)
           old == StartsIn(frames)
           new == StartsIn(t)
<1>1. new = IF f.type = "content_block_start" THEN Append(old, f) ELSE old
  BY StartsMore
<1>2. /\ IsSeq(t) /\ Len(frames) \in Nat /\ Len(t) = Len(frames) + 1
      /\ t[Len(frames) + 1] = f /\ \A k \in 1 .. Len(frames) : t[k] = frames[k]
  BY SeqMore
<1>3. Shown(frames) = \E j \in 1 .. Len(old) : old[j].kind = "tool_use"
  BY DEF Shown
<1>4. Shown(t) = \E j \in 1 .. Len(new) : new[j].kind = "tool_use"
  BY DEF Shown
<1>. HIDE DEF t, old, new
<1>9. IsSeq(old)
  BY DEF old
<1>5. CASE f.type = "content_block_start"
  <2>1. new = Append(old, f)
    BY <1>1, <1>5
  <2>2. /\ IsSeq(new) /\ Len(old) \in Nat /\ Len(new) = Len(old) + 1
        /\ new[Len(old) + 1] = f /\ \A k \in 1 .. Len(old) : new[k] = old[k]
    BY <1>9, <2>1, SeqMore
  <2>3. /\ Len(old) + 1 \in 1 .. Len(new)
        /\ \A k \in 1 .. Len(old) : k \in 1 .. Len(new)
    BY <2>2
  <2>4. (Shown(frames) => Shown(t)) /\ (f.kind = "tool_use" => Shown(t))
    BY <1>3, <1>4, <2>2, <2>3
  <2>5. ~AsksForTool(f)
    BY <1>5 DEF AsksForTool
  <2>6. Asks(t) => Asks(frames)
    <3>1. ASSUME NEW i \in 1 .. Len(t), AsksForTool(t[i]) PROVE Asks(frames)
      <4>1. i # Len(frames) + 1
        BY <1>2, <2>5, <3>1
      <4>2. i \in 1 .. Len(frames)
        BY <1>2, <4>1
      <4>. QED BY <1>2, <3>1, <4>2 DEF Asks
    <3>. QED BY <3>1 DEF Asks
  <2>. QED BY <1>2, <2>2, <2>4, <2>6 DEF t, new
<1>6. CASE f.type # "content_block_start"
  <2>1. new = old
    BY <1>1, <1>6
  <2>2. Asks(t) => Asks(frames) \/ AsksForTool(f)
    <3>1. ASSUME NEW i \in 1 .. Len(t), AsksForTool(t[i]), ~AsksForTool(f) PROVE Asks(frames)
      <4>1. i # Len(frames) + 1
        BY <1>2, <3>1
      <4>2. i \in 1 .. Len(frames)
        BY <1>2, <4>1
      <4>. QED BY <1>2, <3>1, <4>2 DEF Asks
    <3>. QED BY <3>1 DEF Asks
  <2>. QED BY <1>2, <1>3, <1>4, <1>6, <1>9, <2>1, <2>2 DEF t, new
<1>. QED BY <1>5, <1>6

\* A dialect with one frame more.
LEMMA ToldShape ==
  ASSUME NEW d, Shape(d), NEW f
  PROVE  Told(d, f) = [next |-> d.next, open |-> d.open, stopped |-> d.stopped,
                       failed |-> d.failed, usage |-> d.usage,
                       frames |-> Append(d.frames, f)]
<1>1. d = [next |-> d.next, open |-> d.open, stopped |-> d.stopped, failed |-> d.failed,
           usage |-> d.usage, frames |-> d.frames]
  BY DEF Shape
<1>. QED BY <1>1, SMTT(60) DEF Told

\* It is as honest as the frame.
LEMMA ToldHonest ==
  ASSUME NEW d, Honest(d), NEW f, AsksForTool(f) => Shown(d.frames)
  PROVE  /\ Honest(Told(d, f)) /\ Follows(Told(d, f), d) /\ Told(d, f).open = d.open
         /\ f.type = "content_block_start" /\ f.kind = "tool_use" => Shown(Told(d, f).frames)
<1> DEFINE t == Told(d, f)
           fr == Append(d.frames, f)
<1>1. t = [next |-> d.next, open |-> d.open, stopped |-> d.stopped, failed |-> d.failed,
           usage |-> d.usage, frames |-> fr]
  BY ToldShape DEF Honest
<1>2. /\ IsSeq(fr) /\ IsSeq(StartsIn(fr))
      /\ Shown(d.frames) => Shown(fr)
      /\ f.type = "content_block_start" /\ f.kind = "tool_use" => Shown(fr)
      /\ Asks(fr) => Asks(d.frames) \/ AsksForTool(f)
  BY ShownMore DEF Honest, Shape
<1>. HIDE DEF t, fr
<1>3. t.open = d.open /\ t.frames = fr
  BY <1>1
<1>4. Shape(t)
  BY <1>1, <1>2 DEF Shape
<1>5. Honest(t) /\ Follows(t, d)
  BY <1>2, <1>3, <1>4 DEF Honest, Follows
<1>. QED BY <1>2, <1>3, <1>5 DEF t

\* Any other field of it may change, and no block be open.
LEMMA OtherHonest ==
  ASSUME NEW d, Honest(d), NEW v
  PROVE  /\ Honest([d EXCEPT !.stopped = v]) /\ [d EXCEPT !.stopped = v].frames = d.frames
         /\ Honest([d EXCEPT !.failed = v]) /\ [d EXCEPT !.failed = v].frames = d.frames
         /\ Honest([d EXCEPT !.usage = v]) /\ [d EXCEPT !.usage = v].frames = d.frames
         /\ Honest([d EXCEPT !.open = NoBlock]) /\ [d EXCEPT !.open = NoBlock].frames = d.frames
<1>1. d = [next |-> d.next, open |-> d.open, stopped |-> d.stopped, failed |-> d.failed,
           usage |-> d.usage, frames |-> d.frames]
  BY DEF Honest, Shape
<1>2. /\ IsSeq(d.frames) /\ IsSeq(StartsIn(d.frames))
      /\ d.open.kind = "tool_use" => Shown(d.frames)
      /\ Asks(d.frames) => Shown(d.frames)
  BY DEF Honest, Shape
<1>3. ASSUME NEW e, e.frames = d.frames, e.open = d.open \/ e.open = NoBlock,
             e = [next |-> e.next, open |-> e.open, stopped |-> e.stopped,
                  failed |-> e.failed, usage |-> e.usage, frames |-> e.frames]
      PROVE  Honest(e)
  <2>1. e.open.kind = "tool_use" => Shown(d.frames)
    BY <1>2, <1>3, NoBlockIs
  <2>. QED BY <1>2, <1>3, <2>1 DEF Honest, Shape
<1>4. Honest([d EXCEPT !.stopped = v]) /\ [d EXCEPT !.stopped = v].frames = d.frames
  <2> DEFINE e == [d EXCEPT !.stopped = v]
  <2>1. e = [next |-> d.next, open |-> d.open, stopped |-> v, failed |-> d.failed,
             usage |-> d.usage, frames |-> d.frames]
    BY ONLY <1>1
  <2>. HIDE DEF e
  <2>. QED BY <1>3, <2>1 DEF e
<1>5. Honest([d EXCEPT !.failed = v]) /\ [d EXCEPT !.failed = v].frames = d.frames
  <2> DEFINE e == [d EXCEPT !.failed = v]
  <2>1. e = [next |-> d.next, open |-> d.open, stopped |-> d.stopped, failed |-> v,
             usage |-> d.usage, frames |-> d.frames]
    BY ONLY <1>1
  <2>. HIDE DEF e
  <2>. QED BY <1>3, <2>1 DEF e
<1>6. Honest([d EXCEPT !.usage = v]) /\ [d EXCEPT !.usage = v].frames = d.frames
  <2> DEFINE e == [d EXCEPT !.usage = v]
  <2>1. e = [next |-> d.next, open |-> d.open, stopped |-> d.stopped, failed |-> d.failed,
             usage |-> v, frames |-> d.frames]
    BY ONLY <1>1
  <2>. HIDE DEF e
  <2>. QED BY <1>3, <2>1 DEF e
<1>7. Honest([d EXCEPT !.open = NoBlock]) /\ [d EXCEPT !.open = NoBlock].frames = d.frames
  <2> DEFINE e == [d EXCEPT !.open = NoBlock]
  <2>1. e = [next |-> d.next, open |-> NoBlock, stopped |-> d.stopped, failed |-> d.failed,
             usage |-> d.usage, frames |-> d.frames]
    BY ONLY <1>1
  <2>. HIDE DEF e
  <2>. QED BY <1>3, <2>1 DEF e
<1>. QED BY <1>4, <1>5, <1>6, <1>7

\* Closing a block asks for no tool.
LEMMA CloseBlockHonest ==
  ASSUME NEW d, Honest(d)
  PROVE  Honest(CloseBlock(d)) /\ Follows(CloseBlock(d), d)
<1>1. CASE d.open = NoBlock
  BY <1>1 DEF CloseBlock, Follows
<1>2. CASE d.open # NoBlock
  <2> DEFINE c == [d EXCEPT !.open = NoBlock]
             f == Frame("content_block_stop", d.open.index, "", "", "", <<>>)
  <2>1. CloseBlock(d) = Told(c, f)
    BY <1>2 DEF CloseBlock
  <2>2. f.type = "content_block_stop"
    BY DEF Frame
  <2>3. Honest(c) /\ c.frames = d.frames
    BY OtherHonest
  <2>. HIDE DEF c, f
  <2>4. Honest(Told(c, f)) /\ Follows(Told(c, f), c)
    BY <2>2, <2>3, ToldHonest DEF AsksForTool
  <2>. QED BY <2>1, <2>3, <2>4 DEF Follows
<1>. QED BY <1>1, <1>2

\* A block of a tool is shown by its start.
LEMMA BeginHonest ==
  ASSUME NEW d, Honest(d), NEW kind, NEW part, NEW id, NEW name
  PROVE  LET b == Begin(d, kind, part, id, name) IN
         /\ Honest(b) /\ Follows(b, d)
         /\ kind = "tool_use" => Shown(b.frames)
<1> DEFINE c == CloseBlock(d)
           o == [index |-> c.next, kind |-> kind, part |-> part]
           m == c.next + 1
           e == [c EXCEPT !.next = m, !.open = o]
           f == Frame("content_block_start", c.next, kind, id, name, <<>>)
           fr == Append(c.frames, f)
           b == Begin(d, kind, part, id, name)
<1>1. Honest(c) /\ Follows(c, d)
  BY CloseBlockHonest
<1>2. b = Told(e, f)
  BY DEF Begin
<1>3. o.kind = kind
  OBVIOUS
<1>4. f.type = "content_block_start" /\ f.kind = kind
  BY DEF Frame
<1>. HIDE DEF c, o, m
<1>5. e = [next |-> m, open |-> o, stopped |-> c.stopped, failed |-> c.failed,
           usage |-> c.usage, frames |-> c.frames]
  <2>1. c = [next |-> c.next, open |-> c.open, stopped |-> c.stopped, failed |-> c.failed,
             usage |-> c.usage, frames |-> c.frames]
    BY <1>1 DEF Honest, Shape
  <2>. QED BY <2>1, OtherBlock, ZenonT(60)
<1>. HIDE DEF e, f, b
<1>6. b = [next |-> m, open |-> o, stopped |-> c.stopped, failed |-> c.failed,
           usage |-> c.usage, frames |-> fr]
  BY <1>2, <1>5 DEF Told
<1>7. /\ IsSeq(fr) /\ IsSeq(StartsIn(fr))
      /\ Shown(c.frames) => Shown(fr)
      /\ f.kind = "tool_use" => Shown(fr)
      /\ Asks(fr) => Asks(c.frames) \/ AsksForTool(f)
  BY <1>1, <1>4, ShownMore DEF Honest, Shape
<1>8. ~AsksForTool(f)
  BY <1>4 DEF AsksForTool
<1>9. Asks(c.frames) => Shown(c.frames)
  BY <1>1 DEF Honest
<1>. HIDE DEF fr
<1>10. b.open = o /\ b.frames = fr
  BY <1>6
<1>11. Shape(b)
  BY <1>6, <1>7 DEF Shape
<1>12. Honest(b) /\ (kind = "tool_use" => Shown(b.frames))
  BY <1>3, <1>4, <1>7, <1>8, <1>9, <1>10, <1>11 DEF Honest
<1>13. Follows(b, d)
  BY <1>1, <1>7, <1>10 DEF Follows
<1>. QED BY <1>12, <1>13 DEF b

\* A delta asks for no tool, whatever block it is told in.
LEMMA DeltaHonest ==
  ASSUME NEW d, Honest(d), NEW kind, NEW value
  PROVE  Honest(BlockDelta(d, kind, value)) /\ Follows(BlockDelta(d, kind, value), d)
<1> DEFINE f == Frame("content_block_delta", d.open.index, kind, "", "", value)
<1>1. BlockDelta(d, kind, value) = Told(d, f)
  BY DEF BlockDelta
<1>2. f.type = "content_block_delta"
  BY DEF Frame
<1>. HIDE DEF f
<1>3. ~AsksForTool(f)
  BY <1>2 DEF AsksForTool
<1>. QED BY <1>1, <1>3, ToldHonest

\* Nor does a text, though it may close a block and begin another.
LEMMA TextHonest ==
  ASSUME NEW d, Honest(d), NEW kind, NEW piece
  PROVE  Honest(TextDelta(d, kind, piece)) /\ Follows(TextDelta(d, kind, piece), d)
<1> DEFINE b == ContinueBlock(d, kind)
<1>1. Honest(b) /\ Follows(b, d)
  <2>1. CASE d.open.kind = kind
    BY <2>1 DEF ContinueBlock, Follows
  <2>2. CASE d.open.kind # kind
    BY <2>2, BeginHonest DEF ContinueBlock
  <2>. QED BY <2>1, <2>2
<1>2. CASE piece = 0
  BY <1>2 DEF TextDelta, Follows
<1>3. CASE piece # 0
  <2>1. TextDelta(d, kind, piece) = BlockDelta(b, kind, <<piece>>)
    BY <1>3 DEF TextDelta
  <2>. HIDE DEF b
  <2>2. LET t == BlockDelta(b, kind, <<piece>>) IN Honest(t) /\ Follows(t, b)
    BY <1>1, DeltaHonest
  <2>. QED BY <1>1, <2>1, <2>2 DEF Follows
<1>. QED BY <1>2, <1>3

\* A fragment of a call shows its tool.
LEMMA ToolUseHonest ==
  ASSUME NEW d, Honest(d), NEW call
  PROVE  LET t == ToolUse(d, call) IN Honest(t) /\ Follows(t, d) /\ Shown(t.frames)
<1> DEFINE b == IF d.open.kind = "tool_use" /\ d.open.part = call.index THEN d
                ELSE Begin(d, "tool_use", call.index, call.id, call.name)
<1>1. Honest(b) /\ Follows(b, d) /\ Shown(b.frames)
  <2>1. CASE d.open.kind = "tool_use" /\ d.open.part = call.index
    BY <2>1 DEF Follows, Honest
  <2>2. CASE ~(d.open.kind = "tool_use" /\ d.open.part = call.index)
    BY <2>2, BeginHonest
  <2>. QED BY <2>1, <2>2
<1>2. ToolUse(d, call) = BlockDelta(b, "tool_use", call.args)
  BY DEF ToolUse
<1>. HIDE DEF b
<1>3. LET t == BlockDelta(b, "tool_use", call.args) IN Honest(t) /\ Follows(t, b)
  BY <1>1, DeltaHonest
<1>. QED BY <1>1, <1>2, <1>3 DEF Follows

\* A message that is ended asks for a tool only if one was shown.
LEMMA StopHonest ==
  ASSUME NEW d, Honest(d), NEW reason, reason = "tool_use" => Shown(d.frames)
  PROVE  Honest(StopMessage(d, reason)) /\ Follows(StopMessage(d, reason), d)
<1> DEFINE e == [d EXCEPT !.stopped = TRUE]
           c == CloseBlock(e)
           f == Frame("message_delta", -1, reason, "", "", d.usage)
           h == Frame("message_stop", -1, "", "", "", <<>>)
           t == Told(c, f)
           u == Told(t, h)
<1>1. StopMessage(d, reason) = u
  BY DEF StopMessage
<1>2. f.kind = reason /\ h.type = "message_stop"
  BY DEF Frame
<1>3. Honest(e) /\ e.frames = d.frames
  BY OtherHonest
<1>. HIDE DEF e, f, h
<1>4. Honest(c) /\ Follows(c, e)
  BY <1>3, CloseBlockHonest
<1>. HIDE DEF c
<1>5. AsksForTool(f) => Shown(c.frames)
  BY <1>2, <1>3, <1>4 DEF AsksForTool, Follows
<1>6. Honest(t) /\ Follows(t, c)
  BY <1>4, <1>5, ToldHonest
<1>. HIDE DEF t
<1>7. ~AsksForTool(h)
  BY <1>2 DEF AsksForTool
<1>8. Honest(u) /\ Follows(u, t)
  BY <1>6, <1>7, ToldHonest
<1>. HIDE DEF u
<1>. QED BY <1>1, <1>3, <1>4, <1>6, <1>8 DEF Follows

\* A connection that breaks, and an upstream that is through.
LEMMA EndHonest ==
  ASSUME NEW d, Honest(d)
  PROVE  /\ Honest(DialectFinish(d)) /\ Follows(DialectFinish(d), d)
         /\ LET r == DialectFinish(DialectRefusal(d)) IN Honest(r) /\ Follows(r, d)
<1>1. ASSUME NEW e, Honest(e) PROVE Honest(DialectFinish(e)) /\ Follows(DialectFinish(e), e)
  <2>1. Honest(StopMessage(e, "end_turn")) /\ Follows(StopMessage(e, "end_turn"), e)
    BY <1>1, StopHonest
  <2>2. Follows(e, e)
    BY DEF Follows
  <2>3. DialectFinish(e) = e \/ DialectFinish(e) = StopMessage(e, "end_turn")
    BY DEF DialectFinish
  <2>. QED BY <1>1, <2>1, <2>2, <2>3
<1> DEFINE e == [d EXCEPT !.failed = TRUE]
           f == Frame("error", -1, "", "", "", <<>>)
           r == Told(e, f)
<1>2. DialectRefusal(d) = r
  BY DEF DialectRefusal
<1>3. f.type = "error"
  BY DEF Frame
<1>4. Honest(e) /\ e.frames = d.frames
  BY OtherHonest
<1>. HIDE DEF e, f
<1>5. ~AsksForTool(f)
  BY <1>3 DEF AsksForTool
<1>6. Honest(r) /\ Follows(r, e)
  BY <1>4, <1>5, ToldHonest
<1>. HIDE DEF r
<1>. QED BY <1>1, <1>2, <1>4, <1>6 DEF Follows

\* The calls of a chunk show their tools.
LEMMA ToolsHonest ==
  ASSUME NEW d, Honest(d), NEW calls, IsSeq(calls)
  PROVE  LET t == FoldLeft(ToolUse, d, calls) IN
         Honest(t) /\ Follows(t, d) /\ (calls # <<>> => Shown(t.frames))
<1> DEFINE n == Len(calls)
<1>1. n \in Nat /\ (calls # <<>> => n > 0)
  BY DEF IsSeq
<1>. HIDE DEF n
<1>2. PICK g : Steps("tools", d, calls, n, g) /\ FoldLeft(ToolUse, d, calls) = g[n]
  BY ToolsSteps DEF n
<1> DEFINE Fine == {k \in 0 .. n : /\ Honest(g[k]) /\ Follows(g[k], d)
                                   /\ k > 0 => Shown(g[k].frames)}
<1>3. 0 \in Fine
  BY <1>1, <1>2 DEF Steps, Follows
<1>4. ASSUME NEW k \in 0 .. n - 1, k \in Fine PROVE k + 1 \in Fine
  <2>1. g[k + 1] = ToolUse(g[k], calls[k + 1])
    BY <1>2 DEF Steps, FoldStep
  <2>2. Honest(g[k + 1]) /\ Follows(g[k + 1], g[k]) /\ Shown(g[k + 1].frames)
    BY <1>4, <2>1, ToolUseHonest
  <2>3. k + 1 \in 0 .. n
    BY <1>1
  <2>. QED BY <1>4, <2>2, <2>3 DEF Follows
<1>. HIDE DEF Fine
<1>5. n \in Fine
  <2>1. \A k \in 0 .. n : k \in Fine
    BY <1>1, <1>2, <1>3, <1>4, StepsKeep
  <2>. QED BY <1>1, <2>1
<1>. QED BY <1>1, <1>2, <1>5 DEF Fine

\* A chunk that finishes with calls comes with one, or after one.
LEMMA ChunkHonest ==
  ASSUME NEW d, Honest(d), NEW chunk, IsSeq(chunk.calls),
         chunk.finish = "tool_calls" => Shown(d.frames) \/ chunk.calls # <<>>
  PROVE  LET t == DialectChunk(d, chunk) IN
         Honest(t) /\ Follows(t, d) /\ (chunk.calls # <<>> => Shown(t.frames))
<1> DEFINE a == TextDelta(d, "text", chunk.content)
           b == TextDelta(a, "thinking", chunk.reasoning)
           tools == FoldLeft(ToolUse, b, chunk.calls)
           counted == IF chunk.usage = NoUsage THEN tools
                      ELSE [tools EXCEPT !.usage = chunk.usage]
           c == CloseBlock(counted)
           r == ClaudeReason(chunk.finish)
           t == StopMessage(c, r)
<1>1. DialectChunk(d, chunk) = IF chunk.finish = "" THEN counted ELSE t
  BY DEF DialectChunk
<1>2. r = "tool_use" => chunk.finish = "tool_calls"
  BY DEF ClaudeReason
<1>3. Honest(a) /\ Follows(a, d)
  BY TextHonest
<1>. HIDE DEF a, r
<1>4. Honest(b) /\ Follows(b, a)
  BY <1>3, TextHonest
<1>. HIDE DEF b
<1>5. Honest(tools) /\ Follows(tools, b) /\ (chunk.calls # <<>> => Shown(tools.frames))
  BY <1>4, ToolsHonest
<1>. HIDE DEF tools
<1>6. Honest(counted) /\ counted.frames = tools.frames
  BY <1>5, OtherHonest
<1>. HIDE DEF counted
<1>7. /\ Follows(counted, d) /\ (chunk.calls # <<>> => Shown(counted.frames))
  BY <1>3, <1>4, <1>5, <1>6 DEF Follows
<1>8. Honest(c) /\ Follows(c, counted)
  BY <1>6, CloseBlockHonest
<1>. HIDE DEF c
<1>9. r = "tool_use" => Shown(c.frames)
  BY <1>2, <1>7, <1>8 DEF Follows
<1>10. Honest(t) /\ Follows(t, c)
  BY <1>8, <1>9, StopHonest
<1>. HIDE DEF t
<1>11. Follows(t, d) /\ (chunk.calls # <<>> => Shown(t.frames))
  BY <1>7, <1>8, <1>10 DEF Follows
<1>. QED BY <1>1, <1>6, <1>7, <1>10, <1>11

-----------------------------------------------------------------------------
(* How a chat client puts calls together.                                  *)

CallOK(c) == c = [index |-> c.index, id |-> c.id, name |-> c.name, args |-> c.args]

\* The calls of an answer are numbered from 0.
Numbered(calls) ==
    IsSeq(calls) /\ \A j \in 1 .. Len(calls) : CallOK(calls[j]) /\ calls[j].index = j - 1

\* The calls of a sequence up to a number are one more with the next number.
LEMMA NumberedMore ==
  ASSUME NEW calls, Numbered(calls), NEW call, CallOK(call),
         call.index \in 0 .. Len(calls)
  PROVE  LET t == AssembleCall(calls, call) IN
         /\ Numbered(t)
         /\ Len(t) = IF call.index = Len(calls) THEN Len(calls) + 1 ELSE Len(calls)
<1> DEFINE n == Len(calls)
           I == {i \in 1 .. n : calls[i].index = call.index}
           at == IF I # {} THEN Min(I) ELSE 0
<1>1. n \in Nat /\ IsSeq(calls) /\ DOMAIN calls = 1 .. n
  BY SeqMore DEF Numbered
<1>2. \A j \in 1 .. n : CallOK(calls[j]) /\ calls[j].index = j - 1
  BY DEF Numbered
<1>3. AssembleCall(calls, call) =
          IF at = 0 THEN Append(calls, call)
          ELSE [calls EXCEPT ![at].args = @ \o call.args]
  BY DEF AssembleCall, SelectInSeq
<1>4. CASE call.index = n
  <2>1. I = {}
    BY <1>1, <1>2, <1>4
  <2>2. AssembleCall(calls, call) = Append(calls, call)
    BY <1>3, <2>1
  <2> DEFINE t == Append(calls, call)
  <2>3. /\ IsSeq(t) /\ Len(t) = n + 1 /\ t[n + 1] = call
        /\ \A k \in 1 .. n : t[k] = calls[k]
    BY <1>1, SeqMore
  <2>. HIDE DEF t, n, I, at
  <2>4. ASSUME NEW j \in 1 .. n + 1 PROVE CallOK(t[j]) /\ t[j].index = j - 1
    <3>1. CASE j = n + 1
      BY <1>1, <1>4, <2>3, <3>1
    <3>2. CASE j # n + 1
      <4>1. j \in 1 .. n
        BY <1>1, <3>2
      <4>. QED BY <1>2, <2>3, <4>1
    <3>. QED BY <3>1, <3>2
  <2>5. Numbered(t)
    BY <2>3, <2>4 DEF Numbered
  <2>. QED BY <1>4, <2>2, <2>3, <2>5 DEF t, n
<1>5. CASE call.index # n
  <2> DEFINE k == call.index + 1
  <2>1. k \in 1 .. n /\ k # 0
    BY <1>1, <1>5
  <2>2. I = {k}
    <3>1. \A i \in 1 .. n : i - 1 = call.index <=> i = k
      BY <1>1, <1>5
    <3>. QED BY <1>2, <2>1, <3>1
  <2>. HIDE DEF I, n, k
  <2>3. at = k
    BY <2>1, <2>2 DEF Min
  <2>. HIDE DEF at
  <2> DEFINE c == [calls[k] EXCEPT !.args = @ \o call.args]
             t == [calls EXCEPT ![k] = c]
  <2>4. AssembleCall(calls, call) = t
    BY <1>3, <2>1, <2>3
  <2>5. CallOK(c) /\ c.index = calls[k].index
    <3> DEFINE x == calls[k]
               v == x.args \o call.args
    <3>1. x = [index |-> x.index, id |-> x.id, name |-> x.name, args |-> x.args]
      BY <1>2, <2>1 DEF CallOK
    <3>2. c = [x EXCEPT !.args = v]
      OBVIOUS
    <3>. HIDE DEF c, x, v
    <3>3. c = [index |-> x.index, id |-> x.id, name |-> x.name, args |-> v]
      BY ONLY <3>1, <3>2
    <3>. QED BY <3>3 DEF CallOK, x
  <2>. HIDE DEF c
  <2>6. IsSeq(t) /\ Len(t) = n
    <3>1. PICK X : calls \in Seq(X)
      BY <1>1 DEF IsSeq
    <3> DEFINE Y == X \union {c}
    <3>2. calls \in Seq(Y) /\ c \in Y
      BY <3>1
    <3>. HIDE DEF Y
    <3>3. t \in Seq(Y) /\ Len(t) = Len(calls)
      BY <1>1, <2>1, <3>2
    <3>. QED BY <3>3 DEF IsSeq, n
  <2>7. \A j \in 1 .. n : t[j] = IF j = k THEN c ELSE calls[j]
    BY <1>1, <2>1
  <2>. HIDE DEF t
  <2>8. \A j \in 1 .. n : CallOK(t[j]) /\ t[j].index = j - 1
    BY <1>2, <2>5, <2>7
  <2>9. Numbered(t)
    BY <2>6, <2>8 DEF Numbered
  <2>. QED BY <1>5, <2>4, <2>6, <2>9 DEF n
<1>. QED BY <1>4, <1>5

AssembledAfter(base, F, s, T) ==
    IF T = {} THEN base ELSE AssembleCall(F[T \ {Max(T)}], s[Max(T)])

\* The calls of a chunk are put together one after another.
LEMMA AssembleSteps ==
  ASSUME NEW base, NEW s, IsSeq(s)
  PROVE  \E g : Steps("assemble", base, s, Len(s), g) /\ FoldLeft(AssembleCall, base, s) = g[Len(s)]
<1> DEFINE Is(F) == F = [T \in SUBSET DOMAIN s |-> AssembledAfter(base, F, s, T)]
<1>1. FoldLeft(AssembleCall, base, s) = (CHOOSE F : Is(F))[DOMAIN s]
  BY DEF FoldLeft, MapThenFoldSet, AssembledAfter
<1>2. DOMAIN s = 1 .. Len(s) /\ Len(s) \in Nat
  BY DEF IsSeq
<1>3. \A F, T : AssembledAfter(base, F, s, T) = FoldAfter("assemble", base, F, s, T)
  BY DEF AssembledAfter, FoldAfter, FoldStep
<1>4. \A F : Is(F) <=> IsFold("assemble", base, F, s, Len(s))
  BY <1>2, <1>3 DEF IsFold
<1>. HIDE DEF Is
<1>5. PICK H : /\ IsFold("assemble", base, H, s, Len(s))
               /\ FoldLeft(AssembleCall, base, s) = H[1 .. Len(s)]
  <2>1. \E F : Is(F)
    BY <1>2, <1>4, FoldExists
  <2>. QED BY <1>1, <1>2, <1>4, <2>1
<1>. QED BY <1>2, <1>5, FoldSteps

\* Folds of none and of one.
LEMMA FoldsOfFew ==
  ASSUME NEW base, NEW x
  PROVE  /\ FoldLeft(AssembleCall, base, <<>>) = base
         /\ FoldLeft(AssembleCall, base, <<x>>) = AssembleCall(base, x)
         /\ FoldLeft(NormalizeCall, base, <<x>>) = NormalizeCall(base, x)
         /\ FoldLeft(Relay, base, <<>>) = base
         /\ FoldLeft(Relay, base, <<x>>) = Relay(base, x)
<1> DEFINE one == <<x>>
<1>1. IsSeq(one) /\ Len(one) = 1 /\ one[1] = x
  BY OneIs
<1>2. IsSeq(<<>>) /\ Len(<<>>) = 0
  BY DEF IsSeq
<1>3. 0 \in 0 .. 1 - 1 /\ 0 + 1 = 1
  OBVIOUS
<1>. HIDE DEF one
<1>4. ASSUME NEW fold, NEW g, Steps(fold, base, one, 1, g)
      PROVE  g[1] = FoldStep(fold, base, x)
  <2>1. g[0] = base /\ g[0 + 1] = FoldStep(fold, g[0], one[0 + 1])
    BY <1>3, <1>4 DEF Steps
  <2>. QED BY <1>1, <1>3, <2>1
<1>5. FoldLeft(AssembleCall, base, <<>>) = base
  <2>1. \E g : Steps("assemble", base, <<>>, 0, g) /\ FoldLeft(AssembleCall, base, <<>>) = g[0]
    BY ONLY <1>2, AssembleSteps
  <2>. QED BY <2>1 DEF Steps
<1>6. FoldLeft(Relay, base, <<>>) = base
  <2>1. \E g : Steps("chunks", base, <<>>, 0, g) /\ FoldLeft(Relay, base, <<>>) = g[0]
    BY ONLY <1>2, ChunksSteps
  <2>. QED BY <2>1 DEF Steps
<1>7. FoldLeft(AssembleCall, base, one) = AssembleCall(base, x)
  <2>1. \E g : Steps("assemble", base, one, 1, g) /\ FoldLeft(AssembleCall, base, one) = g[1]
    BY ONLY <1>1, AssembleSteps
  <2>. QED BY <1>4, <2>1 DEF FoldStep
<1>8. FoldLeft(NormalizeCall, base, one) = NormalizeCall(base, x)
  <2>1. \E g : Steps("calls", base, one, 1, g) /\ FoldLeft(NormalizeCall, base, one) = g[1]
    BY ONLY <1>1, CallsSteps
  <2>. QED BY <1>4, <2>1 DEF FoldStep
<1>9. FoldLeft(Relay, base, one) = Relay(base, x)
  <2>1. \E g : Steps("chunks", base, one, 1, g) /\ FoldLeft(Relay, base, one) = g[1]
    BY ONLY <1>1, ChunksSteps
  <2>. QED BY <1>4, <2>1 DEF FoldStep
<1>. QED BY <1>5, <1>6, <1>7, <1>8, <1>9 DEF one

\* One chunk more is relayed after the others.
LEMMA RelayMore ==
  ASSUME NEW base, NEW chunks, IsSeq(chunks), NEW c
  PROVE  FoldLeft(Relay, base, Append(chunks, c)) = Relay(FoldLeft(Relay, base, chunks), c)
<1> DEFINE n == Len(chunks)
           t == Append(chunks, c)
<1>1. /\ n \in Nat /\ IsSeq(t) /\ Len(t) = n + 1 /\ t[n + 1] = c
      /\ \A k \in 1 .. n : t[k] = chunks[k]
  BY SeqMore
<1>2. PICK g : Steps("chunks", base, chunks, n, g) /\ FoldLeft(Relay, base, chunks) = g[n]
  BY ChunksSteps
<1>. HIDE DEF n, t
<1>3. PICK h : Steps("chunks", base, t, n + 1, h) /\ FoldLeft(Relay, base, t) = h[n + 1]
  BY <1>1, ChunksSteps
<1>4. h[n + 1] = FoldStep("chunks", g[n], c)
  BY <1>1, <1>2, <1>3, StepsMore
<1>. QED BY <1>2, <1>3, <1>4 DEF FoldStep, t

-----------------------------------------------------------------------------
(* What the chat client has put together, and the Claude client was shown. *)

\* n calls are put together in order, and if there are any a tool was shown.
ToldOf(d, calls, n) ==
    /\ Honest(d) /\ Numbered(calls) /\ Len(calls) = n
    /\ n > 0 => Shown(d.frames)

\* The chunks of the translators: with no call, or with one.
Wordless(c) == ChunkOK(c) /\ c.calls = <<>>

\* A chunk that brings no call.
LEMMA RelayText ==
  ASSUME NEW acc, NEW n \in Nat, ToldOf(acc.dialect, acc.chat.calls, n),
         NEW c, Wordless(c), c.finish = "tool_calls" => n > 0
  PROVE  ToldOf(Relay(acc, c).dialect, Relay(acc, c).chat.calls, n)
<1> DEFINE m == Normalize(acc.seen, c)
           k == [c EXCEPT !.calls = m.calls]
           d == DialectChunk(acc.dialect, k)
           ev == acc.events \o ResponsesEvents(k)
           ch == Assemble(acc.chat, k)
           then == [seen |-> m.seen, dialect |-> d, events |-> ev, chat |-> ch]
<1>1. m.calls = <<>> /\ IsSeq(<<>>)
  BY NormalizeKeeps DEF Wordless, ChunkOK
<1>2. Relay(acc, c) = IF ~Reducible(k) THEN acc ELSE then
  BY DEF Relay
<1>. HIDE DEF m
<1>3. k.finish = c.finish /\ k.calls = <<>>
  BY <1>1 DEF Wordless, ChunkOK
<1>. HIDE DEF k
<1>4. Honest(d) /\ Follows(d, acc.dialect)
  BY <1>1, <1>3, ChunkHonest DEF ToldOf
<1>5. ch.calls = acc.chat.calls
  <2>1. ch.calls = FoldLeft(AssembleCall, acc.chat.calls, k.calls)
    BY DEF Assemble
  <2>. HIDE DEF ch
  <2>. QED BY <1>3, <2>1, FoldsOfFew
<1>6. then.dialect = d /\ then.chat = ch
  OBVIOUS
<1>. HIDE DEF d, ch, then
<1>7. ToldOf(then.dialect, then.chat.calls, n)
  BY <1>4, <1>5, <1>6 DEF ToldOf, Follows
<1>. QED BY <1>2, <1>7

\* A chunk with one call, which the client knows or which is the next one.
LEMMA RelayTool ==
  ASSUME NEW acc, NEW n \in Nat, ToldOf(acc.dialect, acc.chat.calls, n),
         NEW i \in 0 .. n, NEW id, NEW name, NEW args
  PROVE  LET r == Relay(acc, Tool(Call(i, id, name, args))) IN
         ToldOf(r.dialect, r.chat.calls, IF i = n THEN n + 1 ELSE n)
<1> DEFINE call == Call(i, id, name, args)
           c == Tool(call)
           m == Normalize(acc.seen, c)
           k == [c EXCEPT !.calls = m.calls]
           d == DialectChunk(acc.dialect, k)
           ev == acc.events \o ResponsesEvents(k)
           ch == Assemble(acc.chat, k)
           then == [seen |-> m.seen, dialect |-> d, events |-> ev, chat |-> ch]
           next == IF i = n THEN n + 1 ELSE n
<1>1. Relay(acc, c) = IF ~Reducible(k) THEN acc ELSE then
  BY DEF Relay
<1>2. CallOK(call) /\ call.index = i
  BY DEF Call, CallOK
<1>. HIDE DEF call
<1>3. c.calls = <<call>> /\ c.finish = "" /\ ChunkOK(c)
  <2>1. c.calls = <<call>>
    BY DEF Tool, Empty
  <2>. HIDE DEF c
  <2>. QED BY <2>1, ChunksAre DEF GoesOn, c
<1>4. \E x : m.calls = <<x>> /\ CallOK(x) /\ x.index = i
  <2> DEFINE base == [seen |-> acc.seen, calls |-> <<>>]
  <2>1. m = FoldLeft(NormalizeCall, base, <<call>>)
    BY <1>3 DEF Normalize
  <2>. HIDE DEF m
  <2>2. m = NormalizeCall(base, call)
    BY <2>1, FoldsOfFew
  <2>3. \E a, b : NormalizeCall(base, call).calls = Append(<<>>, [call EXCEPT !.id = a, !.name = b])
    BY DEF NormalizeCall
  <2>4. PICK a, b : m.calls = Append(<<>>, [call EXCEPT !.id = a, !.name = b])
    BY <2>2, <2>3
  <2> DEFINE x == [call EXCEPT !.id = a, !.name = b]
  <2>5. x = [index |-> i, id |-> a, name |-> b, args |-> call.args]
    <3>1. call = [index |-> i, id |-> call.id, name |-> call.name, args |-> call.args]
      BY <1>2 DEF CallOK
    <3> DEFINE y == [call EXCEPT !.id = a]
    <3>2. y = [index |-> i, id |-> a, name |-> call.name, args |-> call.args]
      BY ONLY <3>1
    <3>. HIDE DEF y
    <3>3. [y EXCEPT !.name = b] = [index |-> i, id |-> a, name |-> b, args |-> call.args]
      BY ONLY <3>2
    <3>. QED BY <3>3 DEF y
  <2>6. CallOK(x) /\ x.index = i
    <3>. HIDE DEF x
    <3>. QED BY <2>5 DEF CallOK
  <2>7. m.calls = <<x>>
    <3>. HIDE DEF x
    <3>1. Append(<<>>, x) = <<x>>
      OBVIOUS
    <3>. QED BY <2>4, <3>1 DEF x
  <2>. HIDE DEF x
  <2>. QED BY <2>6, <2>7
<1>5. PICK x : m.calls = <<x>> /\ CallOK(x) /\ x.index = i
  BY <1>4
<1>. HIDE DEF m, c
<1>6. k.finish = "" /\ k.calls = <<x>>
  BY <1>3, <1>5 DEF ChunkOK
<1>. HIDE DEF k
<1>7. IsSeq(k.calls) /\ k.calls # <<>>
  <2> DEFINE one == <<x>>
  <2>1. IsSeq(one) /\ Len(one) = 1
    BY OneIs
  <2>2. k.calls = one
    BY <1>6
  <2>. HIDE DEF one
  <2>3. one # <<>>
    BY <2>1
  <2>. QED BY <2>1, <2>2, <2>3
<1>8. Reducible(k)
  <2>1. Empty.calls = <<>>
    BY DEF Empty
  <2>. QED BY <1>7, <2>1 DEF Reducible
<1>9. Honest(d) /\ Shown(d.frames)
  BY <1>6, <1>7, ChunkHonest DEF ToldOf
<1>10. Numbered(ch.calls) /\ Len(ch.calls) = next
  <2>1. ch.calls = FoldLeft(AssembleCall, acc.chat.calls, k.calls)
    BY DEF Assemble
  <2>. HIDE DEF ch
  <2>2. ch.calls = AssembleCall(acc.chat.calls, x)
    BY <1>6, <2>1, FoldsOfFew
  <2>. QED BY <1>5, <2>2, NumberedMore DEF ToldOf
<1>11. then.dialect = d /\ then.chat = ch
  OBVIOUS
<1>. HIDE DEF d, ch, then
<1>12. ToldOf(then.dialect, then.chat.calls, next)
  BY <1>9, <1>10, <1>11 DEF ToldOf
<1>. QED BY <1>1, <1>8, <1>12 DEF c, call

-----------------------------------------------------------------------------
(* The calls an upstream has made.                                         *)

IsCall(p) == p.kind = "call" /\ p.name # ""
CallsIn(parts) == {j \in DOMAIN parts : IsCall(parts[j])}
Count(parts) == Cardinality(CallsIn(parts))

PartOK(p) ==
    /\ p = [kind |-> p.kind, piece |-> p.piece, id |-> p.id, name |-> p.name,
            args |-> p.args, announced |-> p.announced]
    /\ p.announced \in BOOLEAN

SaidOK(s) ==
    /\ s = [parts |-> s.parts, stop |-> s.stop, usage |-> s.usage]
    /\ IsSeq(s.parts) /\ \A i \in 1 .. Len(s.parts) : PartOK(s.parts[i])

\* The calls an upstream made are some of the parts of its answer, and finitely many.
LEMMA CallsFinite ==
  ASSUME NEW parts, IsSeq(parts)
  PROVE  /\ CallsIn(parts) \subseteq 1 .. Len(parts) /\ IsFiniteSet(CallsIn(parts))
         /\ Len(parts) \in Nat /\ Count(parts) \in 0 .. Len(parts)
<1> DEFINE n == Len(parts)
<1>1. n \in Nat /\ DOMAIN parts = 1 .. n
  BY SeqMore
<1>. HIDE DEF n
<1>2. IsFiniteSet(1 .. n) /\ Cardinality(1 .. n) = n
  <2>1. 1 \in Int /\ n \in Int
    BY <1>1
  <2>2. IsFiniteSet(1 .. n) /\ Cardinality(1 .. n) = IF 1 > n THEN 0 ELSE n - 1 + 1
    BY <2>1, FS_Interval
  <2>. QED BY <1>1, <2>2
<1>3. CallsIn(parts) \in SUBSET (1 .. n)
  BY <1>1 DEF CallsIn
<1>4. IsFiniteSet(CallsIn(parts)) /\ Cardinality(CallsIn(parts)) <= n
  BY <1>2, <1>3, FS_Subset
<1>5. Cardinality(CallsIn(parts)) \in Nat
  BY <1>4, FS_CardinalityType
<1>. QED BY <1>1, <1>3, <1>4, <1>5 DEF Count, n

\* One part more.
LEMMA PartMore ==
  ASSUME NEW parts, IsSeq(parts), NEW p
  PROVE  LET t == Append(parts, p) IN
         /\ IsSeq(t) /\ Len(t) = Len(parts) + 1 /\ t[Len(parts) + 1] = p
         /\ \A k \in 1 .. Len(parts) : t[k] = parts[k]
         /\ CallsIn(t) = IF IsCall(p) THEN CallsIn(parts) \union {Len(parts) + 1}
                         ELSE CallsIn(parts)
         /\ Count(t) = IF IsCall(p) THEN Count(parts) + 1 ELSE Count(parts)
<1> DEFINE n == Len(parts)
           t == Append(parts, p)
<1>1. /\ n \in Nat /\ IsSeq(t) /\ Len(t) = n + 1 /\ t[n + 1] = p
      /\ DOMAIN parts = 1 .. n /\ DOMAIN t = 1 .. n + 1
      /\ \A k \in 1 .. n : t[k] = parts[k]
  BY SeqMore
<1>. HIDE DEF t
<1>2. /\ CallsIn(parts) \subseteq 1 .. n /\ IsFiniteSet(CallsIn(parts))
      /\ Count(parts) \in Nat
  BY CallsFinite
<1>. HIDE DEF n
<1>3. n + 1 \notin 1 .. n /\ \A j : j \in 1 .. n + 1 <=> j \in 1 .. n \/ j = n + 1
  BY <1>1
<1>4. CallsIn(t) = IF IsCall(p) THEN CallsIn(parts) \union {n + 1} ELSE CallsIn(parts)
  BY <1>1, <1>3 DEF CallsIn
<1>5. n + 1 \notin CallsIn(parts)
  BY <1>2, <1>3
<1>6. Cardinality(CallsIn(parts) \union {n + 1}) = Cardinality(CallsIn(parts)) + 1
  BY <1>2, <1>5, FS_AddElement
<1>7. Count(t) = IF IsCall(p) THEN Count(parts) + 1 ELSE Count(parts)
  BY <1>4, <1>6 DEF Count
<1>. QED BY <1>1, <1>4, <1>7 DEF t, n

\* A part that says more of itself.
LEMMA PartOther ==
  ASSUME NEW parts, IsSeq(parts), NEW i \in 1 .. Len(parts), NEW q,
         q.kind = parts[i].kind, q.name = parts[i].name
  PROVE  LET t == [parts EXCEPT ![i] = q] IN
         /\ IsSeq(t) /\ Len(t) = Len(parts)
         /\ \A k \in 1 .. Len(parts) : t[k] = IF k = i THEN q ELSE parts[k]
         /\ CallsIn(t) = CallsIn(parts) /\ Count(t) = Count(parts)
<1> DEFINE t == [parts EXCEPT ![i] = q]
<1>1. DOMAIN parts = 1 .. Len(parts) /\ DOMAIN t = DOMAIN parts
  BY SeqMore
<1>2. \A k \in 1 .. Len(parts) : t[k] = IF k = i THEN q ELSE parts[k]
  BY <1>1
<1>3. IsSeq(t) /\ Len(t) = Len(parts)
  <2>1. PICK X : parts \in Seq(X)
    BY DEF IsSeq
  <2> DEFINE Y == X \union {q}
  <2>2. parts \in Seq(Y) /\ q \in Y
    BY <2>1
  <2>. HIDE DEF Y
  <2>3. t \in Seq(Y) /\ Len(t) = Len(parts)
    BY <2>2
  <2>. QED BY <2>3 DEF IsSeq
<1>. HIDE DEF t
<1>4. CallsIn(t) = CallsIn(parts)
  BY <1>1, <1>2 DEF CallsIn, IsCall
<1>. QED BY <1>2, <1>3, <1>4 DEF t, Count

\* The upstream says a part, or more of a part it has said.
LEMMA SaysPartIs ==
  ASSUME SaidOK(said), NEW part, PartOK(part)
  PROVE  SaidOK(SaysPart(part)) /\ SaysPart(part).parts = Append(said.parts, part)
<1> DEFINE t == Append(said.parts, part)
<1>1. SaysPart(part) = [parts |-> t, stop |-> said.stop, usage |-> said.usage]
  <2>1. said = [parts |-> said.parts, stop |-> said.stop, usage |-> said.usage]
    BY DEF SaidOK
  <2>2. SaysPart(part) = [said EXCEPT !.parts = t]
    BY DEF SaysPart
  <2>. HIDE DEF t
  <2>. QED BY <2>1, <2>2
<1>2. /\ IsSeq(t) /\ Len(t) = Len(said.parts) + 1 /\ t[Len(said.parts) + 1] = part
      /\ \A k \in 1 .. Len(said.parts) : t[k] = said.parts[k]
      /\ Len(said.parts) \in Nat
  BY PartMore, CallsFinite DEF SaidOK
<1>. HIDE DEF t
<1>3. \A i \in 1 .. Len(t) : PartOK(t[i])
  <2>1. \A i \in 1 .. Len(t) : i \in 1 .. Len(said.parts) \/ i = Len(said.parts) + 1
    BY <1>2
  <2>. QED BY <1>2, <2>1 DEF SaidOK
<1>. QED BY <1>1, <1>2, <1>3 DEF SaidOK, t

\* An upstream that goes on with a part has made no call more or less.
LEMMA SaysIs ==
  ASSUME SaidOK(said), NEW i \in 1 .. Len(said.parts), NEW piece
  PROVE  LET t == Says(i, piece).parts IN
         /\ SaidOK(Says(i, piece)) /\ Len(t) = Len(said.parts)
         /\ CallsIn(t) = CallsIn(said.parts) /\ Count(t) = Count(said.parts)
         /\ \A k \in 1 .. Len(t) : /\ t[k].id = said.parts[k].id
                                   /\ t[k].announced = said.parts[k].announced
<1> DEFINE p == said.parts[i]
           v == Append(p.args, piece)
           q == [p EXCEPT !.args = v]
           t == [said.parts EXCEPT ![i] = q]
<1>1. PartOK(p) /\ IsSeq(said.parts)
  BY DEF SaidOK
<1>2. Says(i, piece) = [said EXCEPT !.parts = t]
  <2>1. Says(i, piece) = [said EXCEPT !.parts[i].args = Append(@, piece)]
    BY DEF Says
  <2>2. [said EXCEPT !.parts[i].args = Append(@, piece)] = [said EXCEPT !.parts = t]
    OBVIOUS
  <2>. QED BY <2>1, <2>2
<1>. HIDE DEF v
<1>3. q = [kind |-> p.kind, piece |-> p.piece, id |-> p.id, name |-> p.name, args |-> v,
           announced |-> p.announced]
  <2>1. p = [kind |-> p.kind, piece |-> p.piece, id |-> p.id, name |-> p.name,
             args |-> p.args, announced |-> p.announced]
    BY <1>1 DEF PartOK
  <2>. HIDE DEF p
  <2>. QED BY <2>1
<1>. HIDE DEF q
<1>4. PartOK(q) /\ q.kind = p.kind /\ q.name = p.name /\ q.id = p.id /\ q.announced = p.announced
  BY <1>1, <1>3 DEF PartOK
<1>5. /\ IsSeq(t) /\ Len(t) = Len(said.parts)
      /\ \A k \in 1 .. Len(said.parts) : t[k] = IF k = i THEN q ELSE said.parts[k]
      /\ CallsIn(t) = CallsIn(said.parts) /\ Count(t) = Count(said.parts)
  BY <1>1, <1>4, PartOther
<1>. HIDE DEF t
<1>6. Says(i, piece) = [parts |-> t, stop |-> said.stop, usage |-> said.usage]
  <2>1. said = [parts |-> said.parts, stop |-> said.stop, usage |-> said.usage]
    BY DEF SaidOK
  <2>. QED BY <1>2, <2>1
<1>7. \A k \in 1 .. Len(t) : PartOK(t[k])
  BY <1>4, <1>5 DEF SaidOK
<1>8. SaidOK(Says(i, piece))
  BY <1>5, <1>6, <1>7 DEF SaidOK
<1>9. \A k \in 1 .. Len(t) : t[k].id = said.parts[k].id /\ t[k].announced = said.parts[k].announced
  BY <1>4, <1>5 DEF p
<1>. QED BY <1>5, <1>6, <1>8, <1>9

\* The parts upstreams say.
LEMMA PartIs ==
  ASSUME NEW kind, NEW piece
  PROVE  PartOK(Part(kind, piece)) /\ (kind # "call" => ~IsCall(Part(kind, piece)))
BY DEF PartOK, Part, IsCall

\* A call the upstream makes has the next of the names.
LEMMA CallPartIs ==
  ASSUME NEW args, NEW announced \in BOOLEAN
  PROVE  /\ PartOK(CallPart(args, announced)) /\ CallPart(args, announced).kind = "call"
         /\ CallPart(args, announced).announced = announced
         /\ CallPart(args, announced).name = CallName(Count(said.parts))
         /\ provider # "gemini" => CallPart(args, announced).id = CallId(Count(said.parts))
<1> DEFINE p == CallPart(args, announced)
           n == Count(said.parts)
           id == IF provider = "gemini" THEN GeminiId(n) ELSE CallId(n)
           name == CallName(n)
<1>1. Calls = CallsIn(said.parts)
  BY DEF Calls, CallsIn, IsCall
<1>2. p = [kind |-> "call", piece |-> 0, name |-> name, announced |-> announced, id |-> id,
           args |-> args]
  BY <1>1 DEF CallPart, Count
<1>3. provider # "gemini" => id = CallId(n)
  OBVIOUS
<1>. HIDE DEF p, id, name
<1>4. PartOK(p) /\ p.kind = "call" /\ p.announced = announced /\ p.name = name /\ p.id = id
  BY <1>2 DEF PartOK
<1>. QED BY <1>3, <1>4 DEF p, name

-----------------------------------------------------------------------------
(* What an event brings the clients.                                       *)

\* With one number of calls before it, and one after it.
Brings(out, n, m) ==
    \/ out.failed = TRUE /\ m = n
    \/ out.failed = FALSE /\ out.chunks = <<>> /\ m = n
    \/ /\ out.failed = FALSE /\ m = n
       /\ \E c : out.chunks = <<c>> /\ Wordless(c) /\ (c.finish = "tool_calls" => n > 0)
    \/ /\ out.failed = FALSE
       /\ \E i \in 0 .. n : \E id, name, args :
             /\ out.chunks = <<Tool(Call(i, id, name, args))>>
             /\ m = IF i = n THEN n + 1 ELSE n

\* The chunks of the translators, by the calls they bring.
LEMMA WordlessAre ==
  /\ Wordless(Empty) /\ Empty.finish = ""
  /\ \A piece : Wordless(Text(piece)) /\ Text(piece).finish = ""
  /\ \A piece : Wordless(Thought(piece)) /\ Thought(piece).finish = ""
  /\ \A reason, usage : Wordless(Finish(reason, usage)) /\ Finish(reason, usage).finish = reason
<1>1. Wordless(Empty) /\ Empty.finish = "" /\ Empty.calls = <<>>
  <2>1. Empty.calls = <<>>
    BY DEF Empty
  <2>. QED BY <2>1, ChunksAre DEF Wordless, GoesOn
<1>2. ASSUME NEW piece
      PROVE  /\ Wordless(Text(piece)) /\ Text(piece).finish = ""
             /\ Wordless(Thought(piece)) /\ Thought(piece).finish = ""
  <2>1. Text(piece).calls = Empty.calls /\ Thought(piece).calls = Empty.calls
    BY <1>1 DEF Wordless, ChunkOK, Text, Thought
  <2>. QED BY <1>1, <2>1, ChunksAre DEF Wordless, GoesOn
<1>3. ASSUME NEW reason, NEW usage
      PROVE  Wordless(Finish(reason, usage)) /\ Finish(reason, usage).finish = reason
  <2> DEFINE a == [Empty EXCEPT !.finish = reason]
             c == [a EXCEPT !.usage = usage]
  <2>1. Finish(reason, usage) = c
    BY DEF Finish
  <2>2. ChunkOK(a) /\ a.finish = reason
    BY <1>1, OtherChunk DEF Wordless
  <2>3. a.calls = <<>>
    BY <1>1 DEF Wordless, ChunkOK
  <2>. HIDE DEF a
  <2>4. ChunkOK(c) /\ c.finish = reason
    BY <2>2, OtherChunk
  <2>5. c.calls = <<>>
    BY <2>2, <2>3 DEF ChunkOK
  <2>. HIDE DEF c
  <2>. QED BY <2>1, <2>4, <2>5 DEF Wordless
<1>. QED BY <1>1, <1>2, <1>3

\* An event that is translated, or refused.
LEMMA FeedTells ==
  ASSUME NEW n \in Nat, ToldOf(dialect, chat.calls, n), NEW e, Feed(e),
         NEW out, out = Convert(translator, e), NEW m, Brings(out, n, m)
  PROVE  m \in Nat /\ ToldOf(dialect', chat'.calls, m)
<1> DEFINE acc == [seen |-> seen, dialect |-> dialect, events |-> events, chat |-> chat]
           all == FoldLeft(Relay, acc, out.chunks)
<1>1. acc.dialect = dialect /\ acc.chat = chat
  OBVIOUS
<1>2. IF out.failed THEN Refuse ELSE Surfaces(out.chunks)
  BY DEF Feed
<1>3. Surfaces(out.chunks) => dialect' = all.dialect /\ chat' = all.chat
  BY DEF Surfaces
<1>. HIDE DEF acc
<1>4. CASE out.failed = TRUE /\ m = n
  <2>1. Refuse
    BY <1>2, <1>4
  <2>2. dialect' = DialectFinish(DialectRefusal(dialect)) /\ chat' = chat
    BY <2>1 DEF Refuse
  <2>3. LET r == DialectFinish(DialectRefusal(dialect)) IN Honest(r) /\ Follows(r, dialect)
    BY EndHonest DEF ToldOf
  <2>. QED BY <1>4, <2>2, <2>3 DEF ToldOf, Follows
<1>5. CASE out.failed = FALSE /\ out.chunks = <<>> /\ m = n
  <2>1. dialect' = all.dialect /\ chat' = all.chat
    BY <1>2, <1>3, <1>5
  <2>2. all = acc
    BY <1>5, FoldsOfFew
  <2>. QED BY <1>1, <1>5, <2>1, <2>2
<1>6. CASE /\ out.failed = FALSE /\ m = n
           /\ \E c : out.chunks = <<c>> /\ Wordless(c) /\ (c.finish = "tool_calls" => n > 0)
  <2>1. PICK c : out.chunks = <<c>> /\ Wordless(c) /\ (c.finish = "tool_calls" => n > 0)
    BY <1>6
  <2>2. dialect' = all.dialect /\ chat' = all.chat
    BY <1>2, <1>3, <1>6
  <2>3. all = Relay(acc, c)
    BY <2>1, FoldsOfFew
  <2>. HIDE DEF all
  <2>4. ToldOf(Relay(acc, c).dialect, Relay(acc, c).chat.calls, n)
    BY <1>1, <2>1, RelayText
  <2>. QED BY <1>6, <2>2, <2>3, <2>4
<1>7. CASE /\ out.failed = FALSE
           /\ \E i \in 0 .. n : \E id, name, args :
                 /\ out.chunks = <<Tool(Call(i, id, name, args))>>
                 /\ m = IF i = n THEN n + 1 ELSE n
  <2>0. PICK i \in 0 .. n : \E id, name, args :
                 /\ out.chunks = <<Tool(Call(i, id, name, args))>>
                 /\ m = IF i = n THEN n + 1 ELSE n
    BY <1>7
  <2>1. PICK id, name, args : /\ out.chunks = <<Tool(Call(i, id, name, args))>>
                              /\ m = IF i = n THEN n + 1 ELSE n
    BY <2>0
  <2> DEFINE c == Tool(Call(i, id, name, args))
  <2>2. dialect' = all.dialect /\ chat' = all.chat
    BY <1>2, <1>3, <1>7
  <2>3. all = Relay(acc, c)
    BY <2>1, FoldsOfFew
  <2>. HIDE DEF all
  <2>4. ToldOf(Relay(acc, c).dialect, Relay(acc, c).chat.calls, m)
    BY <1>1, <2>1, RelayTool
  <2>. QED BY <2>1, <2>2, <2>3, <2>4
<1>. QED BY <1>4, <1>5, <1>6, <1>7 DEF Brings

\* What comes of the ways to take an event.
LEMMA IgnoreBrings ==
  ASSUME NEW s, NEW n
  PROVE  Brings(Ignore(s), n, n) /\ Ignore(s).state = s /\ Ignore(s).failed = FALSE
<1> DEFINE out == Ignore(s)
<1>1. out.failed = FALSE /\ out.chunks = <<>> /\ out.state = s
  BY EmitIs
<1>. HIDE DEF out
<1>2. Brings(out, n, n)
  BY <1>1 DEF Brings
<1>. QED BY <1>1, <1>2 DEF out

\* A translator that fails brings no call.
LEMMA FailBrings ==
  ASSUME NEW s, NEW n
  PROVE  Brings(Fail(s), n, n) /\ Fail(s).failed = TRUE
<1>1. Fail(s).failed = TRUE
  BY EmitIs
<1>. QED BY <1>1 DEF Brings

\* A chunk with no call brings none, and may ask for those told before.
LEMMA EmitBrings ==
  ASSUME NEW s, NEW n, NEW c, Wordless(c), c.finish = "tool_calls" => n > 0
  PROVE  /\ Brings(Emit(s, <<c>>), n, n) /\ Emit(s, <<c>>).state = s
         /\ Emit(s, <<c>>).failed = FALSE
<1> DEFINE out == Emit(s, <<c>>)
<1>1. out.failed = FALSE /\ out.chunks = <<c>> /\ out.state = s
  BY DEF Emit
<1>. HIDE DEF out
<1>2. Brings(out, n, n)
  BY <1>1 DEF Brings
<1>. QED BY <1>1, <1>2 DEF out

OneCall(out, s, i) ==
    \E id, name, args : out = Emit(s, <<Tool(Call(i, id, name, args))>>)

\* A translator that tells of one call brings it, if it is the next one.
LEMMA CallBrings ==
  ASSUME NEW s, NEW n, NEW i \in 0 .. n, NEW out, OneCall(out, s, i)
  PROVE  /\ i = n => Brings(out, n, n + 1)
         /\ i # n => Brings(out, n, n)
         /\ out.state = s /\ out.failed = FALSE
<1>0. PICK id, name, args : out = Emit(s, <<Tool(Call(i, id, name, args))>>)
  BY DEF OneCall
<1>1. out.failed = FALSE /\ out.chunks = <<Tool(Call(i, id, name, args))>> /\ out.state = s
  BY <1>0 DEF Emit
<1>2. i = n => Brings(out, n, n + 1)
  BY <1>1 DEF Brings
<1>3. i # n => Brings(out, n, n)
  BY <1>1 DEF Brings
<1>. QED BY <1>1, <1>2, <1>3

-----------------------------------------------------------------------------
(* The invariant: the translators number the calls in the order they tell  *)
(* them, and tell no more than the upstream has made.                      *)

\* A block of a tool is told when it stops.
ClaudeNumbers(s, w, parts, n) ==
    /\ s.next = n /\ w.kind \in {"", "text", "thinking", "tool"}
    /\ IF w.kind = "tool"
       THEN /\ n + 1 = Count(parts)
            /\ \E id, name, args :
                  s.tools = <<[block |-> w.block, id |-> id, name |-> name, args |-> args]>>
       ELSE n = Count(parts) /\ s.tools = <<>>

\* A payload tells its calls at once.
GeminiNumbers(s, n) ==
    /\ s = [started |-> s.started, sent |-> s.sent, next |-> s.next, saw |-> s.saw,
            usage |-> s.usage]
    /\ s.saw \in BOOLEAN /\ s.next = n /\ (s.saw => n > 0)

\* The calls that are told when their item is done.
Unannounced(w, parts) == {i \in w.open : ~parts[i].announced}

\* A state of the Responses translator.
ResponsesState(s) ==
    s = [sent |-> s.sent, next |-> s.next, calls |-> s.calls, items |-> s.items,
         outputs |-> s.outputs, current |-> s.current, fallbacks |-> s.fallbacks]

\* The calls that wait, with a number or without.
Entries(calls, n) ==
    \A id \in DOMAIN calls :
        /\ calls[id] = [index |-> calls[id].index, args |-> calls[id].args]
        /\ calls[id].index \in -1 .. n - 1

\* A call that is open is known by its item, and has a number if it was announced.
KnownCall(s, p) ==
    /\ ItemId(p.id) \in DOMAIN s.items /\ s.items[ItemId(p.id)] = p.id
    /\ p.id \in DOMAIN s.calls /\ (p.announced => s.calls[p.id].index # -1)

\* Only a call that is open is current.
CurrentOpen(s, w, parts) == s.current # "" => \E i \in w.open : parts[i].id = s.current

\* The upstream names its calls by their number.
CallsNamed(parts) ==
    /\ \A i \in CallsIn(parts) : \E m \in 0 .. Count(parts) - 1 : parts[i].id = CallId(m)
    /\ \A i, j \in CallsIn(parts) : parts[i].id = parts[j].id => i = j

\* A call that is announced has its number, and an open one will have it.
ResponsesNumbers(s, w, parts, n) ==
    /\ ResponsesState(s) /\ s.next = n /\ Entries(s.calls, n)
    /\ CurrentOpen(s, w, parts)
    /\ w.open \subseteq CallsIn(parts)
    /\ \A i \in w.open : KnownCall(s, parts[i])
    /\ n + Cardinality(Unannounced(w, parts)) <= Count(parts)
    /\ CallsNamed(parts)

\* The upstream numbers its calls itself.
OpenAiNumbers(w, parts, n) == n = Count(parts) /\ w.open \subseteq CallsIn(parts)

\* The number of calls told, in the state of a translator.
Numbers(s, w, parts, n) ==
    /\ provider = "claude" => ClaudeNumbers(s, w, parts, n)
    /\ provider = "gemini" => GeminiNumbers(s, n)
    /\ provider = "responses" => ResponsesNumbers(s, w, parts, n)
    /\ provider = "openai" => OpenAiNumbers(w, parts, n)

\* So far as the upstream has said, with a number of calls told.
ToolsOf(n) ==
    /\ ToldOf(dialect, chat.calls, n) /\ n <= Count(said.parts)
    /\ wire.phase \in {"start", "body"} => Numbers(translator, wire, said.parts, n)

\* A number of calls is told, to every client alike.
ToolInv == SaidOK(said) /\ \E n \in Nat : ToolsOf(n)

\* The numbers depend on an upstream's blocks and open calls only.
LEMMA SameNumbers ==
  ASSUME NEW s, NEW w, NEW u, NEW parts, NEW n,
         u.kind = w.kind, u.open = w.open, u.block = w.block
  PROVE  /\ ClaudeNumbers(s, w, parts, n) => ClaudeNumbers(s, u, parts, n)
         /\ ResponsesNumbers(s, w, parts, n) => ResponsesNumbers(s, u, parts, n)
         /\ OpenAiNumbers(w, parts, n) => OpenAiNumbers(u, parts, n)
<1>1. ClaudeNumbers(s, w, parts, n) => ClaudeNumbers(s, u, parts, n)
  BY DEF ClaudeNumbers
<1>2. Unannounced(w, parts) = Unannounced(u, parts)
  BY DEF Unannounced
<1>3. ResponsesNumbers(s, w, parts, n) => ResponsesNumbers(s, u, parts, n)
  BY <1>2 DEF ResponsesNumbers, CurrentOpen
<1>4. OpenAiNumbers(w, parts, n) => OpenAiNumbers(u, parts, n)
  BY DEF OpenAiNumbers
<1>. QED BY <1>1, <1>3, <1>4

\* What an event leaves, by what was told with it.
LEMMA ToolSends ==
  ASSUME NEW e, NEW w, NEW s, Sends(e, w, s), WireOK(w), SaidOK(s),
         NEW out, out = Convert(translator, e),
         NEW m \in Nat, ToldOf(dialect', chat'.calls, m), m <= Count(s.parts),
         \/ out.failed = TRUE
         \/ w.phase \notin {"start", "body"}
         \/ Numbers(out.state, w, s.parts, m)
  PROVE  ToolInv'
<1> DEFINE n == w.events + 1
           ph == IF out.failed THEN "closed" ELSE w.phase
           v == [w EXCEPT !.events = n]
           u == [v EXCEPT !.phase = ph]
<1>1. wire' = u
  <2>1. wire' = [w EXCEPT !.events = n, !.phase = ph]
    BY DEF Sends
  <2>. HIDE DEF n, ph
  <2>. QED BY <2>1
<1>2. translator' = out.state /\ provider' = provider /\ said' = s
  BY DEF Sends, Feed
<1>3. ph = IF out.failed THEN "closed" ELSE w.phase
  OBVIOUS
<1>. HIDE DEF n, ph
<1>4. v = [phase |-> w.phase, events |-> n, kind |-> w.kind, open |-> w.open, block |-> w.block]
  BY DEF WireOK
<1>. HIDE DEF v
<1>5. u = [phase |-> ph, events |-> n, kind |-> w.kind, open |-> w.open, block |-> w.block]
  BY ONLY <1>4
<1>. HIDE DEF u
<1>6. u.phase = ph /\ u.kind = w.kind /\ u.open = w.open /\ u.block = w.block
  BY ONLY <1>5
<1>7. ASSUME ph \in {"start", "body"} PROVE Numbers(out.state, u, s.parts, m)
  <2>1. Numbers(out.state, w, s.parts, m)
    BY <1>3, <1>7
  <2>. QED BY <1>6, <2>1, SameNumbers DEF Numbers
<1>8. ToolsOf(m)'
  <2>1. said'.parts = s.parts
    BY <1>2
  <2>2. wire'.phase = ph
    BY <1>1, <1>6
  <2>3. wire'.phase \in {"start", "body"} => Numbers(translator, wire, said.parts, m)'
    <3>1. ASSUME wire'.phase \in {"start", "body"}
          PROVE  Numbers(translator, wire, said.parts, m)'
      <4>1. Numbers(out.state, u, s.parts, m)
        BY <1>7, <2>2, <3>1
      <4>. QED BY <1>1, <1>2, <4>1 DEF Numbers
    <3>. QED BY <3>1
  <2>. QED BY <2>1, <2>3 DEF ToolsOf
<1>. QED BY <1>2, <1>8 DEF ToolInv

\* An event that makes the upstream say no more, and brings no call.
LEMMA ToolStays ==
  ASSUME NEW e, NEW w, NEW s, Sends(e, w, s), WireOK(w), SaidOK(s),
         NEW out, out = Convert(translator, e), NEW n \in Nat, ToolsOf(n),
         s.parts = said.parts, Brings(out, n, n),
         out.failed = TRUE \/ w.phase \notin {"start", "body"}
  PROVE  ToolInv'
<1>1. n \in Nat /\ ToldOf(dialect', chat'.calls, n)
  BY FeedTells DEF Sends, ToolsOf
<1>2. n <= Count(s.parts)
  BY DEF ToolsOf
<1>. QED BY <1>1, <1>2, ToolSends

-----------------------------------------------------------------------------
(* A Claude upstream.                                                      *)

\* Sequences of one.
LEMMA OnesAre ==
  ASSUME NEW t, NEW u
  PROVE  /\ Append(<<>>, t) = <<t>> /\ RemoveAt(<<t>>, 1) = <<>> /\ [<<t>> EXCEPT ![1] = u] = <<u>>
         /\ <<t>>[1] = t /\ Len(<<t>>) = 1 /\ Len(<<>>) = 0
<1>1. Append(<<>>, t) = <<t>> /\ <<t>>[1] = t /\ Len(<<t>>) = 1 /\ Len(<<>>) = 0
  OBVIOUS
<1>2. [<<t>> EXCEPT ![1] = u] = <<u>>
  OBVIOUS
<1>3. RemoveAt(<<t>>, 1) = <<>>
  <2> DEFINE one == <<t>>
             a == SubSeq(one, 1, 1 - 1)
             b == SubSeq(one, 1 + 1, Len(one))
  <2>1. one \in Seq({t}) /\ Len(one) = 1
    OBVIOUS
  <2>. HIDE DEF one
  <2>2. a \in Seq({t}) /\ Len(a) = 0 /\ b \in Seq({t}) /\ Len(b) = 0
    BY <2>1
  <2>. HIDE DEF a, b
  <2>3. a = <<>> /\ b = <<>>
    BY <2>2
  <2>4. <<>> \o <<>> = <<>>
    OBVIOUS
  <2>. QED BY <2>3, <2>4 DEF RemoveAt, a, b, one
<1>. QED BY <1>1, <1>2, <1>3

\* The block that stops.
ToolAt(s, index) == SelectInSeq(s.tools, LAMBDA t : t.block = index)

\* Where a tool is found when it is the only one, or there is none.
LEMMA ToolsFound ==
  ASSUME NEW s, NEW index
  PROVE  /\ s.tools = <<>> =>
               /\ OpenTool(s, index) = 0
               /\ ToolAt(s, index) = 0
         /\ \A t : s.tools = <<t>> =>
               /\ OpenTool(s, index) \in {0, 1}
               /\ t.block = index => ToolAt(s, index) = 1
<1>1. CASE s.tools = <<>>
  <2>1. 1 .. Len(s.tools) = {}
    BY <1>1
  <2>2. OpenTool(s, index) = 0
    BY <2>1 DEF OpenTool, SelectLastInSeq
  <2>3. ToolAt(s, index) = 0
    BY <2>1 DEF ToolAt, SelectInSeq
  <2>4. \A t : s.tools # <<t>>
    BY <1>1, OnesAre
  <2>. QED BY <2>2, <2>3, <2>4
<1>2. CASE s.tools # <<>>
  <2>1. ASSUME NEW t, s.tools = <<t>>
        PROVE  /\ OpenTool(s, index) \in {0, 1}
               /\ t.block = index => ToolAt(s, index) = 1
    <3> DEFINE tools == s.tools
    <3>1. 1 .. Len(tools) = {1} /\ tools[1] = t
      BY <2>1, OnesAre, OneIs
    <3>2. OpenTool(s, index) \in {0, 1}
      <4> DEFINE I == {i \in 1 .. Len(tools) : index = -1 \/ tools[i].block = index}
      <4>1. OpenTool(s, index) = IF I # {} THEN Max(I) ELSE 0
        BY DEF OpenTool, SelectLastInSeq
      <4>2. I = {} \/ I = {1}
        BY <3>1
      <4>. HIDE DEF I
      <4>3. I # {} => Max(I) = 1
        BY <4>2 DEF Max
      <4>. QED BY <4>1, <4>3
    <3>3. t.block = index => ToolAt(s, index) = 1
      <4> DEFINE I == {i \in 1 .. Len(tools) : tools[i].block = index}
      <4>1. ToolAt(s, index) = IF I # {} THEN Min(I) ELSE 0
        BY DEF ToolAt, SelectInSeq
      <4>2. t.block = index => I = {1}
        BY <3>1
      <4>. HIDE DEF I
      <4>3. I = {1} => Min(I) = 1
        BY DEF Min
      <4>. QED BY <4>1, <4>2, <4>3
    <3>. QED BY <3>2, <3>3
  <2>. QED BY <1>2, <2>1
<1>. QED BY <1>1, <1>2

\* A Claude upstream, by what it says and what is told of it.
LEMMA ClaudeSends ==
  ASSUME NEW e, NEW w, NEW s, Sends(e, w, s), WireOK(w), SaidOK(s), provider = "claude",
         NEW n \in Nat, ToolsOf(n),
         NEW out, out = ClaudeConvert(translator, e), NEW m,
         Brings(out, n, m), m <= Count(s.parts), ClaudeNumbers(out.state, w, s.parts, m)
  PROVE  ToolInv'
<1>1. out = Convert(translator, e)
  BY DEF Convert
<1>2. m \in Nat /\ ToldOf(dialect', chat'.calls, m)
  BY <1>1, FeedTells DEF Sends, ToolsOf
<1>3. Numbers(out.state, w, s.parts, m)
  BY DEF Numbers
<1>. QED BY <1>1, <1>2, <1>3, ToolSends

\* What it has said, with other counts.
LEMMA SaidOther ==
  ASSUME NEW s, SaidOK(s), NEW v
  PROVE  /\ SaidOK([s EXCEPT !.usage = v]) /\ [s EXCEPT !.usage = v].parts = s.parts
         /\ SaidOK([s EXCEPT !.stop = v]) /\ [s EXCEPT !.stop = v].parts = s.parts
<1>1. s = [parts |-> s.parts, stop |-> s.stop, usage |-> s.usage]
  BY DEF SaidOK
<1>2. SaidOK([s EXCEPT !.usage = v]) /\ [s EXCEPT !.usage = v].parts = s.parts
  <2> DEFINE t == [s EXCEPT !.usage = v]
  <2>1. t = [parts |-> s.parts, stop |-> s.stop, usage |-> v]
    BY ONLY <1>1
  <2>. HIDE DEF t
  <2>. QED BY <2>1 DEF SaidOK, t
<1>3. SaidOK([s EXCEPT !.stop = v]) /\ [s EXCEPT !.stop = v].parts = s.parts
  <2> DEFINE t == [s EXCEPT !.stop = v]
  <2>1. t = [parts |-> s.parts, stop |-> v, usage |-> s.usage]
    BY ONLY <1>1
  <2>. HIDE DEF t
  <2>. QED BY <2>1 DEF SaidOK, t
<1>. QED BY <1>2, <1>3

\* An upstream that is further, in its other fields.
LEMMA WireFields ==
  ASSUME NEW w, WireOK(w), NEW v
  PROVE  /\ LET u == [w EXCEPT !.phase = v] IN
            u.kind = w.kind /\ u.open = w.open /\ u.block = w.block
         /\ LET u == [w EXCEPT !.kind = v] IN
            u.kind = v /\ u.open = w.open /\ u.block = w.block
         /\ LET u == [w EXCEPT !.open = v] IN
            u.kind = w.kind /\ u.open = v /\ u.block = w.block
         /\ LET u == [w EXCEPT !.block = v] IN
            u.kind = w.kind /\ u.open = w.open /\ u.block = v
<1>1. LET u == [w EXCEPT !.phase = v] IN u.kind = w.kind /\ u.open = w.open /\ u.block = w.block
  BY DEF WireOK
<1>2. LET u == [w EXCEPT !.kind = v] IN u.kind = v /\ u.open = w.open /\ u.block = w.block
  BY DEF WireOK
<1>3. LET u == [w EXCEPT !.open = v] IN u.kind = w.kind /\ u.open = v /\ u.block = w.block
  BY DEF WireOK
<1>4. LET u == [w EXCEPT !.block = v] IN u.kind = w.kind /\ u.open = w.open /\ u.block = v
  BY DEF WireOK
<1>. QED BY <1>1, <1>2, <1>3, <1>4

\* The next call is one the upstream names, as long as it has room for it.
LEMMA CallIsNew ==
  ASSUME SaidOK(said), MoreParts, NEW args, NEW announced \in BOOLEAN
  PROVE  /\ Count(said.parts) \in 0 .. MaxParts
         /\ IsCall(CallPart(args, announced))
<1>1. Len(said.parts) \in Nat /\ Count(said.parts) \in 0 .. Len(said.parts)
  BY CallsFinite DEF SaidOK
<1>2. Count(said.parts) \in 0 .. MaxParts
  BY <1>1, BoundsAssumption DEF MoreParts
<1>3. CallName(Count(said.parts)) # ""
  BY <1>2, NamesAssumption
<1>. QED BY <1>2, <1>3, CallPartIs DEF IsCall

\* It has no tool open between its blocks, and one while a tool is its block.
LEMMA ClaudeTools ==
  ASSUME DialectsInv, ToolInv,
         \/ ClaudeBegins \/ ClaudeOpensBlock \/ ClaudeSendsDelta \/ ClaudeStopsBlock
         \/ ClaudeStops \/ ClaudeSaysStop
  PROVE  ToolInv'
<1>0. WireOK(wire) /\ SaidOK(said)
  BY DEF DialectsInv, ToolInv
<1>1. provider = "claude"
  BY DEF ClaudeBegins, ClaudeOpensBlock, ClaudeSendsDelta, ClaudeStopsBlock, ClaudeStops,
         ClaudeSaysStop
<1> DEFINE t == translator
           parts == said.parts
<1>2. t = [tools |-> t.tools, next |-> t.next, sent |-> t.sent, finish |-> t.finish,
           usage |-> t.usage]
  BY <1>1 DEF DialectsInv, ClaudeKnows
<1>3. PICK n \in Nat : ToolsOf(n)
  BY DEF ToolInv
<1>4. wire.phase \in {"start", "body"} => ClaudeNumbers(t, wire, parts, n)
  BY <1>1, <1>3 DEF ToolsOf, Numbers
<1>. HIDE DEF t, parts
<1>5. CASE ClaudeBegins
  <2>1. PICK read \in {0, 2} :
            LET usage == [input |-> 1, output |-> 0, read |-> read] IN
            Sends([type |-> "message_start", usage |-> usage],
                  [wire EXCEPT !.phase = "body"], [said EXCEPT !.usage = usage])
    BY <1>5 DEF ClaudeBegins
  <2> DEFINE u == [input |-> 1, output |-> 0, read |-> read]
             e == [type |-> "message_start", usage |-> u]
             ph == "body"
             w == [wire EXCEPT !.phase = ph]
             s == [said EXCEPT !.usage = u]
             a == [t EXCEPT !.usage = u]
             out == ClaudeConvert(t, e)
  <2>2. Sends(e, w, s)
    BY <2>1
  <2>3. out = Emit(a, <<Empty>>)
    BY DEF ClaudeConvert
  <2>4. ClaudeNumbers(t, wire, parts, n)
    BY <1>4, <1>5 DEF ClaudeBegins
  <2>. HIDE DEF e, u, ph
  <2>5. WireOK(w) /\ w.kind = wire.kind /\ w.block = wire.block /\ w.open = wire.open
    BY <1>0, WireOther, WireFields, ZenonT(60)
  <2>6. SaidOK(s) /\ s.parts = parts
    BY <1>0, SaidOther DEF parts
  <2>. HIDE DEF w, s
  <2>7. a.next = t.next /\ a.tools = t.tools
    BY <1>2
  <2>. HIDE DEF a, out
  <2>8. Brings(out, n, n) /\ out.state = a
    BY <2>3, EmitBrings, WordlessAre
  <2>9. ClaudeNumbers(out.state, w, s.parts, n) /\ n <= Count(s.parts)
    BY <1>3, <2>4, <2>5, <2>6, <2>7, <2>8 DEF ClaudeNumbers, ToolsOf, parts
  <2>. QED BY <1>1, <1>3, <2>2, <2>5, <2>6, <2>8, <2>9, ClaudeSends DEF out, t
<1>6. CASE ClaudeOpensBlock
  <2> DEFINE part == CallPart(<<>>, TRUE)
  <2>1. PICK kind :
          /\ kind \in {"text", "thinking", "tool"}
          /\ Sends([type |-> "content_block_start", kind |-> kind, index |-> wire.block,
                    id |-> part.id, name |-> part.name],
                   [wire EXCEPT !.kind = kind],
                   IF kind = "tool" THEN SaysPart(part) ELSE said)
    BY <1>6 DEF ClaudeOpensBlock
  <2> DEFINE e == [type |-> "content_block_start", kind |-> kind, index |-> wire.block,
                   id |-> part.id, name |-> part.name]
             w == [wire EXCEPT !.kind = kind]
             s == IF kind = "tool" THEN SaysPart(part) ELSE said
             out == ClaudeConvert(t, e)
  <2>2. Sends(e, w, s)
    BY <2>1
  <2>3. /\ e.type = "content_block_start" /\ e.kind = kind /\ e.index = wire.block
        /\ kind \in {"", "text", "thinking", "tool"}
    BY <2>1
  <2>. HIDE DEF e
  <2>4. wire.kind = "" /\ wire.phase = "body" /\ MoreParts
    BY <1>6 DEF ClaudeOpensBlock
  <2>5. t.next = n /\ n = Count(parts) /\ t.tools = <<>>
    BY <1>4, <2>4 DEF ClaudeNumbers
  <2>6. WireOK(w) /\ w.kind = kind /\ w.block = wire.block
    BY ONLY <1>0, WireOther, WireFields, ZenonT(60)
  <2>. HIDE DEF w
  <2>7. PartOK(part) /\ IsCall(part)
    BY <1>0, <2>4, CallPartIs, CallIsNew
  <2>. HIDE DEF part
  <2>8. CASE kind = "tool"
    <3> DEFINE x == [block |-> e.index, id |-> e.id, name |-> e.name, args |-> <<>>]
               tools == Append(t.tools, x)
               a == [t EXCEPT !.tools = tools]
    <3>1. out = Ignore(a)
      BY <2>3, <2>8 DEF ClaudeConvert
    <3>2. tools = <<[block |-> wire.block, id |-> e.id, name |-> e.name, args |-> <<>>]>>
      BY <2>3, <2>5, OnesAre
    <3>. HIDE DEF tools
    <3>3. a.tools = tools /\ a.next = t.next
      BY <1>2
    <3>. HIDE DEF a, out
    <3>4. Brings(out, n, n) /\ out.state = a
      BY <3>1, IgnoreBrings
    <3>5. SaidOK(s) /\ s.parts = Append(parts, part)
      BY <1>0, <2>7, <2>8, SaysPartIs DEF parts
    <3>6. Count(s.parts) = n + 1 /\ n <= Count(s.parts)
      <4>1. Count(s.parts) = n + 1
        BY <1>0, <2>5, <2>7, <3>5, PartMore DEF SaidOK, parts
      <4>. QED BY <4>1
    <3>. HIDE DEF s
    <3>7. ClaudeNumbers(out.state, w, s.parts, n)
      BY <2>3, <2>5, <2>6, <2>8, <3>2, <3>3, <3>4, <3>6 DEF ClaudeNumbers
    <3>. QED BY <1>1, <1>3, <2>2, <2>6, <3>4, <3>5, <3>6, <3>7, ClaudeSends DEF out, t
  <2>9. CASE kind # "tool"
    <3>1. out = Ignore(t)
      BY <2>3, <2>9 DEF ClaudeConvert
    <3>2. s = said
      BY <2>9
    <3>. HIDE DEF out, s
    <3>3. Brings(out, n, n) /\ out.state = t
      BY <3>1, IgnoreBrings
    <3>4. n <= Count(s.parts) /\ ClaudeNumbers(out.state, w, s.parts, n)
      BY <1>3, <2>3, <2>5, <2>6, <2>9, <3>2, <3>3 DEF ClaudeNumbers, ToolsOf, parts
    <3>. QED BY <1>0, <1>1, <1>3, <2>2, <2>6, <3>2, <3>3, <3>4, ClaudeSends DEF out, t
  <2>. QED BY <2>8, <2>9
<1>7. CASE ClaudeSendsDelta
  <2> DEFINE s == CASE wire.kind = "text" -> SaysPart(Part("text", Now))
                    [] wire.kind = "thinking" -> SaysPart(Part("thought", Now))
                    [] wire.kind = "tool" -> Says(Len(said.parts), Now)
  <2>1. PICK index \in {wire.block, -1} :
            Sends([type |-> "content_block_delta", kind |-> wire.kind, index |-> index,
                   piece |-> Now], wire, s)
    BY <1>7 DEF ClaudeSendsDelta
  <2> DEFINE e == [type |-> "content_block_delta", kind |-> wire.kind, index |-> index,
                   piece |-> Now]
             out == ClaudeConvert(t, e)
  <2>2. Sends(e, wire, s)
    BY <2>1
  <2>3. e.type = "content_block_delta" /\ e.kind = wire.kind
    OBVIOUS
  <2>. HIDE DEF e
  <2>4. out = ClaudeDelta(t, e)
    BY <2>3 DEF ClaudeConvert
  <2>. HIDE DEF out
  <2>5. wire.kind # "" /\ ClaudeNumbers(t, wire, parts, n)
    BY <1>4, <1>7 DEF ClaudeSendsDelta
  <2>6. CASE wire.kind \in {"text", "thinking"}
    <3>1. PICK kind : kind # "call" /\ s = SaysPart(Part(kind, Now))
      <4>1. "text" # "call" /\ "thought" # "call"
        OBVIOUS
      <4>. QED BY <2>6, <4>1
    <3>2. PartOK(Part(kind, Now)) /\ ~IsCall(Part(kind, Now))
      BY <3>1, PartIs
    <3>. HIDE DEF s
    <3>3. SaidOK(s) /\ s.parts = Append(parts, Part(kind, Now))
      BY <1>0, <3>1, <3>2, SaysPartIs DEF parts
    <3>4. Count(s.parts) = Count(parts)
      BY <1>0, <3>2, <3>3, PartMore DEF SaidOK, parts
    <3>5. out = Emit(t, <<Text(e.piece)>>) \/ out = Emit(t, <<Thought(e.piece)>>)
      BY <2>3, <2>4, <2>6 DEF ClaudeDelta
    <3>6. Brings(out, n, n) /\ out.state = t
      <4>1. PICK c : out = Emit(t, <<c>>) /\ Wordless(c) /\ c.finish = ""
        BY <3>5, WordlessAre
      <4>. QED BY <4>1, EmitBrings
    <3>7. n <= Count(s.parts) /\ ClaudeNumbers(out.state, wire, s.parts, n)
      BY <1>3, <2>5, <2>6, <3>4, <3>6 DEF ClaudeNumbers, ToolsOf, parts
    <3>. QED BY <1>0, <1>1, <1>3, <2>2, <2>4, <3>3, <3>6, <3>7, ClaudeSends DEF out, t
  <2>7. CASE wire.kind = "tool"
    <3>1. s = Says(Len(said.parts), Now)
      BY <2>7
    <3>. HIDE DEF s
    <3>2. n + 1 = Count(parts) /\ t.next = n
      BY <2>5, <2>7 DEF ClaudeNumbers
    <3>3. PICK id, name, args :
              t.tools = <<[block |-> wire.block, id |-> id, name |-> name, args |-> args]>>
      BY <2>5, <2>7 DEF ClaudeNumbers
    <3>4. Len(said.parts) \in 1 .. Len(said.parts)
      <4>1. Len(parts) \in Nat /\ Count(parts) \in 0 .. Len(parts)
        BY <1>0, CallsFinite DEF SaidOK, parts
      <4>2. Len(parts) \in 1 .. Len(parts)
        BY <3>2, <4>1
      <4>. QED BY <4>2 DEF parts
    <3>5. SaidOK(s) /\ Count(s.parts) = Count(parts)
      BY <1>0, <3>1, <3>4, SaysIs DEF parts
    <3>6. n <= Count(s.parts)
      BY <3>2, <3>5
    <3>7. \E a : /\ out = Ignore(a) /\ a.next = n
                 /\ \E more : a.tools = <<[block |-> wire.block, id |-> id, name |-> name,
                                           args |-> more]>>
      <4>1. CASE OpenTool(t, e.index) = 0
        <5>1. out = Ignore(t)
          BY <2>3, <2>4, <2>7, <4>1 DEF ClaudeDelta
        <5>. QED BY <3>2, <3>3, <5>1
      <4>2. CASE OpenTool(t, e.index) # 0
        <5> DEFINE x == t.tools[1]
                   more == Append(x.args, e.piece)
                   y == [x EXCEPT !.args = more]
                   tools == [t.tools EXCEPT ![1] = y]
                   a == [t EXCEPT !.tools = tools]
        <5>1. OpenTool(t, e.index) = 1
          BY <3>3, <4>2, ToolsFound
        <5>2. out = Ignore(a)
          <6>1. out = Ignore([t EXCEPT !.tools[1].args = Append(@, e.piece)])
            BY <2>3, <2>4, <2>7, <5>1 DEF ClaudeDelta
          <6>2. [t EXCEPT !.tools[1].args = Append(@, e.piece)] = a
            OBVIOUS
          <6>. QED BY <6>1, <6>2
        <5>3. x = [block |-> wire.block, id |-> id, name |-> name, args |-> args]
          BY <3>3, OnesAre
        <5>. HIDE DEF more, x
        <5>4. y = [block |-> wire.block, id |-> id, name |-> name, args |-> more]
          BY ONLY <5>3
        <5>5. tools = <<y>>
          BY <3>3, OnesAre
        <5>. HIDE DEF tools, y
        <5>6. a.tools = tools /\ a.next = n
          BY <1>2, <3>2
        <5>. HIDE DEF a
        <5>. QED BY <5>2, <5>4, <5>5, <5>6
      <4>. QED BY <4>1, <4>2
    <3>8. PICK a : /\ out = Ignore(a) /\ a.next = n
                   /\ \E more : a.tools = <<[block |-> wire.block, id |-> id, name |-> name,
                                             args |-> more]>>
      BY <3>7
    <3>9. Brings(out, n, n) /\ out.state = a
      BY <3>8, IgnoreBrings
    <3>10. ClaudeNumbers(out.state, wire, s.parts, n)
      BY <2>7, <3>2, <3>5, <3>8, <3>9 DEF ClaudeNumbers
    <3>. QED BY <1>0, <1>1, <1>3, <2>2, <2>4, <3>5, <3>6, <3>9, <3>10, ClaudeSends DEF out, t
  <2>8. wire.kind \in {"text", "thinking", "tool"}
    BY <2>5 DEF ClaudeNumbers
  <2>. QED BY <2>6, <2>7, <2>8

<1>8. CASE ClaudeStopsBlock
  <2> DEFINE k == wire.block + 1
             e == [type |-> "content_block_stop", index |-> wire.block]
             v == [wire EXCEPT !.kind = ""]
             w == [v EXCEPT !.block = k]
             at == ToolAt(t, e.index)
             out == ClaudeConvert(t, e)
  <2>1. Sends(e, w, said) /\ e.type = "content_block_stop" /\ e.index = wire.block
    <3>1. Sends(e, [wire EXCEPT !.kind = "", !.block = k], said)
      BY <1>8 DEF ClaudeStopsBlock
    <3>. QED BY <3>1
  <2>2. wire.kind # "" /\ ClaudeNumbers(t, wire, parts, n)
    BY <1>4, <1>8 DEF ClaudeStopsBlock
  <2>. HIDE DEF e, k
  <2>3. WireOK(v) /\ v.kind = ""
    BY ONLY <1>0, WireOther, WireFields, ZenonT(60)
  <2>. HIDE DEF v
  <2>4. WireOK(w) /\ w.kind = ""
    BY ONLY <2>3, WireOther, WireFields, ZenonT(60)
  <2>. HIDE DEF w
  <2>5. out = IF at = 0 THEN Ignore(t)
              ELSE Emit([t EXCEPT !.tools = RemoveAt(@, at), !.next = @ + 1],
                        <<Tool(Call(t.next, t.tools[at].id, t.tools[at].name, t.tools[at].args))>>)
    BY <2>1 DEF ClaudeConvert, ClaudeBlockStop, ToolAt
  <2>6. CASE wire.kind = "tool"
    <3>1. n + 1 = Count(parts) /\ t.next = n
      BY <2>2, <2>6 DEF ClaudeNumbers
    <3>2. PICK x : t.tools = <<x>> /\ x.block = wire.block
      <4>1. PICK id, name, args :
                t.tools = <<[block |-> wire.block, id |-> id, name |-> name, args |-> args]>>
        BY <2>2, <2>6 DEF ClaudeNumbers
      <4> DEFINE x == [block |-> wire.block, id |-> id, name |-> name, args |-> args]
      <4>2. t.tools = <<x>> /\ x.block = wire.block
        BY <4>1
      <4>. HIDE DEF x
      <4>. QED BY <4>2
    <3>3. at = 1
      BY <2>1, <3>2, ToolsFound
    <3>. HIDE DEF at
    <3> DEFINE tools == RemoveAt(t.tools, 1)
               m == n + 1
               a == [t EXCEPT !.tools = tools]
               b == [a EXCEPT !.next = m]
               y == t.tools[1]
    <3>4. out = Emit(b, <<Tool(Call(n, y.id, y.name, y.args))>>)
      <4>1. out = Emit([t EXCEPT !.tools = tools, !.next = @ + 1],
                       <<Tool(Call(n, y.id, y.name, y.args))>>)
        BY <2>5, <3>1, <3>3
      <4>2. [t EXCEPT !.tools = tools, !.next = @ + 1] = b
        <5>. HIDE DEF tools
        <5>. QED BY <3>1
      <4>. QED BY <4>1, <4>2
    <3>5. tools = <<>>
      BY <3>2, OnesAre
    <3>6. m \in Nat /\ m = Count(parts) /\ m = n + 1
      BY <3>1
    <3>. HIDE DEF tools, m, y, out
    <3>7. a = [tools |-> tools, next |-> t.next, sent |-> t.sent, finish |-> t.finish,
               usage |-> t.usage]
      BY ONLY <1>2
    <3>. HIDE DEF a
    <3>8. b = [tools |-> tools, next |-> m, sent |-> t.sent, finish |-> t.finish,
               usage |-> t.usage]
      BY ONLY <3>7
    <3>9. b.tools = tools /\ b.next = m
      BY <3>8
    <3>. HIDE DEF b
    <3>10. n \in 0 .. n
      OBVIOUS
    <3>11. Brings(out, n, m) /\ out.state = b
      <4>1. OneCall(out, b, n)
        BY <3>4 DEF OneCall
      <4>2. Brings(out, n, n + 1) /\ out.state = b
        BY <3>10, <4>1, CallBrings
      <4>. QED BY <3>6, <4>2
    <3>12. ClaudeNumbers(out.state, w, parts, m)
      BY <2>4, <3>5, <3>6, <3>9, <3>11 DEF ClaudeNumbers
    <3>13. m <= Count(parts)
      BY <3>6
    <3>. QED BY <1>0, <1>1, <1>3, <2>1, <2>4, <3>11, <3>12, <3>13, ClaudeSends DEF out, t, parts
  <2>7. CASE wire.kind # "tool"
    <3>1. t.next = n /\ n = Count(parts) /\ t.tools = <<>>
      BY <2>2, <2>7 DEF ClaudeNumbers
    <3>2. at = 0
      BY <3>1, ToolsFound
    <3>3. out = Ignore(t)
      BY <2>5, <3>2
    <3>. HIDE DEF out, at
    <3>4. Brings(out, n, n) /\ out.state = t
      BY <3>3, IgnoreBrings
    <3>5. ClaudeNumbers(out.state, w, parts, n) /\ n <= Count(parts)
      <4>1. n <= n
        OBVIOUS
      <4>2. w.kind # "tool"
        BY <2>4
      <4>. QED BY <2>4, <3>1, <3>4, <4>1, <4>2 DEF ClaudeNumbers
    <3>. QED BY <1>0, <1>1, <1>3, <2>1, <2>4, <3>4, <3>5, ClaudeSends DEF out, t, parts
  <2>. QED BY <2>6, <2>7
<1>9. CASE ClaudeStops
  <2> DEFINE reasons == IF Calls # {} THEN {"tool_use", "max_tokens"}
                        ELSE {"end_turn", "max_tokens"}
             ph == "stopped"
             w == [wire EXCEPT !.phase = ph]
  <2>1. PICK r \in reasons : \E usage, s :
            /\ Sends([type |-> "message_delta", reason |-> r, usage |-> usage], w, s)
            /\ SaidOK(s) /\ s.parts = said.parts
    <3>1. PICK again \in BOOLEAN :
            LET counts == IF again THEN [said.usage EXCEPT !.output = 1]
                          ELSE [input |-> 0, output |-> 1, read |-> 0]
            IN \E r \in reasons :
                  Sends([type |-> "message_delta", reason |-> r, usage |-> counts],
                        [wire EXCEPT !.phase = "stopped"],
                        [said EXCEPT !.stop = r, !.usage.output = 1])
      BY <1>9 DEF ClaudeStops
    <3> DEFINE counts == IF again THEN [said.usage EXCEPT !.output = 1]
                         ELSE [input |-> 0, output |-> 1, read |-> 0]
    <3>2. PICK r \in reasons :
                  Sends([type |-> "message_delta", reason |-> r, usage |-> counts], w,
                        [said EXCEPT !.stop = r, !.usage.output = 1])
      BY <3>1
    <3> DEFINE u == [said.usage EXCEPT !.output = 1]
               a == [said EXCEPT !.stop = r]
               b == [a EXCEPT !.usage = u]
    <3>3. [said EXCEPT !.stop = r, !.usage.output = 1] = b
      OBVIOUS
    <3>. HIDE DEF counts, u, w
    <3>4. SaidOK(a) /\ a.parts = said.parts
      BY <1>0, SaidOther
    <3>. HIDE DEF a
    <3>5. SaidOK(b) /\ b.parts = said.parts
      BY <3>4, SaidOther
    <3>. HIDE DEF b
    <3>. QED BY <3>2, <3>3, <3>5
  <2>2. PICK usage, s :
            /\ Sends([type |-> "message_delta", reason |-> r, usage |-> usage], w, s)
            /\ SaidOK(s) /\ s.parts = said.parts
    BY <2>1
  <2> DEFINE e == [type |-> "message_delta", reason |-> r, usage |-> usage]
             out == ClaudeConvert(t, e)
             more == MergeUsage(t.usage, e.usage)
             f == ClaudeStopReason(e.reason)
             yes == TRUE
             a == [t EXCEPT !.usage = more]
             b == [a EXCEPT !.sent = yes]
             c == [b EXCEPT !.finish = f]
  <2>3. /\ Sends(e, w, s) /\ e.type = "message_delta" /\ e.reason = r /\ r # ""
        /\ r = "tool_use" => Calls # {}
    BY <2>2
  <2>. HIDE DEF e, reasons
  <2>4. out = Emit(c, <<ClaudeFinish(c)>>)
    <3>1. out = LET x == [t EXCEPT !.usage = more, !.sent = yes, !.finish = f]
                IN  Emit(x, <<ClaudeFinish(x)>>)
      BY <2>3 DEF ClaudeConvert
    <3>. HIDE DEF more, yes, f
    <3>. QED BY <3>1
  <2>5. f = "tool_calls" => r = "tool_use"
    BY <2>3 DEF ClaudeStopReason
  <2>. HIDE DEF more, yes, f, out
  <2>6. c.finish = f
    <3>1. ClaudeKnows(t)
      BY <1>2 DEF ClaudeKnows
    <3>2. ClaudeKnows(a)
      BY <3>1, ClaudeOther
    <3>. HIDE DEF a
    <3>3. ClaudeKnows(b)
      BY <3>2, ClaudeOther
    <3>. HIDE DEF b
    <3>. QED BY <3>3, ClaudeOther
  <2>. HIDE DEF c
  <2>7. n = Count(parts)
    BY <1>4, <1>9 DEF ClaudeStops, ClaudeNumbers
  <2>8. Calls # {} => n > 0
    <3>1. Calls = CallsIn(parts)
      BY DEF Calls, CallsIn, IsCall, parts
    <3>2. IsFiniteSet(CallsIn(parts))
      BY <1>0, CallsFinite DEF SaidOK, parts
    <3>3. CallsIn(parts) # {} => n # 0
      BY <2>7, <3>2, FS_EmptySet DEF Count
    <3>. QED BY <1>3, <3>1, <3>3
  <2>9. Wordless(ClaudeFinish(c)) /\ ClaudeFinish(c).finish = f
    BY <2>6, WordlessAre DEF ClaudeFinish
  <2>10. Brings(out, n, n)
    BY <2>3, <2>4, <2>5, <2>8, <2>9, EmitBrings
  <2>11. WireOK(w) /\ w.phase \notin {"start", "body"}
    <3>1. WireOK(w) /\ w.phase = ph
      BY ONLY <1>0, WireOther
    <3>. QED BY <3>1
  <2>12. out = Convert(translator, e)
    BY <1>1 DEF Convert, out, t
  <2>. HIDE DEF w
  <2>. QED BY <1>3, <2>2, <2>3, <2>10, <2>11, <2>12, ToolStays
<1>10. CASE ClaudeSaysStop
  <2> DEFINE e == [type |-> "message_stop"]
             ph == "over"
             w == [wire EXCEPT !.phase = ph]
             out == Convert(translator, e)
  <2>1. Sends(e, w, said) /\ e.type = "message_stop" /\ wire.phase = "stopped"
    BY <1>10 DEF ClaudeSaysStop
  <2>. HIDE DEF e
  <2>2. WireOK(w) /\ w.phase \notin {"start", "body"}
    <3>1. WireOK(w) /\ w.phase = ph
      BY ONLY <1>0, WireOther
    <3>. QED BY <3>1
  <2>. HIDE DEF w
  <2>3. translator.sent = TRUE
    BY <1>1, <2>1 DEF DialectsInv
  <2>4. out = ClaudeConvert(translator, e)
    BY <1>1 DEF Convert
  <2>. HIDE DEF out
  <2>5. out = Ignore(translator)
    BY <2>1, <2>3, <2>4, ClaudeOver
  <2>6. Brings(out, n, n)
    BY <2>5, IgnoreBrings
  <2>. QED BY <1>0, <1>3, <2>1, <2>2, <2>6, ToolStays DEF out
<1>. QED BY <1>5, <1>6, <1>7, <1>8, <1>9, <1>10

-----------------------------------------------------------------------------
(* An OpenAI upstream.                                                     *)

\* An OpenAI upstream, by what it says and what is told of it.
LEMMA OpenAiSends ==
  ASSUME NEW e, NEW w, NEW s, Sends(e, w, s), WireOK(w), SaidOK(s), provider = "openai",
         e.type = "chunk", NEW n \in Nat, ToolsOf(n),
         NEW m, Brings(Emit(translator, <<e.chunk>>), n, m), OpenAiNumbers(w, s.parts, m)
  PROVE  ToolInv'
<1> DEFINE out == Emit(translator, <<e.chunk>>)
<1>1. out = Convert(translator, e)
  BY DEF Convert
<1>2. Brings(out, n, m)
  OBVIOUS
<1>. HIDE DEF out
<1>3. m \in Nat /\ ToldOf(dialect', chat'.calls, m)
  BY <1>1, <1>2, FeedTells DEF Sends, ToolsOf
<1>4. Numbers(out.state, w, s.parts, m)
  BY DEF Numbers
<1>5. m <= Count(s.parts)
  BY <1>3 DEF OpenAiNumbers
<1>. QED BY <1>1, <1>3, <1>4, <1>5, ToolSends

\* It stops to run tools only after a call.
LEMMA OpenAiTools ==
  ASSUME DialectsInv, ToolInv,
         \/ OpenAiSendsText \/ OpenAiOpensCall \/ OpenAiSendsArguments \/ OpenAiStops
         \/ OpenAiCounts \/ OpenAiFails
  PROVE  ToolInv'
<1>0. WireOK(wire) /\ SaidOK(said)
  BY DEF DialectsInv, ToolInv
<1>1. provider = "openai"
  BY DEF OpenAiSendsText, OpenAiOpensCall, OpenAiSendsArguments, OpenAiStops,
         OpenAiCounts, OpenAiFails, Talking
<1> DEFINE parts == said.parts
<1>2. PICK n \in Nat : ToolsOf(n)
  BY DEF ToolInv
<1>3. wire.phase \in {"start", "body"} => n = Count(parts) /\ wire.open \subseteq CallsIn(parts)
  BY <1>1, <1>2 DEF ToolsOf, Numbers, OpenAiNumbers
<1>4. /\ IsSeq(parts) /\ Len(parts) \in Nat /\ CallsIn(parts) \subseteq 1 .. Len(parts)
      /\ IsFiniteSet(CallsIn(parts))
  BY <1>0, CallsFinite DEF SaidOK
<1>5. Calls = CallsIn(parts)
  BY DEF Calls, CallsIn, IsCall
<1>. HIDE DEF parts
<1>6. ASSUME NEW c
      PROVE  /\ [type |-> "chunk", chunk |-> c].type = "chunk"
             /\ [type |-> "chunk", chunk |-> c].chunk = c
  OBVIOUS
<1>7. CASE OpenAiSendsText
  <2>1. PICK c, kind : /\ Sends([type |-> "chunk", chunk |-> c], wire, SaysPart(Part(kind, Now)))
                       /\ Wordless(c) /\ c.finish = "" /\ kind # "call"
    <3>1. "text" # "call" /\ "thought" # "call"
      OBVIOUS
    <3>. QED BY <1>7, <3>1, WordlessAre DEF OpenAiSendsText
  <2> DEFINE e == [type |-> "chunk", chunk |-> c]
             p == Part(kind, Now)
             s == SaysPart(p)
  <2>2. Sends(e, wire, s) /\ e.type = "chunk" /\ e.chunk = c
    BY <1>6, <2>1
  <2>3. PartOK(p) /\ ~IsCall(p)
    BY <2>1, PartIs
  <2>. HIDE DEF e, p
  <2>4. SaidOK(s) /\ s.parts = Append(parts, p)
    BY <1>0, <2>3, SaysPartIs DEF parts
  <2>. HIDE DEF s
  <2>5. CallsIn(s.parts) = CallsIn(parts) /\ Count(s.parts) = Count(parts)
    BY <1>4, <2>3, <2>4, PartMore
  <2>6. Brings(Emit(translator, <<e.chunk>>), n, n)
    BY <2>1, <2>2, EmitBrings
  <2>7. OpenAiNumbers(wire, s.parts, n)
    BY <1>3, <1>7, <2>5 DEF OpenAiNumbers, OpenAiSendsText, Talking
  <2>. QED BY <1>0, <1>1, <1>2, <2>2, <2>4, <2>6, <2>7, OpenAiSends
<1>8. CASE OpenAiOpensCall
  <2>1. PICK args :
          LET part == CallPart(args, TRUE)
              index == Cardinality(Calls)
          IN  Sends([type |-> "chunk", chunk |-> Tool(Call(index, part.id, part.name, args))],
                    [wire EXCEPT !.open = @ \union {Len(said.parts) + 1}], SaysPart(part))
    BY <1>8 DEF OpenAiOpensCall
  <2> DEFINE p == CallPart(args, TRUE)
             c == Tool(Call(n, p.id, p.name, args))
             e == [type |-> "chunk", chunk |-> c]
             open == wire.open \union {Len(parts) + 1}
             w == [wire EXCEPT !.open = open]
             s == SaysPart(p)
             out == Emit(translator, <<e.chunk>>)
  <2>2. n = Count(parts) /\ wire.open \subseteq CallsIn(parts) /\ MoreParts
    BY <1>3, <1>8 DEF OpenAiOpensCall, Talking
  <2>3. Sends(e, w, s) /\ e.type = "chunk" /\ e.chunk = c
    <3>1. n = Cardinality(Calls)
      BY <1>5, <2>2 DEF Count
    <3>2. Sends(e, w, s)
      BY <2>1, <3>1 DEF parts
    <3>. QED BY <1>6, <3>2
  <2>4. OneCall(out, translator, n)
    BY <2>3 DEF OneCall
  <2>5. PartOK(p) /\ IsCall(p)
    BY <1>0, <2>2, CallPartIs, CallIsNew
  <2>. HIDE DEF e, c, p
  <2>6. SaidOK(s) /\ s.parts = Append(parts, p)
    BY <1>0, <2>5, SaysPartIs DEF parts
  <2>. HIDE DEF s
  <2>7. CallsIn(s.parts) = CallsIn(parts) \union {Len(parts) + 1} /\ Count(s.parts) = n + 1
    BY <1>4, <2>2, <2>5, <2>6, PartMore
  <2>8. open \subseteq CallsIn(s.parts)
    BY <2>2, <2>7
  <2>. HIDE DEF open
  <2>9. WireOK(w) /\ w.open = open
    BY ONLY <1>0, WireOther, WireFields, ZenonT(60)
  <2>. HIDE DEF w, out
  <2>10. n \in 0 .. n
    OBVIOUS
  <2>11. Brings(out, n, n + 1)
    BY <2>4, <2>10, CallBrings
  <2>12. OpenAiNumbers(w, s.parts, n + 1)
    BY <2>7, <2>8, <2>9 DEF OpenAiNumbers
  <2>. QED BY <1>1, <1>2, <2>3, <2>6, <2>9, <2>11, <2>12, OpenAiSends DEF out
<1>9. CASE OpenAiSendsArguments
  <2>1. PICK i \in wire.open :
            Sends([type |-> "chunk", chunk |-> Tool(Call(IndexOf(i), "", "", <<Now>>))],
                  wire, Says(i, Now))
    BY <1>9 DEF OpenAiSendsArguments
  <2> DEFINE k == IndexOf(i)
             c == Tool(Call(k, "", "", <<Now>>))
             e == [type |-> "chunk", chunk |-> c]
             s == Says(i, Now)
             out == Emit(translator, <<e.chunk>>)
  <2>2. n = Count(parts) /\ wire.open \subseteq CallsIn(parts)
    BY <1>3, <1>9 DEF OpenAiSendsArguments, Talking
  <2>3. Sends(e, wire, s) /\ e.type = "chunk" /\ e.chunk = c
    BY <1>6, <2>1
  <2>4. OneCall(out, translator, k)
    BY <2>3 DEF OneCall
  <2>. HIDE DEF e, c
  <2>5. i \in CallsIn(parts) /\ i \in 1 .. Len(parts)
    BY <1>4, <2>2
  <2>6. SaidOK(s) /\ CallsIn(s.parts) = CallsIn(parts) /\ Count(s.parts) = Count(parts)
    BY <1>0, <2>5, SaysIs DEF parts
  <2>. HIDE DEF s
  <2>7. k \in 0 .. n /\ k # n
    <3> DEFINE L == {j \in Calls : j < i}
    <3>1. L \subseteq CallsIn(parts) /\ i \notin L /\ k = Cardinality(L)
      <4>1. ~(i < i)
        BY <2>5
      <4>. QED BY <1>5, <4>1 DEF IndexOf
    <3>. HIDE DEF L, k
    <3>2. IsFiniteSet(L) /\ Cardinality(L) \in Nat
      BY <1>4, <3>1, FS_Subset, FS_CardinalityType
    <3>3. Cardinality(L \union {i}) = Cardinality(L) + 1
      BY <3>1, <3>2, FS_AddElement
    <3>4. L \union {i} \in SUBSET CallsIn(parts)
      BY <2>5, <3>1
    <3>5. Cardinality(L \union {i}) <= Cardinality(CallsIn(parts))
      BY <1>4, <3>4, FS_Subset
    <3>. QED BY <2>2, <3>1, <3>2, <3>3, <3>5 DEF Count
  <2>. HIDE DEF k, out
  <2>8. Brings(out, n, n)
    BY <2>4, <2>7, CallBrings
  <2>9. OpenAiNumbers(wire, s.parts, n)
    BY <2>2, <2>6 DEF OpenAiNumbers
  <2>. QED BY <1>0, <1>1, <1>2, <2>3, <2>6, <2>8, <2>9, OpenAiSends DEF out
<1>10. CASE OpenAiStops
  <2> DEFINE reasons == IF wire.open = {} THEN {"stop", "length"} ELSE {"tool_calls", "length"}
             ph == "over"
             w == [wire EXCEPT !.phase = ph]
  <2>1. PICK reason, counts :
            /\ reason \in reasons
            /\ Sends([type |-> "chunk", chunk |-> Finish(reason, counts)], w,
                     [said EXCEPT !.stop = reason, !.usage = counts])
    BY <1>10 DEF OpenAiStops
  <2> DEFINE a == [said EXCEPT !.stop = reason]
             s == [a EXCEPT !.usage = counts]
             c == Finish(reason, counts)
             e == [type |-> "chunk", chunk |-> c]
             out == Convert(translator, e)
  <2>2. Sends(e, w, s) /\ e.type = "chunk" /\ e.chunk = c
    <3>1. [said EXCEPT !.stop = reason, !.usage = counts] = s
      OBVIOUS
    <3>. QED BY <1>6, <2>1, <3>1
  <2>3. SaidOK(a) /\ a.parts = said.parts
    BY <1>0, SaidOther
  <2>. HIDE DEF a
  <2>4. SaidOK(s) /\ s.parts = said.parts
    BY <2>3, SaidOther
  <2>5. WireOK(w) /\ w.phase \notin {"start", "body"}
    <3>1. WireOK(w) /\ w.phase = ph
      BY ONLY <1>0, WireOther
    <3>. QED BY <3>1
  <2>6. reason = "tool_calls" => wire.open # {}
    BY <2>1
  <2>7. wire.open # {} => n > 0
    <3>1. n = Count(parts) /\ wire.open \subseteq CallsIn(parts)
      BY <1>3, <1>10 DEF OpenAiStops, Talking
    <3>2. CallsIn(parts) # {} => n # 0
      BY <1>4, <3>1, FS_EmptySet DEF Count
    <3>. QED BY <1>2, <3>1, <3>2
  <2>8. Wordless(c) /\ c.finish = reason
    BY WordlessAre
  <2>. HIDE DEF s, c, e, w
  <2>9. out = Emit(translator, <<c>>)
    BY <1>1, <2>2 DEF Convert
  <2>. HIDE DEF out
  <2>10. Brings(out, n, n)
    BY <2>6, <2>7, <2>8, <2>9, EmitBrings
  <2>. QED BY <1>2, <2>2, <2>4, <2>5, <2>10, ToolStays DEF out
<1>11. CASE OpenAiCounts
  <2> DEFINE e == [type |-> "chunk", chunk |-> Empty]
             out == Convert(translator, e)
  <2>1. Sends(e, wire, said) /\ e.type = "chunk" /\ e.chunk = Empty /\ wire.phase = "over"
    BY <1>6, <1>11 DEF OpenAiCounts
  <2>. HIDE DEF e
  <2>2. out = Emit(translator, <<Empty>>)
    BY <1>1, <2>1 DEF Convert
  <2>. HIDE DEF out
  <2>3. Brings(out, n, n)
    BY <2>2, EmitBrings, WordlessAre
  <2>4. wire.phase \notin {"start", "body"}
    BY <2>1
  <2>. QED BY <1>0, <1>2, <2>1, <2>3, <2>4, ToolStays DEF out
<1>12. CASE OpenAiFails
  <2> DEFINE e == [type |-> "error"]
             out == Convert(translator, e)
  <2>1. Sends(e, wire, said)
    BY <1>12 DEF OpenAiFails
  <2>2. out = Fail(translator)
    BY <1>1 DEF Convert
  <2>. HIDE DEF out, e
  <2>3. Brings(out, n, n) /\ out.failed = TRUE
    BY <2>2, FailBrings
  <2>. QED BY <1>0, <1>2, <2>1, <2>3, ToolStays DEF out
<1>. QED BY <1>7, <1>8, <1>9, <1>10, <1>11, <1>12

-----------------------------------------------------------------------------
(* A Gemini upstream.                                                      *)

\* Chunks that bring the clients from one number of calls to another.
TellsAll(chunks, n, m) ==
    /\ IsSeq(chunks)
    /\ \A acc : ToldOf(acc.dialect, acc.chat.calls, n) =>
                    ToldOf(FoldLeft(Relay, acc, chunks).dialect,
                           FoldLeft(Relay, acc, chunks).chat.calls, m)

\* No chunks tell of nothing.
LEMMA TellsNone ==
  ASSUME NEW n PROVE TellsAll(<<>>, n, n)
<1>1. IsSeq(<<>>)
  BY DEF IsSeq
<1>. QED BY <1>1, FoldsOfFew DEF TellsAll

\* One chunk more tells of what it brings.
LEMMA TellsMore ==
  ASSUME NEW n, NEW m \in Nat, NEW chunks, TellsAll(chunks, n, m)
  PROVE  /\ \A c : Wordless(c) /\ (c.finish = "tool_calls" => m > 0) =>
                       TellsAll(Append(chunks, c), n, m)
         /\ \A id, name, args : TellsAll(Append(chunks, Tool(Call(m, id, name, args))), n, m + 1)
<1>1. IsSeq(chunks) /\ \A c : IsSeq(Append(chunks, c))
  BY SeqMore DEF TellsAll
<1>2. ASSUME NEW c, Wordless(c), c.finish = "tool_calls" => m > 0
      PROVE  TellsAll(Append(chunks, c), n, m)
  <2> DEFINE t == Append(chunks, c)
  <2>1. ASSUME NEW acc, ToldOf(acc.dialect, acc.chat.calls, n)
        PROVE  ToldOf(FoldLeft(Relay, acc, t).dialect, FoldLeft(Relay, acc, t).chat.calls, m)
    <3> DEFINE a == FoldLeft(Relay, acc, chunks)
    <3>1. ToldOf(a.dialect, a.chat.calls, m)
      BY <2>1 DEF TellsAll
    <3>2. FoldLeft(Relay, acc, t) = Relay(a, c)
      BY <1>1, RelayMore
    <3>. HIDE DEF a, t
    <3>3. ToldOf(Relay(a, c).dialect, Relay(a, c).chat.calls, m)
      BY <1>2, <3>1, RelayText
    <3>. QED BY <3>2, <3>3
  <2>2. IsSeq(t)
    BY <1>1
  <2>. HIDE DEF t
  <2>3. TellsAll(t, n, m)
    BY <2>1, <2>2 DEF TellsAll
  <2>. QED BY <2>3 DEF t
<1>3. ASSUME NEW id, NEW name, NEW args
      PROVE  TellsAll(Append(chunks, Tool(Call(m, id, name, args))), n, m + 1)
  <2> DEFINE c == Tool(Call(m, id, name, args))
             t == Append(chunks, c)
  <2>1. ASSUME NEW acc, ToldOf(acc.dialect, acc.chat.calls, n)
        PROVE  ToldOf(FoldLeft(Relay, acc, t).dialect, FoldLeft(Relay, acc, t).chat.calls, m + 1)
    <3> DEFINE a == FoldLeft(Relay, acc, chunks)
    <3>1. ToldOf(a.dialect, a.chat.calls, m)
      BY <2>1 DEF TellsAll
    <3>2. FoldLeft(Relay, acc, t) = Relay(a, c)
      BY <1>1, RelayMore
    <3>3. m \in 0 .. m
      OBVIOUS
    <3>. HIDE DEF a, t
    <3>4. ToldOf(Relay(a, c).dialect, Relay(a, c).chat.calls, m + 1)
      BY <3>1, <3>3, RelayTool
    <3>. QED BY <3>2, <3>4
  <2>2. IsSeq(t)
    BY <1>1
  <2>. HIDE DEF t
  <2>3. TellsAll(t, n, m + 1)
    BY <2>1, <2>2 DEF TellsAll
  <2>. QED BY <2>3 DEF t, c
<1>. QED BY <1>2, <1>3

\* Folds of at most two parts.
LEMMA PartsFew ==
  ASSUME NEW base, NEW x, NEW y
  PROVE  /\ FoldLeft(GeminiPart, base, <<>>) = base
         /\ FoldLeft(GeminiPart, base, <<x>>) = GeminiPart(base, x)
         /\ FoldLeft(GeminiPart, base, <<x, y>>) = GeminiPart(GeminiPart(base, x), y)
<1> DEFINE one == <<x>>
           two == <<x, y>>
<1>1. IsSeq(one) /\ Len(one) = 1 /\ one[1] = x
  BY OneIs
<1>2. IsSeq(two) /\ Len(two) = 2 /\ two[1] = x /\ two[2] = y
  BY FewAre
<1>3. IsSeq(<<>>) /\ Len(<<>>) = 0
  BY DEF IsSeq
<1>4. 0 \in 0 .. 1 - 1 /\ 0 + 1 = 1 /\ 0 \in 0 .. 2 - 1 /\ 1 \in 0 .. 2 - 1 /\ 1 + 1 = 2
  OBVIOUS
<1>. HIDE DEF one, two
<1>5. FoldLeft(GeminiPart, base, <<>>) = base
  <2>1. \E g : Steps("parts", base, <<>>, 0, g) /\ FoldLeft(GeminiPart, base, <<>>) = g[0]
    BY ONLY <1>3, PartsSteps
  <2>. QED BY <2>1 DEF Steps
<1>6. FoldLeft(GeminiPart, base, one) = GeminiPart(base, x)
  <2>1. PICK g : Steps("parts", base, one, 1, g) /\ FoldLeft(GeminiPart, base, one) = g[1]
    BY ONLY <1>1, PartsSteps
  <2>2. g[0] = base /\ g[0 + 1] = FoldStep("parts", g[0], one[0 + 1])
    BY <1>4, <2>1 DEF Steps
  <2>. QED BY <1>1, <1>4, <2>1, <2>2 DEF FoldStep
<1>7. FoldLeft(GeminiPart, base, two) = GeminiPart(GeminiPart(base, x), y)
  <2>1. PICK g : Steps("parts", base, two, 2, g) /\ FoldLeft(GeminiPart, base, two) = g[2]
    BY ONLY <1>2, PartsSteps
  <2>2. /\ g[0] = base /\ g[0 + 1] = FoldStep("parts", g[0], two[0 + 1])
        /\ g[1 + 1] = FoldStep("parts", g[1], two[1 + 1])
    BY <1>4, <2>1 DEF Steps
  <2>. QED BY <1>2, <1>4, <2>1, <2>2 DEF FoldStep
<1>. QED BY <1>5, <1>6, <1>7 DEF one, two

\* An answer with at most two parts more.
LEMMA PartsAdd ==
  ASSUME NEW parts, IsSeq(parts), NEW x, NEW y
  PROVE  /\ parts \o <<>> = parts /\ parts \o <<x>> = Append(parts, x)
         /\ parts \o <<x, y>> = Append(Append(parts, x), y)
<1>1. PICK X : parts \in Seq(X)
  BY DEF IsSeq
<1> DEFINE Y == X \union {x, y}
<1>2. parts \in Seq(Y) /\ x \in Y /\ y \in Y
  BY <1>1
<1>. HIDE DEF Y
<1>3. parts \o <<>> = parts
  BY <1>2
<1>4. parts \o <<x>> = Append(parts, x)
  BY <1>2
<1>5. parts \o <<x, y>> = Append(Append(parts, x), y)
  BY <1>2
<1>. QED BY <1>3, <1>4, <1>5

\* The same of two parts by another name.
LEMMA PartsTwo ==
  ASSUME NEW base, NEW two, IsSeq(two), Len(two) = 2
  PROVE  FoldLeft(GeminiPart, base, two) = GeminiPart(GeminiPart(base, two[1]), two[2])
<1>1. 0 \in 0 .. 2 - 1 /\ 0 + 1 = 1 /\ 1 \in 0 .. 2 - 1 /\ 1 + 1 = 2
  OBVIOUS
<1>2. PICK g : Steps("parts", base, two, 2, g) /\ FoldLeft(GeminiPart, base, two) = g[2]
  BY ONLY IsSeq(two), Len(two) = 2, PartsSteps
<1>3. /\ g[0] = base /\ g[0 + 1] = FoldStep("parts", g[0], two[0 + 1])
      /\ g[1 + 1] = FoldStep("parts", g[1], two[1 + 1])
  BY <1>1, <1>2 DEF Steps
<1>. QED BY <1>1, <1>2, <1>3 DEF FoldStep

\* What a payload may bring: no part, a text, a thought, a call, or a call that has
\* no name and a text.
Parcels ==
    {<<>>, <<Part("text", Now)>>, <<Part("thought", Now)>>, <<CallPart(<<Now>>, TRUE)>>,
     <<[CallPart(<<>>, TRUE) EXCEPT !.name = ""], Part("text", Now)>>}

\* The calls of a parcel are told, and said.
LEMMA ParcelTells ==
  ASSUME SaidOK(said), NEW n \in Nat, NEW parts \in Parcels,
         Len(said.parts) + Len(parts) <= MaxParts, NEW role, TellsAll(role, n, n)
  PROVE  \E m \in Nat :
            /\ m \in {n, n + 1}
            /\ FoldLeft(GeminiPart, [next |-> n, chunks |-> role], parts).next = m
            /\ TellsAll(FoldLeft(GeminiPart, [next |-> n, chunks |-> role], parts).chunks, n, m)
            /\ IsSeq(said.parts \o parts)
            /\ \A i \in 1 .. Len(said.parts \o parts) : PartOK((said.parts \o parts)[i])
            /\ Count(said.parts \o parts) = Count(said.parts) + (m - n)
<1> DEFINE base == [next |-> n, chunks |-> role]
           old == said.parts
           a == Part("text", Now)
           b == Part("thought", Now)
           c == CallPart(<<Now>>, TRUE)
           d == [CallPart(<<>>, TRUE) EXCEPT !.name = ""]
           out == FoldLeft(GeminiPart, base, parts)
           new == old \o parts
           Goal(m) == /\ out.next = m /\ TellsAll(out.chunks, n, m)
                      /\ IsSeq(new) /\ (\A i \in 1 .. Len(new) : PartOK(new[i]))
                      /\ Count(new) = Count(old) + (m - n)
<1>1. base.next = n /\ base.chunks = role /\ base = [next |-> n, chunks |-> role]
  OBVIOUS
<1>2. IsSeq(old) /\ (\A i \in 1 .. Len(old) : PartOK(old[i])) /\ Count(old) \in Nat
      /\ Len(old) \in Nat
  BY CallsFinite DEF SaidOK
<1>3. PartOK(a) /\ ~IsCall(a) /\ a.kind = "text" /\ PartOK(b) /\ ~IsCall(b) /\ b.kind = "thought"
  <2>1. "text" # "call" /\ "thought" # "call"
    OBVIOUS
  <2>2. a.kind = "text" /\ b.kind = "thought"
    BY DEF Part
  <2>. QED BY <2>1, <2>2, PartIs
<1>4. PartOK(c) /\ c.kind = "call"
  BY CallPartIs
<1>5. PartOK(d) /\ ~IsCall(d) /\ d.kind = "call" /\ d.name = ""
  <2> DEFINE p == CallPart(<<>>, TRUE)
             none == ""
             q == [p EXCEPT !.name = none]
  <2>1. PartOK(p) /\ p.kind = "call"
    BY CallPartIs
  <2>2. p = [kind |-> p.kind, piece |-> p.piece, id |-> p.id, name |-> p.name,
             args |-> p.args, announced |-> p.announced] /\ p.announced \in BOOLEAN
    BY <2>1 DEF PartOK
  <2>. HIDE DEF p, none
  <2>3. q = [kind |-> p.kind, piece |-> p.piece, id |-> p.id, name |-> none,
             args |-> p.args, announced |-> p.announced]
    BY ONLY <2>2
  <2>4. q = d
    BY DEF p, none
  <2>. HIDE DEF q
  <2>5. q.kind = p.kind /\ q.name = none /\ q.announced = p.announced /\ PartOK(q)
    BY <2>2, <2>3 DEF PartOK
  <2>. QED BY <2>1, <2>4, <2>5 DEF IsCall, none
<1>6. parts = <<>> \/ parts = <<a>> \/ parts = <<b>> \/ parts = <<c>> \/ parts = <<d, a>>
  BY DEF Parcels
<1>. HIDE DEF a, b, c, d, base, old
<1>7. ASSUME NEW o, NEW p, p.kind = "text"
      PROVE  GeminiPart(o, p) = [o EXCEPT !.chunks = Append(@, Text(p.piece))]
  BY <1>7 DEF GeminiPart
<1>8. ASSUME NEW o, NEW p, p.kind = "thought"
      PROVE  GeminiPart(o, p) = [o EXCEPT !.chunks = Append(@, Thought(p.piece))]
  BY <1>8 DEF GeminiPart
<1>9. GeminiPart(base, d) = base
  BY <1>5 DEF GeminiPart
<1>10. ASSUME NEW p, p.kind = "text" \/ p.kind = "thought"
       PROVE  /\ GeminiPart(base, p).next = n
              /\ TellsAll(GeminiPart(base, p).chunks, n, n)
  <2>1. PICK word : GeminiPart(base, p) = [base EXCEPT !.chunks = Append(@, word)]
                    /\ Wordless(word) /\ word.finish = ""
    <3>1. CASE p.kind = "text"
      <4> DEFINE word == Text(p.piece)
      <4>1. GeminiPart(base, p) = [base EXCEPT !.chunks = Append(@, word)]
        BY <1>7, <3>1
      <4>2. Wordless(word) /\ word.finish = ""
        BY WordlessAre
      <4>. HIDE DEF word
      <4>. QED BY <4>1, <4>2
    <3>2. CASE p.kind = "thought"
      <4> DEFINE word == Thought(p.piece)
      <4>1. GeminiPart(base, p) = [base EXCEPT !.chunks = Append(@, word)]
        BY <1>8, <3>2
      <4>2. Wordless(word) /\ word.finish = ""
        BY WordlessAre
      <4>. HIDE DEF word
      <4>. QED BY <4>1, <4>2
    <3>. QED BY <1>10, <3>1, <3>2
  <2> DEFINE more == Append(role, word)
             o == [base EXCEPT !.chunks = more]
  <2>2. GeminiPart(base, p) = o
    BY <1>1, <2>1
  <2>3. TellsAll(more, n, n)
    BY <2>1, TellsMore
  <2>. HIDE DEF more
  <2>4. o = [next |-> n, chunks |-> more]
    BY ONLY <1>1
  <2>. HIDE DEF o
  <2>5. o.next = n /\ o.chunks = more
    BY <2>4
  <2>. QED BY <2>2, <2>3, <2>5
<1>11. n - n = 0 /\ Count(old) + 0 = Count(old) /\ (n + 1) - n = 1 /\ n + 1 \in Nat
  BY <1>2
<1>12. ASSUME NEW p, PartOK(p)
       PROVE  LET t == Append(old, p) IN
              /\ IsSeq(t) /\ \A i \in 1 .. Len(t) : PartOK(t[i])
              /\ Count(t) = IF IsCall(p) THEN Count(old) + 1 ELSE Count(old)
  <2> DEFINE t == Append(old, p)
  <2>1. /\ IsSeq(t) /\ Len(t) = Len(old) + 1 /\ t[Len(old) + 1] = p
        /\ \A k \in 1 .. Len(old) : t[k] = old[k]
        /\ Count(t) = IF IsCall(p) THEN Count(old) + 1 ELSE Count(old)
    BY <1>2, PartMore
  <2>. HIDE DEF t
  <2>2. \A i \in 1 .. Len(t) : i \in 1 .. Len(old) \/ i = Len(old) + 1
    BY <1>2, <2>1
  <2>3. \A i \in 1 .. Len(t) : PartOK(t[i])
    BY <1>2, <1>12, <2>1, <2>2
  <2>. QED BY <2>1, <2>3 DEF t
<1>13. CASE parts = <<>>
  <2>1. out = base /\ new = old
    BY <1>2, <1>13, PartsFew, PartsAdd
  <2>. HIDE DEF out, new
  <2>2. Goal(n)
    BY <1>1, <1>2, <1>11, <2>1
  <2>. QED BY <2>2 DEF out, new, base, old
<1>14. ASSUME NEW p, parts = <<p>>, p = a \/ p = b PROVE Goal(n)
  <2>1. out = GeminiPart(base, p) /\ new = Append(old, p)
    BY <1>2, <1>14, PartsFew, PartsAdd
  <2>. HIDE DEF out, new
  <2>2. PartOK(p) /\ ~IsCall(p) /\ (p.kind = "text" \/ p.kind = "thought")
    BY <1>3, <1>14
  <2>. QED BY <1>10, <1>11, <1>12, <2>1, <2>2
<1>15. CASE parts = <<a>> \/ parts = <<b>>
  <2>1. Goal(n)
    BY <1>14, <1>15
  <2>. QED BY <2>1 DEF base, old
<1>16. CASE parts = <<c>>
  <2>1. out = GeminiPart(base, c) /\ new = Append(old, c)
    BY <1>2, <1>16, PartsFew, PartsAdd
  <2>2. MoreParts
    <3>1. Len(old) + 1 <= MaxParts
      BY <1>16, OnesAre DEF old
    <3>. QED BY <1>2, <3>1, BoundsAssumption DEF MoreParts, old
  <2>3. IsCall(c)
    BY <2>2, CallIsNew DEF c
  <2> DEFINE call == Call(n, GeminiId(n), c.name, c.args)
             more == Append(role, Tool(call))
  <2>4. GeminiPart(base, c) = [next |-> n + 1, chunks |-> more]
    BY <1>1, <2>3 DEF GeminiPart, IsCall
  <2>5. TellsAll(more, n, n + 1)
    BY TellsMore
  <2>. HIDE DEF out, new, more
  <2>6. out.next = n + 1 /\ out.chunks = more
    BY <2>1, <2>4
  <2>7. Goal(n + 1)
    BY <1>4, <1>11, <1>12, <2>1, <2>3, <2>5, <2>6
  <2>. QED BY <1>11, <2>7 DEF out, new, base, old
<1>17. CASE parts = <<d, a>>
  <2>1. out = GeminiPart(base, a) /\ new = Append(Append(old, d), a)
    <3>1. out = GeminiPart(GeminiPart(base, d), a)
      <4>1. IsSeq(parts) /\ Len(parts) = 2 /\ parts[1] = d /\ parts[2] = a
        BY <1>17, FewAre
      <4>2. FoldLeft(GeminiPart, base, parts)
              = GeminiPart(GeminiPart(base, parts[1]), parts[2])
        BY ONLY <4>1, PartsTwo
      <4>. QED BY <4>1, <4>2
    <3>2. new = Append(Append(old, d), a)
      BY <1>2, <1>17, PartsAdd
    <3>. HIDE DEF out, new
    <3>. QED BY <1>9, <3>1, <3>2
  <2> DEFINE mid == Append(old, d)
  <2>2. IsSeq(mid) /\ (\A i \in 1 .. Len(mid) : PartOK(mid[i])) /\ Count(mid) = Count(old)
    BY <1>5, <1>12
  <2>. HIDE DEF out, new, mid
  <2>3. new = Append(mid, a)
    BY <2>1 DEF mid
  <2>4. /\ IsSeq(new) /\ Len(new) = Len(mid) + 1 /\ new[Len(mid) + 1] = a
        /\ \A k \in 1 .. Len(mid) : new[k] = mid[k]
        /\ Count(new) = Count(mid) /\ Len(mid) \in Nat
    BY <1>3, <2>2, <2>3, PartMore, CallsFinite
  <2>5. \A i \in 1 .. Len(new) : i \in 1 .. Len(mid) \/ i = Len(mid) + 1
    BY <2>4
  <2>6. \A i \in 1 .. Len(new) : PartOK(new[i])
    BY <1>3, <2>2, <2>4, <2>5
  <2>7. out.next = n /\ TellsAll(out.chunks, n, n)
    BY <1>3, <1>10, <2>1
  <2>8. Goal(n)
    BY <1>11, <2>2, <2>4, <2>6, <2>7
  <2>. QED BY <2>8 DEF out, new, base, old
<1>. QED BY <1>6, <1>13, <1>15, <1>16, <1>17

\* A payload finishes with calls only if the stream has had one.
LEMMA GeminiTools ==
  ASSUME DialectsInv, ToolInv, GeminiSends \/ GeminiFails
  PROVE  ToolInv'
<1>0. WireOK(wire) /\ SaidOK(said)
  BY SMTT(60) DEF DialectsInv, ToolInv
<1>1. provider = "gemini"
  BY DEF GeminiSends, GeminiFails
<1>2. PICK n \in Nat : ToolsOf(n)
  BY DEF ToolInv
<1> DEFINE t == translator
<1>3. wire.phase \in {"start", "body"} => GeminiNumbers(t, n)
  BY <1>1, <1>2 DEF ToolsOf, Numbers
<1>4. CASE GeminiSends
  <2>1. PICK parts, finish : \E usage :
            /\ parts \in Parcels
            /\ Len(said.parts) + Len(parts) <= MaxParts
            /\ Sends([type |-> "payload", parts |-> parts, finish |-> finish, usage |-> usage],
                     [wire EXCEPT !.phase = IF finish = "" THEN "body" ELSE "over"],
                     [parts |-> said.parts \o parts, stop |-> finish, usage |-> usage])
    <3>1. PICK parts \in Parcels, finish \in {"", "STOP", "MAX_TOKENS", "SAFETY"} :
             LET meta == IF finish = "" THEN NoMeta
                         ELSE [prompt |-> 1, candidates |-> 0, thoughts |-> 1,
                               total |-> 3, cached |-> 1]
             IN  /\ Len(said.parts) + Len(parts) <= MaxParts
                 /\ Sends([type |-> "payload", parts |-> parts, finish |-> finish,
                           usage |-> meta],
                          [wire EXCEPT !.phase = IF finish = "" THEN "body" ELSE "over"],
                          [parts |-> said.parts \o parts, stop |-> finish, usage |-> meta])
      BY <1>4, ZenonT(60) DEF GeminiSends, Parcels
    <3>. QED BY <3>1, ZenonT(60)
  <2>2. PICK usage :
            /\ parts \in Parcels
            /\ Len(said.parts) + Len(parts) <= MaxParts
            /\ Sends([type |-> "payload", parts |-> parts, finish |-> finish, usage |-> usage],
                     [wire EXCEPT !.phase = IF finish = "" THEN "body" ELSE "over"],
                     [parts |-> said.parts \o parts, stop |-> finish, usage |-> usage])
    BY <2>1
  <2> DEFINE e == [type |-> "payload", parts |-> parts, finish |-> finish, usage |-> usage]
             ph == IF finish = "" THEN "body" ELSE "over"
             w == [wire EXCEPT !.phase = ph]
             new == said.parts \o parts
             s == [parts |-> new, stop |-> finish, usage |-> usage]
             out == Convert(t, e)
  <2>3. Sends(e, w, s)
    BY <2>2
  <2>4. e.type = "payload" /\ e.parts = parts
    OBVIOUS
  <2>5. s.parts = new /\ s = [parts |-> s.parts, stop |-> s.stop, usage |-> s.usage]
    BY SMTT(60)
  <2>. HIDE DEF e, s, new, ph
  <2>6. WireOK(w)
    BY ONLY <1>0, WireOther
  <2>. HIDE DEF w
  <2>7. GeminiNumbers(t, n)
    BY <1>3, <1>4 DEF GeminiSends
  <2>8. t.next = n /\ t.saw \in BOOLEAN /\ (t.saw => n > 0)
    BY <2>7 DEF GeminiNumbers
  <2> DEFINE role == IF t.started THEN <<>> ELSE <<Empty>>
             base == [next |-> n, chunks |-> role]
             fold == FoldLeft(GeminiPart, base, parts)
             yes == TRUE
             next == fold.next
             saw == t.saw \/ next > n
             counts == CaptureUsage(t.usage, e.usage)
             a == [t EXCEPT !.started = yes]
             b == [a EXCEPT !.next = next]
             c == [b EXCEPT !.saw = saw]
             d == [c EXCEPT !.usage = counts]
             f == [d EXCEPT !.sent = yes]
             last == Finish(GeminiReason(d, e), d.usage)
             more == Append(fold.chunks, last)
  <2>9. TellsAll(role, n, n)
    <3>1. TellsAll(<<>>, n, n)
      BY TellsNone
    <3>2. <<Empty>> = Append(<<>>, Empty)
      BY OnesAre
    <3>3. TellsAll(Append(<<>>, Empty), n, n)
      BY <3>1, TellsMore, WordlessAre
    <3>. QED BY <3>1, <3>2, <3>3
  <2>10. out = IF e.finish # "" /\ ~t.sent THEN Emit(f, more) ELSE Emit(d, fold.chunks)
    <3> DEFINE fold0 == FoldLeft(GeminiPart, [next |-> t.next, chunks |-> role], e.parts)
               d0 == [t EXCEPT !.started = TRUE, !.next = fold0.next,
                               !.saw = @ \/ fold0.next > t.next,
                               !.usage = CaptureUsage(@, e.usage)]
               f0 == [d0 EXCEPT !.sent = TRUE]
               last0 == Finish(GeminiReason(d0, e), d0.usage)
    <3>1. out = IF e.finish # "" /\ ~t.sent
                THEN Emit(f0, Append(fold0.chunks, last0))
                ELSE Emit(d0, fold0.chunks)
      <4>1. out = GeminiConvert(t, e) /\ e.type # "error"
        BY <1>1, <2>4 DEF Convert
      <4>. HIDE DEF out
      <4>. QED BY <4>1 DEF GeminiConvert, role
    <3>2. fold0 = fold
      BY <2>4, <2>8
    <3>3. d = [t EXCEPT !.started = TRUE, !.next = next, !.saw = saw, !.usage = counts]
      OBVIOUS
    <3>. HIDE DEF fold0, out, role, base, fold
    <3>4. saw = (t.saw \/ fold0.next > t.next) /\ next = fold0.next
      BY <2>8, <3>2
    <3>. HIDE DEF saw, next, d
    <3>5. d0 = d
      BY <3>3, <3>4 DEF counts
    <3>. HIDE DEF d0
    <3>6. f0 = f /\ last0 = last
      BY <3>5
    <3>. HIDE DEF f0, f, last0, last
    <3>. QED BY <3>1, <3>2, <3>5, <3>6
  <2>. HIDE DEF role
  <2>11. PICK m \in Nat :
            /\ m \in {n, n + 1} /\ next = m /\ TellsAll(fold.chunks, n, m)
            /\ IsSeq(new) /\ (\A i \in 1 .. Len(new) : PartOK(new[i]))
            /\ Count(new) = Count(said.parts) + (m - n)
    BY <1>0, <2>2, <2>9, ParcelTells DEF new
  <2>. HIDE DEF fold, next, yes, counts, out
  <2>12. saw \in BOOLEAN /\ (saw => m > 0)
    BY <2>8, <2>11
  <2>. HIDE DEF saw
  <2>13. GeminiNumbers(d, m) /\ d.saw = saw
    <3>1. t = [started |-> t.started, sent |-> t.sent, next |-> t.next, saw |-> t.saw,
               usage |-> t.usage]
      BY <2>7 DEF GeminiNumbers
    <3>2. a = [started |-> yes, sent |-> t.sent, next |-> t.next, saw |-> t.saw,
               usage |-> t.usage]
      BY ONLY <3>1
    <3>. HIDE DEF a, t
    <3>3. b = [started |-> yes, sent |-> t.sent, next |-> next, saw |-> t.saw,
               usage |-> t.usage]
      BY ONLY <3>2
    <3>. HIDE DEF b
    <3>4. c = [started |-> yes, sent |-> t.sent, next |-> next, saw |-> saw,
               usage |-> t.usage]
      BY ONLY <3>3
    <3>. HIDE DEF c
    <3>5. d = [started |-> yes, sent |-> t.sent, next |-> next, saw |-> saw,
               usage |-> counts]
      BY ONLY <3>4
    <3>. HIDE DEF d
    <3>6. d.next = next /\ d.saw = saw
      BY <3>5
    <3>. QED BY <2>11, <2>12, <3>5, <3>6 DEF GeminiNumbers
  <2>14. GeminiNumbers(f, m)
    <3>. HIDE DEF d
    <3>1. d = [started |-> d.started, sent |-> d.sent, next |-> d.next, saw |-> d.saw,
               usage |-> d.usage]
      BY <2>13 DEF GeminiNumbers
    <3>2. f = [started |-> d.started, sent |-> yes, next |-> d.next, saw |-> d.saw,
               usage |-> d.usage]
      BY ONLY <3>1
    <3>. HIDE DEF f
    <3>3. f.next = d.next /\ f.saw = d.saw
      BY <3>2
    <3>. QED BY <2>13, <3>2, <3>3 DEF GeminiNumbers
  <2>15. TellsAll(more, n, m)
    <3>1. GeminiReason(d, e) = "tool_calls" => m > 0
      <4>1. GeminiReason(d, e) = IF saw THEN "tool_calls" ELSE NormalizeFinish(e.finish)
        <5>. HIDE DEF d
        <5>. QED BY <2>13 DEF GeminiReason
      <4>2. NormalizeFinish(e.finish) # "tool_calls"
        BY DEF NormalizeFinish
      <4>. QED BY <2>12, <4>1, <4>2
    <3>2. Wordless(last) /\ last.finish = GeminiReason(d, e)
      BY WordlessAre
    <3>. HIDE DEF last
    <3>. QED BY <2>11, <3>1, <3>2, TellsMore
  <2>. HIDE DEF d, f, more
  <2>16. out.failed = FALSE /\ TellsAll(out.chunks, n, m) /\ GeminiNumbers(out.state, m)
    <3>1. CASE out = Emit(f, more)
      <4>0. /\ Emit(f, more).failed = FALSE /\ Emit(f, more).chunks = more
            /\ Emit(f, more).state = f
        BY DEF Emit
      <4>1. out.failed = FALSE /\ out.chunks = more /\ out.state = f
        BY <3>1, <4>0
      <4>. QED BY <2>14, <2>15, <4>1
    <3>2. CASE out = Emit(d, fold.chunks)
      <4>0. /\ Emit(d, fold.chunks).failed = FALSE /\ Emit(d, fold.chunks).chunks = fold.chunks
            /\ Emit(d, fold.chunks).state = d
        BY DEF Emit
      <4>1. out.failed = FALSE /\ out.chunks = fold.chunks /\ out.state = d
        BY <3>2, <4>0
      <4>. QED BY <2>11, <2>13, <4>1
    <3>. QED BY <2>10, <3>1, <3>2
  <2>17. ToldOf(dialect', chat'.calls, m)
    <3> DEFINE acc == [seen |-> seen, dialect |-> dialect, events |-> events, chat |-> chat]
               all == FoldLeft(Relay, acc, out.chunks)
    <3>1. acc.dialect = dialect /\ acc.chat = chat
      OBVIOUS
    <3>2. Surfaces(out.chunks)
      <4>1. Feed(e)
        BY <2>3 DEF Sends
      <4>. QED BY <2>16, <4>1 DEF Feed, out
    <3>3. dialect' = all.dialect /\ chat' = all.chat
      BY <3>2 DEF Surfaces
    <3>. HIDE DEF acc
    <3>4. ToldOf(all.dialect, all.chat.calls, m)
      BY <1>2, <2>16, <3>1 DEF TellsAll, ToolsOf
    <3>. QED BY <3>3, <3>4
  <2>18. SaidOK(s)
    BY <2>5, <2>11 DEF SaidOK
  <2>19. m <= Count(s.parts)
    <3>1. n <= Count(said.parts) /\ Count(said.parts) \in Nat
      BY <1>0, <1>2, CallsFinite DEF ToolsOf, SaidOK
    <3>. QED BY <2>5, <2>11, <3>1
  <2>20. Numbers(out.state, w, s.parts, m)
    BY <1>1, <2>16 DEF Numbers
  <2>. QED BY <2>3, <2>6, <2>11, <2>17, <2>18, <2>19, <2>20, ToolSends DEF out
<1>5. CASE GeminiFails
  <2> DEFINE e == [type |-> "error"]
             out == Convert(translator, e)
  <2>1. Sends(e, wire, said)
    BY <1>5 DEF GeminiFails
  <2>2. out = Fail(translator)
    BY <1>1 DEF Convert, GeminiConvert
  <2>. HIDE DEF out, e
  <2>3. Brings(out, n, n) /\ out.failed = TRUE
    BY <2>2, FailBrings
  <2>. QED BY <1>0, <1>2, <2>1, <2>3, ToolStays DEF out
<1>. QED BY <1>4, <1>5

-----------------------------------------------------------------------------
(* A Responses upstream.                                                   *)

\* An event that says whose call it is.
Named(e) == e.id # ""

\* The call that is announced, with the number it has or gets.
LEMMA AnnounceIs ==
  ASSUME NEW n \in Nat, NEW s, ResponsesState(s), s.next = n, Entries(s.calls, n),
         NEW e, Named(e)
  PROVE  \E k, args, t :
            /\ ResponsesState(t) /\ t.current = e.id
            /\ t.items = With(s.items, e.item, e.id)
            /\ t.calls = With(s.calls, e.id, [index |-> k, args |-> args])
            /\ IF e.name = ""
               THEN k \in -1 .. n - 1 /\ t.next = n /\ Announce(s, e) = Ignore(t)
               ELSE k \in 0 .. n /\ t.next = (IF k = n THEN n + 1 ELSE n)
                        /\ OneCall(Announce(s, e), t, k)
<1> DEFINE id == IF e.id = "" THEN FallbackId(s) ELSE e.id
           entry == IF Known(s.calls, id) THEN s.calls[id] ELSE [index |-> -1, args |-> <<>>]
           fresh == e.name # "" /\ entry.index = -1
           index == IF fresh THEN s.next ELSE entry.index
           t == [s EXCEPT
                   !.items = With(@, e.item, id),
                   !.outputs = With(@, e.output, id),
                   !.current = id,
                   !.calls = With(@, id, [entry EXCEPT !.index = index]),
                   !.next = IF fresh THEN @ + 1 ELSE @,
                   !.fallbacks = IF e.id = "" THEN @ + 1 ELSE @]
           known == With(s.items, e.item, id)
           outputs == With(s.outputs, e.output, id)
           new == [entry EXCEPT !.index = index]
           calls == With(s.calls, id, new)
           next == IF fresh THEN s.next + 1 ELSE s.next
           fallbacks == IF e.id = "" THEN s.fallbacks + 1 ELSE s.fallbacks
           a == [s EXCEPT !.items = known]
           b == [a EXCEPT !.outputs = outputs]
           c == [b EXCEPT !.current = id]
           d == [c EXCEPT !.calls = calls]
           f == [d EXCEPT !.next = next]
<1>0. n \in 0 .. n
  BY ONLY n \in Nat
<1>1. Announce(s, e) = IF e.name = "" THEN Ignore(t)
                       ELSE Emit(t, <<Tool(Call(index, id, e.name, <<>>))>>)
  BY DEF Announce
<1>2. id = e.id
  BY DEF Named
<1>3. entry = [index |-> entry.index, args |-> entry.args] /\ entry.index \in -1 .. n - 1
  <2>1. CASE Known(s.calls, id)
    BY <2>1 DEF Known, Entries
  <2>2. CASE ~Known(s.calls, id)
    <3>1. entry = [index |-> -1, args |-> <<>>]
      BY <2>2
    <3>. HIDE DEF entry
    <3>2. entry.index = -1 /\ entry.args = <<>>
      BY ONLY <3>1
    <3>3. -1 \in -1 .. n - 1
      OBVIOUS
    <3>. QED BY ONLY <3>1, <3>2, <3>3
  <2>. QED BY <2>1, <2>2
<1>. HIDE DEF entry
<1>4. new = [index |-> index, args |-> entry.args]
  <2>. HIDE DEF index
  <2>. QED BY ONLY <1>3
<1>5. /\ fresh => index = n /\ next = n + 1 /\ e.name # ""
      /\ ~fresh => index = entry.index /\ next = n /\ (e.name # "" => index # -1)
  OBVIOUS
<1>6. t = [s EXCEPT !.items = known, !.outputs = outputs, !.current = id, !.calls = calls,
                    !.next = next, !.fallbacks = fallbacks]
  OBVIOUS
<1>. HIDE DEF t, known, outputs, id, calls, next, fallbacks, new, index, fresh
<1>7. t = [f EXCEPT !.fallbacks = fallbacks]
  BY <1>6
<1>8. a = [sent |-> s.sent, next |-> s.next, calls |-> s.calls, items |-> known,
           outputs |-> s.outputs, current |-> s.current, fallbacks |-> s.fallbacks]
  BY DEF ResponsesState
<1>. HIDE DEF a
<1>9. b = [sent |-> s.sent, next |-> s.next, calls |-> s.calls, items |-> known,
           outputs |-> outputs, current |-> s.current, fallbacks |-> s.fallbacks]
  BY ONLY <1>8
<1>. HIDE DEF b
<1>10. c = [sent |-> s.sent, next |-> s.next, calls |-> s.calls, items |-> known,
            outputs |-> outputs, current |-> id, fallbacks |-> s.fallbacks]
  BY ONLY <1>9
<1>. HIDE DEF c
<1>11. d = [sent |-> s.sent, next |-> s.next, calls |-> calls, items |-> known,
            outputs |-> outputs, current |-> id, fallbacks |-> s.fallbacks]
  BY ONLY <1>10
<1>. HIDE DEF d
<1>12. f = [sent |-> s.sent, next |-> next, calls |-> calls, items |-> known,
            outputs |-> outputs, current |-> id, fallbacks |-> s.fallbacks]
  BY ONLY <1>11
<1>. HIDE DEF f
<1>13. t = [sent |-> s.sent, next |-> next, calls |-> calls, items |-> known,
            outputs |-> outputs, current |-> id, fallbacks |-> fallbacks]
  BY ONLY <1>7, <1>12
<1>14. /\ t.next = next /\ t.calls = calls /\ t.items = known /\ t.current = id
       /\ t.sent = s.sent /\ t.outputs = outputs /\ t.fallbacks = fallbacks
  BY ONLY <1>13
<1>15. ResponsesState(t)
  BY <1>13, <1>14 DEF ResponsesState
<1>16. t.items = With(s.items, e.item, e.id) /\ t.current = e.id
       /\ t.calls = With(s.calls, e.id, [index |-> index, args |-> entry.args])
  BY <1>2, <1>4, <1>14 DEF known, calls
<1>17. CASE e.name = ""
  <2>1. ~fresh
    BY <1>17 DEF fresh
  <2>2. index \in -1 .. n - 1 /\ t.next = n /\ Announce(s, e) = Ignore(t)
    BY <1>1, <1>3, <1>5, <1>14, <1>17, <2>1
  <2>. QED BY <1>15, <1>16, <1>17, <2>2
<1>18. CASE e.name # ""
  <2>1. index \in 0 .. n /\ t.next = IF index = n THEN n + 1 ELSE n
    <3>1. CASE fresh
      <4>1. index = n /\ next = n + 1
        BY <1>5, <3>1
      <4>. QED BY <1>0, <1>14, <4>1
    <3>2. CASE ~fresh
      <4>1. index \in -1 .. n - 1 /\ index # -1 /\ next = n
        BY <1>3, <1>5, <1>18, <3>2
      <4>. QED BY <1>14, <4>1
    <3>. QED BY <3>1, <3>2
  <2>2. Announce(s, e) = Emit(t, <<Tool(Call(index, id, e.name, <<>>))>>)
    BY <1>1, <1>18
  <2>3. OneCall(Announce(s, e), t, index)
    BY <2>2 DEF OneCall
  <2>. QED BY <1>15, <1>16, <1>18, <2>1, <2>3
<1>. QED BY <1>17, <1>18

\* Arguments are kept for a call that waits.
LEMMA BufferIs ==
  ASSUME NEW n \in Nat, NEW s, ResponsesState(s), Entries(s.calls, n), NEW e
  PROVE  \E t :
            /\ Buffer(s, e) = Ignore(t)
            /\ ResponsesState(t) /\ t.next = s.next /\ t.current = s.current
            /\ t.items = s.items /\ DOMAIN t.calls = DOMAIN s.calls /\ Entries(t.calls, n)
            /\ \A id \in DOMAIN s.calls : t.calls[id].index = s.calls[id].index
<1> DEFINE c == CallOf(s, e)
<1>1. CASE Known(s.calls, c)
  <2> DEFINE args == Append(s.calls[c].args, e.piece)
             entry == [s.calls[c] EXCEPT !.args = args]
             calls == [s.calls EXCEPT ![c] = entry]
             t == [s EXCEPT !.calls = calls]
  <2>1. Buffer(s, e) = Ignore(t)
    <3>1. Buffer(s, e) = Ignore([s EXCEPT !.calls[c].args = Append(@, e.piece)])
      BY <1>1 DEF Buffer
    <3>2. [s EXCEPT !.calls[c].args = Append(@, e.piece)] = t
      OBVIOUS
    <3>. QED BY <3>1, <3>2
  <2>2. c \in DOMAIN s.calls
    BY <1>1 DEF Known
  <2>. HIDE DEF args, c
  <2>3. s.calls[c] = [index |-> s.calls[c].index, args |-> s.calls[c].args]
        /\ s.calls[c].index \in -1 .. n - 1
    BY <2>2 DEF Entries
  <2>4. entry = [index |-> s.calls[c].index, args |-> args]
    BY ONLY <2>3
  <2>. HIDE DEF entry
  <2>5. entry.index = s.calls[c].index /\ entry.args = args
    BY ONLY <2>4
  <2>6. DOMAIN calls = DOMAIN s.calls
        /\ \A id \in DOMAIN s.calls : calls[id] = IF id = c THEN entry ELSE s.calls[id]
    OBVIOUS
  <2>. HIDE DEF calls
  <2>7. Entries(calls, n) /\ \A id \in DOMAIN s.calls : calls[id].index = s.calls[id].index
    BY <2>3, <2>4, <2>5, <2>6 DEF Entries
  <2>8. t = [sent |-> s.sent, next |-> s.next, calls |-> calls, items |-> s.items,
             outputs |-> s.outputs, current |-> s.current, fallbacks |-> s.fallbacks]
    BY DEF ResponsesState
  <2>. HIDE DEF t
  <2>9. /\ t.next = s.next /\ t.calls = calls /\ t.items = s.items /\ t.current = s.current
        /\ t.sent = s.sent /\ t.outputs = s.outputs /\ t.fallbacks = s.fallbacks
    BY ONLY <2>8
  <2>10. ResponsesState(t)
    BY <2>8, <2>9 DEF ResponsesState
  <2>. QED BY <2>1, <2>6, <2>7, <2>9, <2>10
<1>2. CASE ~Known(s.calls, c)
  <2>1. Buffer(s, e) = Ignore(s)
    BY <1>2 DEF Buffer
  <2>. QED BY <2>1
<1>. QED BY <1>1, <1>2

\* What the item of a call leaves when it is done: the call is told if it has a
\* number, or gets one.
DoneLeaves(s, id, n, out, t) ==
    /\ ResponsesState(t) /\ t.items = s.items
    /\ t.current = (IF s.current = id THEN "" ELSE s.current)
    /\ DOMAIN t.calls = DOMAIN s.calls \ {id}
    /\ \A other \in DOMAIN t.calls : t.calls[other] = s.calls[other]
    /\ \/ t.next = n /\ out = Ignore(t)
       \/ \E k \in 0 .. n : /\ t.next = (IF k = n THEN n + 1 ELSE n)
                            /\ OneCall(out, t, k)
                            /\ k = n => s.calls[id].index = -1

\* What a translator has left once an item is done, whichever call it names.
LEMMA DoneIs ==
  ASSUME NEW n \in Nat, NEW s, ResponsesState(s), s.next = n, Entries(s.calls, n),
         NEW e, NEW id \in DOMAIN s.calls, DoneId(s, e) = id
  PROVE  \E t : DoneLeaves(s, id, n, ItemDone(s, e), t)
<1> DEFINE own == DoneId(s, e)
           entry == IF Known(s.calls, own) THEN s.calls[own] ELSE [index |-> -1, args |-> <<>>]
           fresh == e.name # "" /\ entry.index = -1
           index == IF fresh THEN s.next ELSE entry.index
           args == IF e.args # <<>> THEN e.args ELSE entry.args
           t == [s EXCEPT
                   !.calls = [other \in DOMAIN @ \ {own} |-> @[other]],
                   !.current = IF @ = own THEN "" ELSE @,
                   !.next = IF fresh THEN @ + 1 ELSE @]
           calls == [other \in DOMAIN s.calls \ {own} |-> s.calls[other]]
           current == IF s.current = own THEN "" ELSE s.current
           next == IF fresh THEN s.next + 1 ELSE s.next
           a == [s EXCEPT !.calls = calls]
           b == [a EXCEPT !.current = current]
<1>1. ItemDone(s, e) = IF index = -1 THEN Ignore(t)
                       ELSE Emit(t, <<Tool(Call(index, "", "", args))>>)
  BY DEF ItemDone
<1>2. own = id
  OBVIOUS
<1>. HIDE DEF own
<1>3. entry = s.calls[id] /\ entry.index \in -1 .. n - 1
  BY <1>2 DEF Known, Entries
<1>. HIDE DEF entry
<1>4. /\ fresh => index = n /\ next = n + 1 /\ entry.index = -1
      /\ ~fresh => index = entry.index /\ next = n
  OBVIOUS
<1>5. t = [s EXCEPT !.calls = calls, !.current = current, !.next = next]
  OBVIOUS
<1>6. /\ DOMAIN calls = DOMAIN s.calls \ {id}
      /\ \A other \in DOMAIN calls : calls[other] = s.calls[other]
      /\ current = IF s.current = id THEN "" ELSE s.current
  BY <1>2
<1>. HIDE DEF t, calls, current, next, index, fresh, args
<1>7. t = [b EXCEPT !.next = next]
  BY <1>5
<1>8. a = [sent |-> s.sent, next |-> s.next, calls |-> calls, items |-> s.items,
           outputs |-> s.outputs, current |-> s.current, fallbacks |-> s.fallbacks]
  BY DEF ResponsesState
<1>. HIDE DEF a
<1>9. b = [sent |-> s.sent, next |-> s.next, calls |-> calls, items |-> s.items,
           outputs |-> s.outputs, current |-> current, fallbacks |-> s.fallbacks]
  BY ONLY <1>8
<1>. HIDE DEF b
<1>10. t = [sent |-> s.sent, next |-> next, calls |-> calls, items |-> s.items,
            outputs |-> s.outputs, current |-> current, fallbacks |-> s.fallbacks]
  BY ONLY <1>7, <1>9
<1>11. /\ t.next = next /\ t.calls = calls /\ t.items = s.items /\ t.current = current
       /\ t.sent = s.sent /\ t.outputs = s.outputs /\ t.fallbacks = s.fallbacks
  BY ONLY <1>10
<1>12. ResponsesState(t)
  BY <1>10, <1>11 DEF ResponsesState
<1>13. \/ t.next = n /\ ItemDone(s, e) = Ignore(t)
       \/ \E k \in 0 .. n : /\ t.next = (IF k = n THEN n + 1 ELSE n)
                            /\ OneCall(ItemDone(s, e), t, k)
                            /\ k = n => s.calls[id].index = -1
  <2>1. CASE index = -1
    <3>1. ItemDone(s, e) = Ignore(t)
      BY <1>1, <2>1
    <3>2. next = n
      BY <1>4, <2>1
    <3>. QED BY <1>11, <3>1, <3>2
  <2>2. CASE index # -1
    <3>1. ItemDone(s, e) = Emit(t, <<Tool(Call(index, "", "", args))>>)
      BY <1>1, <2>2
    <3>2. OneCall(ItemDone(s, e), t, index)
      BY <3>1 DEF OneCall
    <3>3. /\ index \in 0 .. n /\ next = (IF index = n THEN n + 1 ELSE n)
          /\ index = n => s.calls[id].index = -1
      BY <1>3, <1>4, <2>2
    <3>. QED BY <1>11, <3>2, <3>3
  <2>. QED BY <2>1, <2>2
<1>. QED BY <1>6, <1>11, <1>12, <1>13 DEF DoneLeaves

\* A Responses upstream, by what it says and what is told of it.
LEMMA ResponsesGo ==
  ASSUME NEW e, NEW w, NEW s, Sends(e, w, s), WireOK(w), SaidOK(s), provider = "responses",
         NEW n \in Nat, ToolsOf(n),
         NEW out, out = ResponsesConvert(translator, e), NEW m,
         Brings(out, n, m), ResponsesNumbers(out.state, w, s.parts, m)
  PROVE  ToolInv'
<1>1. out = Convert(translator, e)
  BY DEF Convert
<1>2. m \in Nat /\ ToldOf(dialect', chat'.calls, m)
  BY <1>1, FeedTells DEF Sends, ToolsOf
<1>3. Numbers(out.state, w, s.parts, m)
  BY DEF Numbers
<1>4. m <= Count(s.parts)
  <2> DEFINE U == Unannounced(w, s.parts)
  <2>1. IsFiniteSet(CallsIn(s.parts)) /\ Count(s.parts) \in Nat
    BY CallsFinite DEF SaidOK
  <2>2. U \in SUBSET CallsIn(s.parts) /\ m + Cardinality(U) <= Count(s.parts)
    BY DEF ResponsesNumbers, Unannounced
  <2>. HIDE DEF U
  <2>3. Cardinality(U) \in Nat
    BY <2>1, <2>2, FS_Subset, FS_CardinalityType
  <2>. QED BY <1>2, <2>1, <2>2, <2>3
<1>. QED BY <1>1, <1>2, <1>3, <1>4, ToolSends

\* Texts, and arguments of calls that are open.
LEMMA ResponsesTalks ==
  ASSUME DialectsInv, ToolInv, ResponsesSendsText \/ ResponsesSendsArguments
  PROVE  ToolInv'
<1>0. WireOK(wire) /\ SaidOK(said)
  BY SMTT(60) DEF DialectsInv, ToolInv
<1>1. provider = "responses" /\ wire.phase \in {"start", "body"}
  BY DEF ResponsesSendsText, ResponsesSendsArguments, Talking
<1> DEFINE parts == said.parts
           t == translator
<1>2. PICK n \in Nat : ToolsOf(n)
  BY DEF ToolInv
<1>3. ResponsesNumbers(t, wire, parts, n)
  BY <1>1, <1>2 DEF ToolsOf, Numbers
<1>4. /\ IsSeq(parts) /\ Len(parts) \in Nat /\ CallsIn(parts) \subseteq 1 .. Len(parts)
      /\ wire.open \subseteq CallsIn(parts)
  BY <1>0, <1>3, CallsFinite DEF SaidOK, ResponsesNumbers
<1>. HIDE DEF parts
<1>5. CASE ResponsesSendsText
  <2>1. PICK e, c, kind :
            /\ Sends(e, wire, SaysPart(Part(kind, Now)))
            /\ ResponsesConvert(t, e) = Emit(t, <<c>>)
            /\ Wordless(c) /\ c.finish = "" /\ kind # "call"
    <3> DEFINE a == [type |-> "text", piece |-> Now]
               b == [type |-> "reasoning", piece |-> Now]
    <3>1. "text" # "call" /\ "thought" # "call"
      OBVIOUS
    <3>2. ResponsesConvert(t, a) = Emit(t, <<Text(Now)>>)
      BY DEF ResponsesConvert
    <3>3. ResponsesConvert(t, b) = Emit(t, <<Thought(Now)>>)
      BY DEF ResponsesConvert
    <3>4. \/ Sends(a, wire, SaysPart(Part("text", Now)))
          \/ Sends(b, wire, SaysPart(Part("thought", Now)))
      BY <1>5 DEF ResponsesSendsText
    <3>. HIDE DEF a, b
    <3>. QED BY <3>1, <3>2, <3>3, <3>4, WordlessAre
  <2> DEFINE p == Part(kind, Now)
             s == SaysPart(p)
             out == Emit(t, <<c>>)
  <2>2. PartOK(p) /\ ~IsCall(p)
    BY <2>1, PartIs
  <2>3. Sends(e, wire, s)
    BY <2>1
  <2>. HIDE DEF p
  <2>4. SaidOK(s) /\ s.parts = Append(parts, p)
    BY <1>0, <2>2, SaysPartIs DEF parts
  <2>. HIDE DEF s
  <2>5. /\ CallsIn(s.parts) = CallsIn(parts) /\ Count(s.parts) = Count(parts)
        /\ \A k \in 1 .. Len(parts) : s.parts[k] = parts[k]
    BY <1>4, <2>2, <2>4, PartMore
  <2>6. Brings(out, n, n) /\ out.state = t
    BY <2>1, EmitBrings
  <2>7. out = ResponsesConvert(t, e)
    BY <2>1
  <2>. HIDE DEF out, t
  <2>8. ResponsesNumbers(t, wire, s.parts, n)
    <3>1. \A i \in CallsIn(parts) : s.parts[i] = parts[i]
      BY <1>4, <2>5
    <3>2. Unannounced(wire, s.parts) = Unannounced(wire, parts)
      BY <1>4, <3>1 DEF Unannounced
    <3>3. \A i \in wire.open : s.parts[i] = parts[i]
      BY <1>4, <3>1
    <3>4. CurrentOpen(t, wire, s.parts)
      BY <1>3, <3>3 DEF ResponsesNumbers, CurrentOpen
    <3>5. \A i \in wire.open : KnownCall(t, s.parts[i])
      BY <1>3, <3>3 DEF ResponsesNumbers
    <3>6. CallsNamed(s.parts)
      BY <1>3, <2>5, <3>1 DEF ResponsesNumbers, CallsNamed
    <3>7. /\ ResponsesState(t) /\ t.next = n /\ Entries(t.calls, n)
          /\ n + Cardinality(Unannounced(wire, parts)) <= Count(parts)
      BY <1>3 DEF ResponsesNumbers
    <3>. QED BY <1>4, <2>5, <3>2, <3>4, <3>5, <3>6, <3>7 DEF ResponsesNumbers
  <2>9. ResponsesNumbers(out.state, wire, s.parts, n)
    BY <2>6, <2>8
  <2>. QED BY <1>0, <1>1, <1>2, <2>3, <2>4, <2>6, <2>7, <2>9, ResponsesGo DEF t
<1>6. CASE ResponsesSendsArguments
  <2>1. PICK i \in wire.open : \E e : e.type = "arguments" /\ Sends(e, wire, Says(i, Now))
    BY <1>6 DEF ResponsesSendsArguments
  <2>2. PICK e : e.type = "arguments" /\ Sends(e, wire, Says(i, Now))
    BY <2>1
  <2> DEFINE s == Says(i, Now)
             out == ResponsesConvert(t, e)
  <2>3. i \in 1 .. Len(parts)
    BY <1>4
  <2>4. /\ SaidOK(s) /\ CallsIn(s.parts) = CallsIn(parts) /\ Count(s.parts) = Count(parts)
        /\ \A k \in 1 .. Len(parts) : /\ s.parts[k].id = parts[k].id
                                      /\ s.parts[k].announced = parts[k].announced
    BY <1>0, <2>3, SaysIs DEF parts
  <2>5. Sends(e, wire, s)
    BY <2>2
  <2>. HIDE DEF s, t
  <2>6. ResponsesState(t) /\ Entries(t.calls, n) /\ t.next = n
    BY <1>3 DEF ResponsesNumbers
  <2>7. out = Buffer(t, e)
    BY <2>2 DEF ResponsesConvert
  <2>. HIDE DEF out
  <2>8. PICK u : /\ Buffer(t, e) = Ignore(u)
                 /\ ResponsesState(u) /\ u.next = t.next /\ u.current = t.current
                 /\ u.items = t.items /\ DOMAIN u.calls = DOMAIN t.calls /\ Entries(u.calls, n)
                 /\ \A id \in DOMAIN t.calls : u.calls[id].index = t.calls[id].index
    BY <2>6, BufferIs
  <2>9. Brings(out, n, n) /\ out.state = u
    BY <2>7, <2>8, IgnoreBrings
  <2>10. ResponsesNumbers(u, wire, s.parts, n)
    <3>1. \A k \in CallsIn(parts) : /\ s.parts[k].id = parts[k].id
                                    /\ s.parts[k].announced = parts[k].announced
      BY <1>4, <2>4
    <3>2. Unannounced(wire, s.parts) = Unannounced(wire, parts)
      BY <1>4, <3>1 DEF Unannounced
    <3>3. \A k \in wire.open : KnownCall(t, parts[k]) /\ s.parts[k].id = parts[k].id
                               /\ s.parts[k].announced = parts[k].announced
      BY <1>3, <1>4, <3>1 DEF ResponsesNumbers
    <3>4. \A k \in wire.open : KnownCall(u, s.parts[k])
      BY <2>8, <3>3 DEF KnownCall
    <3>5. CurrentOpen(u, wire, s.parts)
      BY <1>3, <2>8, <3>3 DEF ResponsesNumbers, CurrentOpen
    <3>6. CallsNamed(s.parts)
      BY <1>3, <2>4, <3>1 DEF ResponsesNumbers, CallsNamed
    <3>7. n + Cardinality(Unannounced(wire, parts)) <= Count(parts)
      BY <1>3 DEF ResponsesNumbers
    <3>8. ResponsesState(u) /\ u.next = n /\ Entries(u.calls, n)
      BY <2>6, <2>8
    <3>. QED BY <1>4, <2>4, <3>2, <3>4, <3>5, <3>6, <3>7, <3>8 DEF ResponsesNumbers
  <2>11. ResponsesNumbers(out.state, wire, s.parts, n)
    BY <2>9, <2>10
  <2>. QED BY <1>0, <1>1, <1>2, <2>4, <2>5, <2>9, <2>11, ResponsesGo DEF out, t
<1>. QED BY <1>5, <1>6

\* A call that is announced has an id of its own.
LEMMA ResponsesAdds ==
  ASSUME DialectsInv, ToolInv, ResponsesAddsCall
  PROVE  ToolInv'
<1>0. WireOK(wire) /\ SaidOK(said)
  BY DEF DialectsInv, ToolInv
<1>1. provider = "responses" /\ wire.phase \in {"start", "body"} /\ MoreParts
  BY DEF ResponsesAddsCall, Talking
<1> DEFINE parts == said.parts
           t == translator
           place == Len(parts) + 1
           open == wire.open \union {place}
           w == [wire EXCEPT !.open = open]
<1>2. PICK n \in Nat : ToolsOf(n)
  BY DEF ToolInv
<1>3. ResponsesNumbers(t, wire, parts, n)
  BY <1>1, <1>2 DEF ToolsOf, Numbers
<1>4. PICK announced : \E e :
         /\ announced \in BOOLEAN /\ e.type = "added" /\ e.id = CallPart(<<>>, announced).id
         /\ e.item = ItemId(CallPart(<<>>, announced).id)
         /\ e.name = (IF announced THEN CallPart(<<>>, announced).name ELSE "")
         /\ Sends(e, w, SaysPart(CallPart(<<>>, announced)))
  BY DEF ResponsesAddsCall
<1> DEFINE p == CallPart(<<>>, announced)
           s == SaysPart(p)
<1>. HIDE DEF open, w
<1>5. PICK e : /\ announced \in BOOLEAN /\ e.type = "added" /\ e.id = p.id
               /\ e.item = ItemId(p.id) /\ e.name = (IF announced THEN p.name ELSE "")
               /\ Sends(e, w, s)
  BY <1>4
<1>6. /\ PartOK(p) /\ IsCall(p) /\ p.announced = announced /\ p.name # ""
      /\ p.id = CallId(Count(parts))
  BY <1>0, <1>1, <1>5, CallPartIs, CallIsNew DEF IsCall
<1>30. Count(parts) \in 0 .. MaxParts
  BY <1>0, <1>1, CallIsNew
<1>. HIDE DEF p
<1>7. SaidOK(s) /\ s.parts = Append(parts, p)
  BY <1>0, <1>6, SaysPartIs
<1>8. /\ IsSeq(parts) /\ Len(parts) \in Nat /\ CallsIn(parts) \subseteq 1 .. Len(parts)
      /\ IsFiniteSet(CallsIn(parts)) /\ wire.open \subseteq CallsIn(parts)
  BY <1>0, <1>3, CallsFinite DEF SaidOK, ResponsesNumbers
<1>. HIDE DEF parts, s
<1>9. /\ s.parts[place] = p /\ \A k \in 1 .. Len(parts) : s.parts[k] = parts[k]
      /\ CallsIn(s.parts) = CallsIn(parts) \union {place} /\ Count(s.parts) = Count(parts) + 1
  <2>1. IsCall(p) /\ IsSeq(parts)
    BY <1>6, <1>8
  <2>2. LET q == Append(parts, p) IN
        /\ q[Len(parts) + 1] = p /\ \A k \in 1 .. Len(parts) : q[k] = parts[k]
        /\ CallsIn(q) = CallsIn(parts) \union {Len(parts) + 1} /\ Count(q) = Count(parts) + 1
    BY ONLY <2>1, PartMore
  <2>. QED BY <1>7, <2>2
<1>10. place \notin 1 .. Len(parts)
  BY <1>8
<1>. HIDE DEF place
<1>11. /\ \A i \in CallsIn(parts) : s.parts[i] = parts[i] /\ i # place
       /\ place \notin wire.open
  BY <1>8, <1>9, <1>10
<1>12. \A i \in CallsIn(parts) : \E m \in 0 .. Count(parts) - 1 : parts[i].id = CallId(m)
  BY <1>3 DEF ResponsesNumbers, CallsNamed
<1>13. \A i \in CallsIn(parts) : parts[i].id # p.id /\ ItemId(parts[i].id) # ItemId(p.id)
  <2> TAKE i \in CallsIn(parts)
  <2>1. PICK m : m \in 0 .. Count(parts) - 1 /\ parts[i].id = CallId(m)
    BY <1>12
  <2> DEFINE N == Count(parts)
  <2>2. m \in 0 .. MaxParts /\ m # N
    <3>1. N \in 0 .. MaxParts /\ m \in 0 .. N - 1
      BY <1>30, <2>1
    <3>. HIDE DEF N
    <3>. QED BY ONLY <3>1, BoundsAssumption
  <2>3. ItemId(CallId(m)) # ItemId(CallId(N))
    BY <1>30, <2>2, NamesAssumption
  <2>. QED BY <1>6, <2>1, <2>3
<1>14. CallsNamed(s.parts)
  <2>0. /\ Count(parts) \in 0 .. Count(s.parts) - 1
        /\ \A m : m \in 0 .. Count(parts) - 1 => m \in 0 .. Count(s.parts) - 1
    <3> DEFINE N == Count(parts)
               M == Count(s.parts)
    <3>1. N \in 0 .. MaxParts /\ M = N + 1
      BY <1>9, <1>30
    <3>. HIDE DEF N, M
    <3>2. N \in 0 .. M - 1 /\ \A m : m \in 0 .. N - 1 => m \in 0 .. M - 1
      BY ONLY <3>1, BoundsAssumption
    <3>. QED BY <3>2 DEF N, M
  <2>1. \A i \in CallsIn(s.parts) : \E m \in 0 .. Count(s.parts) - 1 : s.parts[i].id = CallId(m)
    <3> TAKE i \in CallsIn(s.parts)
    <3>1. CASE i \in CallsIn(parts)
      <4>1. PICK m : m \in 0 .. Count(parts) - 1 /\ parts[i].id = CallId(m)
        BY <1>12, <3>1
      <4>2. m \in 0 .. Count(s.parts) - 1
        BY <2>0, <4>1
      <4>3. s.parts[i].id = CallId(m)
        BY <1>11, <3>1, <4>1
      <4>. QED BY <4>2, <4>3
    <3>2. CASE i = place
      <4>1. Count(parts) \in 0 .. Count(s.parts) - 1
        BY <2>0
      <4>2. s.parts[i].id = CallId(Count(parts))
        BY <1>6, <1>9, <3>2
      <4>. QED BY <4>1, <4>2
    <3>. QED BY <1>9, <3>1, <3>2
  <2>2. \A i, j \in CallsIn(s.parts) : s.parts[i].id = s.parts[j].id => i = j
    <3>1. \A i, j \in CallsIn(parts) : parts[i].id = parts[j].id => i = j
      BY <1>3 DEF ResponsesNumbers, CallsNamed
    <3>. QED BY <1>9, <1>11, <1>13, <3>1
  <2>. QED BY <2>1, <2>2 DEF CallsNamed
<1>. HIDE DEF t
<1>15. ResponsesState(t) /\ t.next = n /\ Entries(t.calls, n)
  BY <1>3 DEF ResponsesNumbers
<1>16. Named(e)
  <2>1. CallId(Count(parts)) # ""
    BY <1>30, NamesAssumption
  <2>. QED BY <1>5, <1>6, <2>1 DEF Named
<1> DEFINE out == ResponsesConvert(t, e)
<1>17. out = Announce(t, e)
  BY <1>5 DEF ResponsesConvert
<1>. HIDE DEF out
<1>18. PICK k, args, u :
         /\ ResponsesState(u) /\ u.current = e.id
         /\ u.items = With(t.items, e.item, e.id)
         /\ u.calls = With(t.calls, e.id, [index |-> k, args |-> args])
         /\ IF e.name = ""
            THEN k \in -1 .. n - 1 /\ u.next = n /\ Announce(t, e) = Ignore(u)
            ELSE k \in 0 .. n /\ u.next = (IF k = n THEN n + 1 ELSE n)
                     /\ OneCall(Announce(t, e), u, k)
  BY <1>15, <1>16, AnnounceIs
<1> DEFINE m == u.next
           entry == [index |-> k, args |-> args]
<1>19. /\ Brings(out, n, m) /\ out.state = u
       /\ m \in {n, n + 1} /\ k \in -1 .. m - 1
       /\ announced => k # -1
       /\ ~announced => m = n
  <2>1. CASE ~announced
    <3>1. e.name = ""
      BY <1>5, <2>1
    <3>2. k \in -1 .. n - 1 /\ u.next = n /\ out = Ignore(u)
      BY <1>17, <1>18, <3>1
    <3>. QED BY <2>1, <3>2, IgnoreBrings
  <2>2. CASE announced
    <3>1. e.name # ""
      BY <1>5, <1>6, <2>2
    <3>2. k \in 0 .. n /\ u.next = (IF k = n THEN n + 1 ELSE n) /\ OneCall(out, u, k)
      BY <1>17, <1>18, <3>1
    <3>3. out.state = u /\ (k = n => Brings(out, n, n + 1)) /\ (k # n => Brings(out, n, n))
      BY <3>2, CallBrings
    <3>4. CASE k = n
      <4>1. m = n + 1 /\ k \in -1 .. m - 1 /\ k # -1
        BY <3>2, <3>4
      <4>. QED BY <2>2, <3>3, <3>4, <4>1
    <3>5. CASE k # n
      <4>1. m = n /\ k \in -1 .. m - 1 /\ k # -1
        BY <3>2, <3>5
      <4>. QED BY <2>2, <3>3, <3>5, <4>1
    <3>. QED BY <3>4, <3>5
  <2>. QED BY <2>1, <2>2
<1>20. /\ DOMAIN u.calls = {p.id} \union DOMAIN t.calls /\ u.calls[p.id] = entry
       /\ \A id \in DOMAIN t.calls : id # p.id => u.calls[id] = t.calls[id]
       /\ DOMAIN u.items = {ItemId(p.id)} \union DOMAIN t.items
       /\ u.items[ItemId(p.id)] = p.id
       /\ \A item \in DOMAIN t.items : item # ItemId(p.id) => u.items[item] = t.items[item]
  <2>1. u.items = With(t.items, ItemId(p.id), p.id) /\ u.calls = With(t.calls, p.id, entry)
    BY <1>5, <1>18
  <2> DEFINE f == t.calls
             g == u.calls
             h == t.items
             l == u.items
             id0 == p.id
             item0 == ItemId(p.id)
  <2>2. l = With(h, item0, id0) /\ g = With(f, id0, entry)
    BY <2>1
  <2>. HIDE DEF entry, f, g, h, l, id0, item0
  <2>3. /\ DOMAIN g = {id0} \union DOMAIN f /\ g[id0] = entry
        /\ \A id \in DOMAIN f : id # id0 => g[id] = f[id]
    BY ONLY <2>2 DEF With
  <2>4. /\ DOMAIN l = {item0} \union DOMAIN h /\ l[item0] = id0
        /\ \A item \in DOMAIN h : item # item0 => l[item] = h[item]
    BY ONLY <2>2 DEF With
  <2>. QED BY <2>3, <2>4 DEF f, g, h, l, id0, item0
<1>21. entry = [index |-> entry.index, args |-> entry.args] /\ entry.index = k
  OBVIOUS
<1>. HIDE DEF entry
<1>22. Entries(u.calls, m)
  <2>1. \A id \in DOMAIN u.calls : id = p.id \/ (id # p.id /\ id \in DOMAIN t.calls)
    BY <1>20
  <2>2. \A x : x \in -1 .. n - 1 => x \in -1 .. m - 1
    BY <1>19
  <2>3. \A id \in DOMAIN t.calls :
            /\ t.calls[id] = [index |-> t.calls[id].index, args |-> t.calls[id].args]
            /\ t.calls[id].index \in -1 .. m - 1
    BY <1>15, <2>2 DEF Entries
  <2>4. ASSUME NEW id \in DOMAIN u.calls
        PROVE  /\ u.calls[id] = [index |-> u.calls[id].index, args |-> u.calls[id].args]
               /\ u.calls[id].index \in -1 .. m - 1
    <3>1. CASE id = p.id
      BY <1>19, <1>20, <1>21, <3>1
    <3>2. CASE id # p.id /\ id \in DOMAIN t.calls
      <4>1. u.calls[id] = t.calls[id]
        BY <1>20, <3>2
      <4>. QED BY <2>3, <3>2, <4>1
    <3>. QED BY <2>1, <3>1, <3>2
  <2>. QED BY <2>4 DEF Entries
<1>. HIDE DEF m
<1>23. \A i \in open : KnownCall(u, s.parts[i])
  <2> TAKE i \in open
  <2>0. i = place \/ i \in wire.open
    BY DEF open
  <2>1. CASE i = place
    BY <1>6, <1>9, <1>19, <1>20, <1>21, <2>1 DEF KnownCall
  <2>2. CASE i \in wire.open
    <3>1. KnownCall(t, parts[i])
      BY <1>3, <2>2 DEF ResponsesNumbers
    <3>2. s.parts[i] = parts[i] /\ parts[i].id # p.id /\ ItemId(parts[i].id) # ItemId(p.id)
      BY <1>8, <1>11, <1>13, <2>2
    <3>. QED BY <1>20, <3>1, <3>2 DEF KnownCall
  <2>. QED BY <2>0, <2>1, <2>2
<1>24. WireOK(w) /\ w.open = open
  <2>1. WireOK([wire EXCEPT !.open = open])
    BY ONLY <1>0, WireOther
  <2>2. [wire EXCEPT !.open = open].open = open
    BY ONLY <1>0, WireFields
  <2>. QED BY <2>1, <2>2 DEF w
<1>25. m + Cardinality(Unannounced(w, s.parts)) <= Count(s.parts)
  <2> DEFINE U == Unannounced(wire, parts)
  <2>1. U \in SUBSET CallsIn(parts) /\ place \notin U /\ n + Cardinality(U) <= Count(parts)
    BY <1>3, <1>8, <1>11 DEF ResponsesNumbers, Unannounced
  <2>2. \A i \in wire.open : s.parts[i] = parts[i]
    BY <1>8, <1>11
  <2>3. Unannounced(w, s.parts) = IF announced THEN U ELSE U \union {place}
    <3>1. w.open = wire.open \union {place} /\ s.parts[place].announced = announced
      BY <1>6, <1>9, <1>24 DEF open
    <3>. QED BY <2>2, <3>1 DEF Unannounced
  <2>. HIDE DEF U
  <2>4. IsFiniteSet(U) /\ Cardinality(U) \in Nat
    BY <1>8, <2>1, FS_Subset, FS_CardinalityType
  <2>5. Cardinality(U \union {place}) = Cardinality(U) + 1
    BY <2>1, <2>4, FS_AddElement
  <2> DEFINE C == Cardinality(U)
             N == Count(parts)
             D == Cardinality(Unannounced(w, s.parts))
  <2>6. /\ announced \in BOOLEAN
        /\ announced => D = C
        /\ ~announced => D = C + 1 /\ m = n
    BY <1>5, <1>19, <2>3, <2>5
  <2>7. C \in Nat /\ N \in Nat /\ n + C <= N /\ Count(s.parts) = N + 1 /\ m \in {n, n + 1}
    BY <1>9, <1>19, <1>30, <2>1, <2>4
  <2>. HIDE DEF C, N, D
  <2>8. m + D <= N + 1
    <3>1. CASE announced
      <4>1. D = C
        BY <2>6, <3>1
      <4>. QED BY <2>7, <4>1
    <3>2. CASE ~announced
      <4>1. D = C + 1 /\ m = n
        BY <2>6, <3>2
      <4>. QED BY <2>7, <4>1
    <3>. QED BY <3>1, <3>2
  <2>. QED BY <2>7, <2>8 DEF D
<1>26. CurrentOpen(u, w, s.parts)
  <2>1. place \in w.open /\ s.parts[place].id = u.current
    BY <1>5, <1>9, <1>18, <1>24 DEF open
  <2>. QED BY <2>1 DEF CurrentOpen
<1>27. w.open \subseteq CallsIn(s.parts)
  BY <1>8, <1>9, <1>24 DEF open
<1>28. ResponsesNumbers(u, w, s.parts, m)
  <2>1. u.next = m /\ ResponsesState(u)
    BY <1>18 DEF m
  <2>. QED BY <1>14, <1>22, <1>23, <1>24, <1>25, <1>26, <1>27, <2>1 DEF ResponsesNumbers, m
<1>29. ResponsesNumbers(out.state, w, s.parts, m)
  BY <1>19, <1>28
<1>. QED BY <1>1, <1>2, <1>5, <1>7, <1>19, <1>24, <1>29, ResponsesGo DEF out, t

\* The item that is done is the one its event names.
LEMMA ResponsesDone ==
  ASSUME DialectsInv, ToolInv, ResponsesEndsCall
  PROVE  ToolInv'
<1>0. WireOK(wire) /\ SaidOK(said)
  BY DEF DialectsInv, ToolInv
<1>1. provider = "responses" /\ wire.phase \in {"start", "body"}
  BY DEF ResponsesEndsCall, Talking
<1> DEFINE parts == said.parts
           t == translator
<1>2. PICK n \in Nat : ToolsOf(n)
  BY DEF ToolInv
<1>3. ResponsesNumbers(t, wire, parts, n)
  BY <1>1, <1>2 DEF ToolsOf, Numbers
<1>4. PICK i \in wire.open : \E e :
         /\ e.type = "done" /\ e.item = ItemId(said.parts[i].id)
         /\ e.id \in {"", said.parts[i].id}
         /\ Sends(e, [wire EXCEPT !.open = @ \ {i}], said)
  BY DEF ResponsesEndsCall
<1> DEFINE open == wire.open \ {i}
           w == [wire EXCEPT !.open = open]
           id == parts[i].id
<1>5. PICK e : /\ e.type = "done" /\ e.item = ItemId(id) /\ e.id \in {"", id}
               /\ Sends(e, w, said)
  BY <1>4
<1>6. WireOK(w) /\ w.open = open
  <2>. HIDE DEF open
  <2>1. WireOK([wire EXCEPT !.open = open])
    BY ONLY <1>0, WireOther
  <2>2. [wire EXCEPT !.open = open].open = open
    BY ONLY <1>0, WireFields
  <2>. QED BY <2>1, <2>2
<1>. HIDE DEF w
<1>7. /\ IsFiniteSet(CallsIn(parts)) /\ wire.open \subseteq CallsIn(parts)
      /\ Count(parts) \in Nat /\ i \in CallsIn(parts)
  BY <1>0, <1>3, CallsFinite DEF SaidOK, ResponsesNumbers
<1>. HIDE DEF parts, t
<1>8. ResponsesState(t) /\ t.next = n /\ Entries(t.calls, n)
  BY <1>3 DEF ResponsesNumbers
<1>9. \A k \in wire.open : KnownCall(t, parts[k])
  BY <1>3 DEF ResponsesNumbers
<1>10. /\ ItemId(id) \in DOMAIN t.items /\ t.items[ItemId(id)] = id /\ id \in DOMAIN t.calls
       /\ parts[i].announced => t.calls[id].index # -1
  BY <1>9 DEF KnownCall
<1>11. \A k \in open : k \in wire.open /\ k # i /\ parts[k].id # id
  BY <1>3, <1>7 DEF ResponsesNumbers, CallsNamed
<1>. HIDE DEF id
<1>12. DoneId(t, e) = id
  BY <1>5, <1>10 DEF DoneId, Known
<1> DEFINE out == ResponsesConvert(t, e)
<1>13. out = ItemDone(t, e)
  BY <1>5 DEF ResponsesConvert
<1>. HIDE DEF out
<1>23. PICK u : DoneLeaves(t, id, n, ItemDone(t, e), u)
  BY <1>8, <1>10, <1>12, DoneIs
<1>14. /\ ResponsesState(u) /\ u.items = t.items
       /\ u.current = (IF t.current = id THEN "" ELSE t.current)
       /\ DOMAIN u.calls = DOMAIN t.calls \ {id}
       /\ \A other \in DOMAIN u.calls : u.calls[other] = t.calls[other]
       /\ \/ u.next = n /\ ItemDone(t, e) = Ignore(u)
          \/ \E k \in 0 .. n : /\ u.next = (IF k = n THEN n + 1 ELSE n)
                               /\ OneCall(ItemDone(t, e), u, k)
                               /\ k = n => t.calls[id].index = -1
  BY <1>23 DEF DoneLeaves
<1> DEFINE m == u.next
<1>15. /\ Brings(out, n, m) /\ out.state = u
       /\ \/ m = n
          \/ m = n + 1 /\ ~parts[i].announced
  <2>1. CASE u.next = n /\ ItemDone(t, e) = Ignore(u)
    BY <1>13, <2>1, IgnoreBrings
  <2>2. CASE \E k \in 0 .. n : /\ u.next = (IF k = n THEN n + 1 ELSE n)
                               /\ OneCall(ItemDone(t, e), u, k)
                               /\ k = n => t.calls[id].index = -1
    <3>1. PICK k \in 0 .. n : /\ u.next = (IF k = n THEN n + 1 ELSE n)
                              /\ OneCall(ItemDone(t, e), u, k)
                              /\ k = n => t.calls[id].index = -1
      BY <2>2
    <3>2. OneCall(out, u, k)
      BY <1>13, <3>1
    <3>3. out.state = u /\ (k = n => Brings(out, n, n + 1)) /\ (k # n => Brings(out, n, n))
      BY <3>2, CallBrings
    <3>4. CASE k = n
      <4>1. m = n + 1 /\ t.calls[id].index = -1
        BY <3>1, <3>4
      <4>. QED BY <1>10, <3>3, <3>4, <4>1
    <3>5. CASE k # n
      <4>1. m = n
        BY <3>1, <3>5
      <4>. QED BY <3>3, <3>5, <4>1
    <3>. QED BY <3>4, <3>5
  <2>. QED BY <1>14, <2>1, <2>2
<1>. HIDE DEF m
<1>16. \A k \in open : KnownCall(u, parts[k])
  BY <1>9, <1>11, <1>14 DEF KnownCall
<1>17. CurrentOpen(u, w, parts)
  <2>1. ASSUME u.current # "" PROVE \E k \in open : parts[k].id = u.current
    <3>1. t.current # id /\ u.current = t.current
      BY <1>14, <2>1
    <3>2. PICK k \in wire.open : parts[k].id = t.current
      BY <1>3, <2>1, <3>1 DEF ResponsesNumbers, CurrentOpen
    <3>3. k \in open
      BY <3>1, <3>2 DEF id
    <3>. QED BY <3>1, <3>2, <3>3
  <2>. QED BY <1>6, <2>1 DEF CurrentOpen
<1>18. Entries(u.calls, m)
  <2>1. \A x : x \in -1 .. n - 1 => x \in -1 .. m - 1
    BY <1>15
  <2>2. \A other \in DOMAIN u.calls : other \in DOMAIN t.calls /\ u.calls[other] = t.calls[other]
    BY <1>14
  <2>. QED BY <1>8, <2>1, <2>2 DEF Entries
<1>19. m + Cardinality(Unannounced(w, parts)) <= Count(parts)
  <2> DEFINE U == Unannounced(wire, parts)
             V == Unannounced(w, parts)
             C == Cardinality(U)
             D == Cardinality(V)
             N == Count(parts)
  <2>1. U \in SUBSET CallsIn(parts) /\ n + C <= N
    BY <1>3, <1>7 DEF ResponsesNumbers, Unannounced
  <2>2. V = U \ {i} /\ (~parts[i].announced => i \in U)
    BY <1>6 DEF Unannounced
  <2>. HIDE DEF U, V
  <2>3. IsFiniteSet(U) /\ C \in Nat
    BY <1>7, <2>1, FS_Subset, FS_CardinalityType
  <2>4. i \in U => D = C - 1
    BY <2>2, <2>3, FS_RemoveElement
  <2>5. i \notin U => D = C
    <3>1. i \notin U => V = U
      BY <2>2
    <3>. QED BY <3>1
  <2>6. m = n \/ (m = n + 1 /\ i \in U)
    BY <1>15, <2>2
  <2>7. N \in Nat
    BY <1>7
  <2>. HIDE DEF C, D, N
  <2>8. m + D <= N
    BY <2>1, <2>3, <2>4, <2>5, <2>6, <2>7
  <2>. QED BY <2>8 DEF D, N, V
<1>20. w.open \subseteq CallsIn(parts) /\ CallsNamed(parts)
  BY <1>3, <1>6, <1>7 DEF ResponsesNumbers
<1>21. ResponsesNumbers(u, w, parts, m)
  <2>1. u.next = m /\ ResponsesState(u)
    BY <1>14 DEF m
  <2>2. \A k \in w.open : KnownCall(u, parts[k])
    BY <1>6, <1>16
  <2>. HIDE DEF open
  <2>. QED BY <1>17, <1>18, <1>19, <1>20, <2>1, <2>2 DEF ResponsesNumbers
<1>22. ResponsesNumbers(out.state, w, said.parts, m)
  BY <1>15, <1>21 DEF parts
<1>. QED BY <1>0, <1>1, <1>2, <1>5, <1>6, <1>15, <1>22, ResponsesGo DEF out, t

\* It stops with calls only if it has made one.
LEMMA ResponsesEnds ==
  ASSUME DialectsInv, ToolInv, ResponsesStops
  PROVE  ToolInv'
<1>0. WireOK(wire) /\ SaidOK(said)
  BY DEF DialectsInv, ToolInv
<1>1. provider = "responses" /\ wire.phase \in {"start", "body"} /\ wire.open = {}
  BY DEF ResponsesStops, Talking
<1> DEFINE t == translator
<1>2. PICK n \in Nat : ToolsOf(n)
  BY DEF ToolInv
<1>3. ResponsesNumbers(t, wire, said.parts, n)
  BY <1>1, <1>2 DEF ToolsOf, Numbers
<1>4. t.current = "" /\ t.next = n
  BY <1>1, <1>3 DEF ResponsesNumbers, CurrentOpen
<1> DEFINE ph == "over"
           w == [wire EXCEPT !.phase = ph]
<1> DEFINE counts == [input |-> 2, output |-> 1, cached |-> 1, claude |-> FALSE]
<1>5. PICK type : /\ type \in {"completed", "incomplete", "failed"}
                  /\ Sends([type |-> type, usage |-> counts], w,
                           [said EXCEPT !.stop = type, !.usage = counts])
  BY DEF ResponsesStops
<1>. HIDE DEF counts
<1> DEFINE a == [said EXCEPT !.stop = type]
           s == [a EXCEPT !.usage = counts]
           e == [type |-> type, usage |-> counts]
           out == Convert(t, e)
<1>6. Sends(e, w, s)
  <2>1. [said EXCEPT !.stop = type, !.usage = counts] = s
    OBVIOUS
  <2>. QED BY <1>5, <2>1
<1>7. SaidOK(a) /\ a.parts = said.parts
  BY <1>0, SaidOther
<1>. HIDE DEF a
<1>8. SaidOK(s) /\ s.parts = said.parts
  BY <1>7, SaidOther
<1>9. WireOK(w) /\ w.phase \notin {"start", "body"}
  <2>1. WireOK(w) /\ w.phase = ph
    BY ONLY <1>0, WireOther
  <2>. QED BY <2>1
<1>12. e.type = type
  OBVIOUS
<1>. HIDE DEF s, e, w, t
<1>10. out = ResponsesConvert(t, e)
  BY <1>1 DEF Convert
<1>. HIDE DEF out
<1>11. Brings(out, n, n)
  <2> DEFINE u == [t EXCEPT !.sent = TRUE]
             done == Finish(ResponsesReason(t), ResponsesUsage(e.usage))
             short == Finish("length", ResponsesUsage(e.usage))
  <2>1. /\ Wordless(done) /\ done.finish = ResponsesReason(t)
        /\ Wordless(short) /\ short.finish = "length"
    BY WordlessAre
  <2>2. ResponsesReason(t) = "tool_calls" => n > 0
    BY <1>4 DEF ResponsesReason
  <2>. HIDE DEF u, done, short
  <2>3. Brings(Emit(u, <<done>>), n, n)
    BY <2>1, <2>2, EmitBrings
  <2>4. Brings(Emit(u, <<short>>), n, n)
    <3>1. short.finish # "tool_calls"
      BY <2>1
    <3>. QED BY <2>1, <3>1, EmitBrings
  <2>5. Brings(Ignore(t), n, n) /\ Brings(Fail(u), n, n)
    BY IgnoreBrings, FailBrings
  <2>6. CASE type = "completed"
    <3>1. out = IF ~t.sent THEN Emit(u, <<done>>) ELSE Ignore(t)
      BY <1>10, <1>12, <2>6 DEF ResponsesConvert, u, done
    <3>2. out = Emit(u, <<done>>) \/ out = Ignore(t)
      BY <3>1
    <3>. QED BY <2>3, <2>5, <3>2
  <2>7. CASE type = "incomplete"
    <3>1. out = IF ~t.sent THEN Emit(u, <<short>>) ELSE Ignore(t)
      BY <1>10, <1>12, <2>7 DEF ResponsesConvert, u, short
    <3>2. out = Emit(u, <<short>>) \/ out = Ignore(t)
      BY <3>1
    <3>. QED BY <2>4, <2>5, <3>2
  <2>8. CASE type = "failed"
    <3>1. out = Fail(u)
      BY <1>10, <1>12, <2>8 DEF ResponsesConvert, u
    <3>. QED BY <2>5, <3>1
  <2>. QED BY <1>5, <2>6, <2>7, <2>8
<1>. QED BY <1>2, <1>6, <1>8, <1>9, <1>11, ToolStays DEF out, t

-----------------------------------------------------------------------------
(* The end of the body, and the invariant.                                 *)

\* A body that is over tells no more calls.
LEMMA ToolCloses ==
  ASSUME SaidOK(said), WireOK(wire), Closed,
         NEW n \in Nat, ToldOf(dialect', chat'.calls, n), n <= Count(said.parts)
  PROVE  ToolInv'
<1> DEFINE ph == "closed"
           w == [wire EXCEPT !.phase = ph]
<1>1. wire' = w /\ said' = said
  BY DEF Closed
<1>. HIDE DEF ph
<1>2. w.phase = ph
  BY ONLY WireOK(wire), WireOther
<1>3. wire'.phase \notin {"start", "body"}
  BY <1>1, <1>2 DEF ph
<1>4. ToolsOf(n)'
  BY <1>1, <1>3 DEF ToolsOf
<1>. QED BY <1>1, <1>4 DEF ToolInv

\* A connection that breaks, a stream that says it is done, and one that is.
LEMMA ToolEnds ==
  ASSUME DialectsInv, ToolInv, Break \/ DoneEarly \/ End
  PROVE  ToolInv'
<1>0. WireOK(wire) /\ SaidOK(said) /\ Closed
  BY DEF DialectsInv, ToolInv, Break, DoneEarly, End
<1>1. PICK n \in Nat : ToolsOf(n)
  BY DEF ToolInv
<1>2. ToldOf(dialect, chat.calls, n) /\ n <= Count(said.parts)
  BY <1>1 DEF ToolsOf
<1>3. ToldOf(dialect', chat'.calls, n)
  <2>1. CASE Break
    <3>1. dialect' = DialectFinish(DialectRefusal(dialect)) /\ chat' = chat
      BY <2>1 DEF Break, Refuse
    <3>. QED BY <1>2, <3>1, EndHonest DEF ToldOf, Follows
  <2>2. CASE End
    <3>1. dialect' = DialectFinish(dialect) /\ chat' = chat
      BY <2>2 DEF End
    <3>. QED BY <1>2, <3>1, EndHonest DEF ToldOf, Follows
  <2>3. CASE DoneEarly
    <3> DEFINE acc == [seen |-> seen, dialect |-> dialect, events |-> events, chat |-> chat]
               c == Finish("stop", NoUsage)
               r == Relay(acc, c)
    <3>1. acc.dialect = dialect /\ acc.chat = chat
      OBVIOUS
    <3>2. dialect' = DialectFinish(r.dialect) /\ chat' = r.chat
      BY <2>3 DEF DoneEarly
    <3>3. Wordless(c) /\ c.finish # "tool_calls"
      <4>1. "stop" # "tool_calls"
        OBVIOUS
      <4>. QED BY <4>1, WordlessAre
    <3>. HIDE DEF acc, c
    <3>4. ToldOf(r.dialect, r.chat.calls, n)
      BY <1>2, <3>1, <3>3, RelayText
    <3>. HIDE DEF r
    <3>. QED BY <3>2, <3>4, EndHonest DEF ToldOf, Follows
  <2>. QED BY <2>1, <2>2, <2>3
<1>. QED BY <1>0, <1>2, <1>3, ToolCloses

\* Nothing is told before the upstream says something.
LEMMA ToldStart == ToldOf(DialectStart, NoAnswer.calls, 0)
<1> DEFINE f == Frame("message_start", -1, "", "", "", <<>>)
           fr == Append(<<>>, f)
<1>1. f.type = "message_start"
  BY DEF Frame
<1>2. DialectStart = [next |-> 0, open |-> NoBlock, stopped |-> FALSE, failed |-> FALSE,
                      usage |-> NoUsage, frames |-> fr]
  <2>1. fr = <<f>>
    <3>. HIDE DEF f
    <3>. QED OBVIOUS
  <2>. QED BY <2>1 DEF DialectStart
<1>. HIDE DEF f
<1>3. IsSeq(<<>>) /\ Len(<<>>) = 0 /\ 1 .. 0 = {}
  BY DEF IsSeq
<1>4. /\ IsSeq(fr) /\ IsSeq(StartsIn(fr))
      /\ Asks(fr) => Asks(<<>>) \/ AsksForTool(f)
  <2>1. IsSeq(StartsIn(<<>>))
    BY <1>3, NothingRead
  <2>. QED BY <1>3, <2>1, ShownMore
<1>5. ~Asks(fr)
  <2>1. ~Asks(<<>>)
    BY <1>3 DEF Asks
  <2>2. ~AsksForTool(f)
    BY <1>1 DEF AsksForTool
  <2>. QED BY <1>4, <2>1, <2>2
<1>. HIDE DEF fr
<1>6. DialectStart.open = NoBlock /\ DialectStart.frames = fr /\ Shape(DialectStart)
  BY <1>2, <1>4 DEF Shape
<1>7. Honest(DialectStart)
  BY <1>5, <1>6, NoBlockIs DEF Honest
<1>8. Numbered(<<>>) /\ Len(<<>>) = 0
  BY <1>3 DEF Numbered
<1>9. NoAnswer.calls = <<>>
  BY DEF NoAnswer
<1>. QED BY <1>7, <1>8, <1>9 DEF ToldOf

\* Nothing is told yet, and nothing was said.
LEMMA ToolStart ==
  ASSUME DialectsInit
  PROVE  ToolInv
<1>0. IsSeq(<<>>) /\ Len(<<>>) = 0 /\ 1 .. 0 = {} /\ DOMAIN <<>> = {}
  BY DEF IsSeq
<1>1. said.parts = <<>> /\ SaidOK(said)
  <2> DEFINE none == NoCounts
             s == [parts |-> <<>>, stop |-> "", usage |-> none]
  <2>1. said = s
    BY DEF DialectsInit
  <2>. HIDE DEF none
  <2>2. s.parts = <<>> /\ s = [parts |-> s.parts, stop |-> s.stop, usage |-> s.usage]
    OBVIOUS
  <2>. HIDE DEF s
  <2>. QED BY <1>0, <2>1, <2>2 DEF SaidOK
<1>2. CallsIn(<<>>) = {} /\ Count(<<>>) = 0
  BY <1>0, FS_EmptySet DEF CallsIn, Count
<1>3. wire.kind = "" /\ wire.open = {}
  BY DEF DialectsInit
<1>4. provider = "claude" => ClaudeNumbers(translator, wire, <<>>, 0)
  <2>1. ClaudeStart.next = 0 /\ ClaudeStart.tools = <<>>
    BY DEF ClaudeStart
  <2>2. provider = "claude" => translator = ClaudeStart
    BY DEF DialectsInit, TranslatorStart
  <2>. QED BY <1>2, <1>3, <2>1, <2>2 DEF ClaudeNumbers
<1>5. provider = "gemini" => GeminiNumbers(translator, 0)
  <2> DEFINE s == GeminiStart
  <2>1. GeminiNumbers(s, 0)
    BY DEF GeminiStart, GeminiNumbers
  <2>2. provider = "gemini" => translator = s
    BY DEF DialectsInit, TranslatorStart
  <2>. HIDE DEF s
  <2>. QED BY <2>1, <2>2
<1>6. provider = "responses" => ResponsesNumbers(translator, wire, <<>>, 0)
  <2> DEFINE s == ResponsesStart
  <2>1. s.next = 0 /\ s.calls = <<>> /\ s.current = "" /\ ResponsesState(s)
    BY DEF ResponsesStart, ResponsesState
  <2>2. provider = "responses" => translator = s
    BY DEF DialectsInit, TranslatorStart
  <2>. HIDE DEF s
  <2>3. Entries(s.calls, 0) /\ CurrentOpen(s, wire, <<>>)
    BY <1>0, <2>1 DEF Entries, CurrentOpen
  <2> DEFINE parts == <<>>
  <2>4. Unannounced(wire, parts) = {} /\ CallsNamed(parts)
    BY <1>2, <1>3 DEF Unannounced, CallsNamed
  <2>5. Cardinality(Unannounced(wire, parts)) = 0 /\ Count(parts) = 0
    BY <1>2, <2>4, FS_EmptySet
  <2>6. CurrentOpen(s, wire, parts)
    BY <2>3
  <2>. HIDE DEF parts
  <2>7. 0 + Cardinality(Unannounced(wire, parts)) <= Count(parts)
    BY <2>5
  <2>8. wire.open \subseteq CallsIn(parts) /\ \A i \in wire.open : KnownCall(s, parts[i])
    BY <1>3
  <2>9. ResponsesNumbers(s, wire, parts, 0)
    BY <2>1, <2>3, <2>4, <2>6, <2>7, <2>8 DEF ResponsesNumbers
  <2>. QED BY <2>2, <2>9 DEF parts
<1>7. OpenAiNumbers(wire, <<>>, 0)
  BY <1>2, <1>3 DEF OpenAiNumbers
<1>8. ToldOf(dialect, chat.calls, 0)
  BY ToldStart DEF DialectsInit
<1>9. ToolsOf(0)
  BY <1>1, <1>2, <1>4, <1>5, <1>6, <1>7, <1>8 DEF ToolsOf, Numbers
<1>. QED BY <1>1, <1>9 DEF ToolInv

\* Whatever the upstream is, and wherever its stream breaks off, the calls a chat
\* client has put together are numbered in a row, are no more than the upstream has
\* made, and each was shown to the Claude client too.
THEOREM CallsAreCounted == DialectsSpec => []ToolInv
<1>1. DialectsInit => ToolInv
  BY ToolStart
<1>2. DialectsInv /\ ToolInv /\ [DialectsNext]_dialectsVars => ToolInv'
  <2> SUFFICES ASSUME DialectsInv, ToolInv, [DialectsNext]_dialectsVars PROVE ToolInv'
    OBVIOUS
  <2>1. CASE ClaudeBegins \/ ClaudeOpensBlock \/ ClaudeSendsDelta \/ ClaudeStopsBlock
             \/ ClaudeStops \/ ClaudeSaysStop
    BY <2>1, ClaudeTools
  <2>2. CASE GeminiSends \/ GeminiFails
    BY <2>2, GeminiTools
  <2>3. CASE ResponsesSendsText \/ ResponsesSendsArguments
    BY <2>3, ResponsesTalks
  <2>4. CASE ResponsesAddsCall
    BY <2>4, ResponsesAdds
  <2>5. CASE ResponsesEndsCall
    BY <2>5, ResponsesDone
  <2>6. CASE ResponsesStops
    BY <2>6, ResponsesEnds
  <2>7. CASE OpenAiSendsText \/ OpenAiOpensCall \/ OpenAiSendsArguments \/ OpenAiStops
             \/ OpenAiCounts \/ OpenAiFails
    BY <2>7, OpenAiTools
  <2>8. CASE Break \/ DoneEarly \/ End
    BY <2>8, ToolEnds
  <2>9. CASE UNCHANGED dialectsVars
    <3>1. /\ said' = said /\ provider' = provider /\ wire' = wire
          /\ translator' = translator /\ dialect' = dialect /\ chat' = chat
      BY <2>9 DEF dialectsVars
    <3>2. ASSUME NEW n, ToolsOf(n) PROVE ToolsOf(n)'
      BY <3>1, <3>2 DEF ToolsOf, Numbers
    <3>. QED BY <3>1, <3>2 DEF ToolInv
  <2>. QED BY <2>1, <2>2, <2>3, <2>4, <2>5, <2>6, <2>7, <2>8, <2>9 DEF DialectsNext
<1>. QED BY <1>1, <1>2, ClientsAreTold, PTL DEF DialectsSpec

\* What is counted is shown.
LEMMA CountedIsShown ==
  ASSUME ToolInv
  PROVE  ToolUseShown
<1>1. PICK n \in Nat : ToolsOf(n)
  BY DEF ToolInv
<1>2. Honest(dialect) /\ Len(chat.calls) = n /\ n <= Count(said.parts)
  BY <1>1 DEF ToolsOf, ToldOf
<1>3. Len(chat.calls) <= Cardinality(Calls)
  <2>1. Calls = CallsIn(said.parts)
    BY DEF Calls, CallsIn, IsCall
  <2>. QED BY <1>2, <2>1 DEF Count
<1> DEFINE frames == dialect.frames
           starts == StartsIn(frames)
<1>4. DOMAIN frames = 1 .. Len(frames) /\ DOMAIN starts = 1 .. Len(starts) /\ Starts = starts
  <2>1. IsSeq(frames) /\ IsSeq(starts)
    BY <1>2 DEF Honest, Shape
  <2>. QED BY <2>1, SeqMore DEF Starts
<1>5. ASSUME NEW i \in DOMAIN frames, frames[i].type = "message_delta",
             frames[i].kind = "tool_use"
      PROVE  \E j \in DOMAIN Starts : Starts[j].kind = "tool_use"
  <2>1. Asks(frames)
    BY <1>4, <1>5 DEF Asks, AsksForTool
  <2>2. Shown(frames)
    BY <1>2, <2>1 DEF Honest
  <2>. QED BY <1>4, <2>2 DEF Shown
<1>. QED BY <1>3, <1>5 DEF ToolUseShown

\* A Claude client that is told to run a tool has been shown one, and no client is
\* shown a call the upstream did not make, in whatever dialect it streams
\* (claude_endpoint.rs, backend.rs, and the translators).
THEOREM ToolsAreShown == DialectsSpec => []ToolUseShown
BY CallsAreCounted, CountedIsShown, PTL
=============================================================================
