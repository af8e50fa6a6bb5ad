-------------------------- MODULE ResponseStoreProofs --------------------------
(***************************************************************************)
(* Theorems about ResponseStore for every set of callers, names and ids,   *)
(* any retention, cap and number of turns.                                 *)
(***************************************************************************)
EXTENDS ResponseStore, FiniteSetTheorems, WellFoundedInduction, TLAPS

-----------------------------------------------------------------------------
(***************************************************************************)
(* Whose messages a turn is sent with.                                     *)
(***************************************************************************)
Messages == [turn : Nat, part : {"input", "answer"}]

Turns == [caller : Callers, model : Names, sent : Seq(Messages),
          awaits : {"answer to keep", "answer", "nothing"}]

\* A row is somebody's, under one of the ids, and no younger than the clock.
RowOK(row) ==
    /\ row.id \in Ids /\ row.owner \in Callers /\ row.model \in Names
    /\ row.at \in 0..now
    /\ row.truncated \in BOOLEAN /\ row.output \in BOOLEAN

TypeOK ==
    /\ now \in Nat
    /\ turns \in Seq(Turns)
    /\ \A row \in store : RowOK(row)
    /\ deleting \subseteq [caller : Callers, id : Ids]

\* A row is of a turn that was sent, and belongs to whoever sent it.
RowsAreTheirs ==
    \A row \in store : row.turn \in DOMAIN turns /\ row.owner = turns[row.turn].caller

\* A turn is sent with messages of turns before it and its own.
SentIsPast ==
    \A n \in DOMAIN turns : \A i \in DOMAIN turns[n].sent : turns[n].sent[i].turn \in 1..n

IInv == TypeOK /\ RowsAreTheirs /\ SentIsPast /\ OnlyOwnTurns

\* A step that only takes rows away, or lets time pass, keeps the invariant.
LEMMA FewerRows ==
  ASSUME IInv, store' \subseteq store, turns' = turns, now' \in Nat, now' >= now,
         deleting' \subseteq [caller : Callers, id : Ids]
  PROVE  IInv'
<1>1. TypeOK'
  <2>1. \A row \in store' : RowOK(row)'
    BY DEF IInv, TypeOK, RowOK
  <2>. QED BY <2>1 DEF IInv, TypeOK
<1>2. RowsAreTheirs' /\ SentIsPast' /\ OnlyOwnTurns'
  BY DEF IInv, RowsAreTheirs, SentIsPast, OnlyOwnTurns
<1>. QED BY <1>1, <1>2 DEF IInv

\* What is put before a turn's own messages is of earlier turns of its caller:
\* load_response gives nobody another's row.
LEMMA ReplayIsOwn ==
  ASSUME IInv, NEW caller \in Callers, NEW id, NEW row \in Found(caller, id)
  PROVE  /\ Replayed(row) \in Seq(Messages)
         /\ \A i \in DOMAIN Replayed(row) :
              /\ Replayed(row)[i].turn \in DOMAIN turns
              /\ turns[Replayed(row)[i].turn].caller = caller
<1>1. row.turn \in DOMAIN turns /\ turns[row.turn].caller = caller
  BY DEF Found, Visible, IInv, RowsAreTheirs
<1>2. DOMAIN turns \subseteq Nat
  BY DEF IInv, TypeOK
<1>3. /\ Input(row.turn) \in Messages /\ Input(row.turn).turn = row.turn
      /\ Reply(row.turn) \in Messages /\ Reply(row.turn).turn = row.turn
  BY <1>1, <1>2 DEF Input, Reply, Messages
<1>4. CASE row.truncated
  <2>1. Replayed(row) = <<>>
    BY <1>4 DEF Replayed
  <2>. QED BY <2>1
<1>5. CASE ~row.truncated /\ row.output
  <2>1. Replayed(row) = <<Input(row.turn)>> \o <<Reply(row.turn)>>
    BY <1>5 DEF Replayed
  <2>2. ASSUME NEW x \in Messages, NEW y \in Messages
        PROVE  /\ <<x>> \o <<y>> \in Seq(Messages)
               /\ \A i \in DOMAIN (<<x>> \o <<y>>) : (<<x>> \o <<y>>)[i] \in {x, y}
    <3>1. <<x>> \in Seq(Messages) /\ <<y>> \in Seq(Messages)
      OBVIOUS
    <3>. QED BY <3>1
  <2>. QED BY <1>1, <1>3, <2>1, <2>2
<1>6. CASE ~row.truncated /\ ~row.output
  <2>1. Replayed(row) = <<Input(row.turn)>>
    <3>1. Replayed(row) = <<Input(row.turn)>> \o <<>>
      BY <1>6 DEF Replayed
    <3>2. <<Input(row.turn)>> \in Seq(Messages)
      BY <1>3
    <3>. QED BY <3>1, <3>2
  <2>. QED BY <1>1, <1>3, <2>1
<1>. QED BY <1>4, <1>5, <1>6

\* A turn that is sent is sent with its own caller's messages.
LEMMA AskKeeps ==
  ASSUME IInv, NEW caller \in Callers, NEW model \in Names, NEW previous,
         NEW kept \in BOOLEAN, Ask(caller, model, previous, kept)
  PROVE  IInv'
<1> DEFINE found == Found(caller, previous)
           replay == IF found = {} THEN <<>> ELSE Replayed(CHOOSE row \in found : TRUE)
           last == Len(turns) + 1
           turn == [caller |-> caller, model |-> model, sent |-> Append(replay, Input(last)),
                    awaits |-> IF kept THEN "answer to keep" ELSE "answer"]
<1>1. /\ store' \subseteq store /\ now' = now /\ deleting' = deleting
      /\ turns' = turns \/ turns' = Append(turns, turn)
  BY DEF Ask, Looked
<1>2. CASE turns' = turns
  BY <1>1, <1>2, FewerRows DEF IInv, TypeOK
<1>3. CASE turns' = Append(turns, turn)
  <2>1. /\ replay \in Seq(Messages)
        /\ \A i \in DOMAIN replay :
             replay[i].turn \in DOMAIN turns /\ turns[replay[i].turn].caller = caller
    <3>1. CASE found = {}
      BY <3>1
    <3>2. CASE found # {}
      <4>1. PICK row \in found : replay = Replayed(row)
        BY <3>2
      <4>. QED BY <4>1, ReplayIsOwn
    <3>. QED BY <3>1, <3>2
  <2>2. turns \in Seq(Turns) /\ DOMAIN turns = 1..Len(turns) /\ Len(turns) \in Nat
    BY DEF IInv, TypeOK
  <2>3. Input(last) \in Messages /\ Input(last).turn = last
    BY <2>2 DEF Input, Messages
  <2>4. turn \in Turns
    <3>1. Append(replay, Input(last)) \in Seq(Messages)
      BY <2>1, <2>3
    <3>. QED BY <3>1 DEF Turns
  <2>5. /\ turns' \in Seq(Turns) /\ DOMAIN turns' = 1..last /\ turns'[last] = turn
        /\ \A n \in DOMAIN turns : turns'[n] = turns[n] /\ n \in 1..last
    <3>. HIDE DEF turn
    <3>. QED BY <1>3, <2>2, <2>4
  <2>6. \A i \in DOMAIN turn.sent :
           \/ turn.sent[i].turn \in DOMAIN turns /\ turns[turn.sent[i].turn].caller = caller
           \/ turn.sent[i].turn = last
    <3>1. turn.sent = Append(replay, Input(last))
      OBVIOUS
    <3>2. \A i \in DOMAIN Append(replay, Input(last)) :
             \/ i \in DOMAIN replay /\ Append(replay, Input(last))[i] = replay[i]
             \/ Append(replay, Input(last))[i] = Input(last)
      <4>. HIDE DEF replay
      <4>. QED BY <2>1, <2>3
    <3>. HIDE DEF turn, replay
    <3>. QED BY <2>1, <2>3, <3>1, <3>2
  <2>7. turn.caller = caller
    OBVIOUS
  <2>. HIDE DEF turn
  <2>8. TypeOK'
    <3>1. \A row \in store' : RowOK(row)'
      BY <1>1 DEF IInv, TypeOK, RowOK
    <3>. QED BY <1>1, <2>5, <3>1 DEF IInv, TypeOK
  <2>9. RowsAreTheirs'
    BY <1>1, <2>2, <2>5 DEF IInv, RowsAreTheirs
  <2>10. SentIsPast'
    <3>. SUFFICES ASSUME NEW n \in DOMAIN turns', NEW i \in DOMAIN turns'[n].sent
                  PROVE  turns'[n].sent[i].turn \in 1..n
      BY DEF SentIsPast
    <3>1. CASE n = last
      BY <2>2, <2>5, <2>6, <3>1
    <3>2. CASE n # last
      <4>1. n \in DOMAIN turns /\ turns'[n] = turns[n]
        BY <2>2, <2>5, <3>2
      <4>. QED BY <4>1 DEF IInv, SentIsPast
    <3>. QED BY <3>1, <3>2
  <2>11. OnlyOwnTurns'
    <3>. SUFFICES ASSUME NEW n \in DOMAIN turns', NEW i \in DOMAIN turns'[n].sent
                  PROVE  turns'[turns'[n].sent[i].turn].caller = turns'[n].caller
      BY DEF OnlyOwnTurns
    <3>1. CASE n = last
      BY <2>2, <2>5, <2>6, <2>7, <3>1
    <3>2. CASE n # last
      <4>1. n \in DOMAIN turns /\ turns'[n] = turns[n]
        BY <2>2, <2>5, <3>2
      <4>2. /\ turns[n].sent[i].turn \in 1..n
            /\ turns[turns[n].sent[i].turn].caller = turns[n].caller
        BY <4>1 DEF IInv, SentIsPast, OnlyOwnTurns
      <4>3. turns[n].sent[i].turn \in DOMAIN turns
        BY <2>2, <4>1, <4>2
      <4>. QED BY <2>5, <4>1, <4>2, <4>3
    <3>. QED BY <3>1, <3>2
  <2>. QED BY <2>8, <2>9, <2>10, <2>11 DEF IInv
<1>. QED BY <1>1, <1>2, <1>3

\* A turn that has its answer, or will not get one, keeps its caller and what it
\* was sent.
LEMMA ClosedKeepsTurns ==
  ASSUME IInv, NEW n \in DOMAIN turns, Closed(n)
  PROVE  /\ turns' \in Seq(Turns) /\ DOMAIN turns' = DOMAIN turns
         /\ \A k \in DOMAIN turns :
              turns'[k].caller = turns[k].caller /\ turns'[k].sent = turns[k].sent
<1>1. turns \in Seq(Turns)
  BY DEF IInv, TypeOK
<1>2. turns[n] \in Turns
  BY <1>1
<1>3. [turns[n] EXCEPT !.awaits = "nothing"] \in Turns
  BY <1>2 DEF Turns
<1>4. turns' = [turns EXCEPT ![n] = [turns[n] EXCEPT !.awaits = "nothing"]]
  BY DEF Closed
<1>5. /\ turns' \in Seq(Turns) /\ DOMAIN turns' = DOMAIN turns
      /\ \A k \in DOMAIN turns : k # n => turns'[k] = turns[k]
      /\ turns'[n] = [turns[n] EXCEPT !.awaits = "nothing"]
  BY <1>1, <1>3, <1>4
<1>6. turns'[n].caller = turns[n].caller /\ turns'[n].sent = turns[n].sent
  BY <1>2, <1>5 DEF Turns
<1>. QED BY <1>5, <1>6

\* What is stored for a turn belongs to its caller, whatever the id was before.
LEMMA AnswerKeeps ==
  ASSUME IInv, NEW n \in DOMAIN turns, NEW id \in Ids \union {NoId},
         NEW shape \in Shapes, NEW big \in BOOLEAN, NEW written \in BOOLEAN,
         NEW swept \in BOOLEAN, Answer(n, id, shape, big, written, swept)
  PROVE  IInv'
<1> DEFINE record == Record(n, id, shape, big)
<1>1. /\ Closed(n) /\ now' = now /\ deleting' = deleting
      /\ store' \subseteq store \/ (id \in Ids /\ store' \subseteq store \union {record})
  BY DEF Answer, Written, Swept, Capped
<1>2. /\ turns' \in Seq(Turns) /\ DOMAIN turns' = DOMAIN turns
      /\ \A k \in DOMAIN turns :
           turns'[k].caller = turns[k].caller /\ turns'[k].sent = turns[k].sent
  BY <1>1, ClosedKeepsTurns
<1>3. \A row \in store' :
         /\ RowOK(row)
         /\ row.turn \in DOMAIN turns /\ row.owner = turns[row.turn].caller
  <2>1. \A row \in store :
           /\ RowOK(row)
           /\ row.turn \in DOMAIN turns /\ row.owner = turns[row.turn].caller
    BY DEF IInv, TypeOK, RowsAreTheirs
  <2>2. ASSUME id \in Ids
        PROVE  RowOK(record) /\ record.turn = n /\ record.owner = turns[n].caller
    <3>1. turns[n] \in Turns /\ now \in Nat
      BY DEF IInv, TypeOK
    <3>2. turns[n].caller \in Callers /\ ServedAs[turns[n].model] \in Names
      BY <3>1, StoreAssumption DEF Turns
    <3>. QED BY <2>2, <3>1, <3>2 DEF Record, RowOK
  <2>. QED BY <1>1, <2>1, <2>2
<1>4. TypeOK'
  BY <1>1, <1>2, <1>3 DEF IInv, TypeOK, RowOK
<1>5. RowsAreTheirs'
  BY <1>2, <1>3 DEF RowsAreTheirs
<1>6. SentIsPast'
  BY <1>2 DEF IInv, SentIsPast
<1>7. OnlyOwnTurns'
  <2>1. \A k \in DOMAIN turns : \A i \in DOMAIN turns[k].sent :
           turns[k].sent[i].turn \in DOMAIN turns
    <3>1. DOMAIN turns = 1..Len(turns) /\ Len(turns) \in Nat
      BY DEF IInv, TypeOK
    <3>. QED BY <3>1 DEF IInv, SentIsPast
  <2>. QED BY <1>2, <2>1 DEF IInv, OnlyOwnTurns
<1>. QED BY <1>4, <1>5, <1>6, <1>7 DEF IInv

\* The invariant of the stored responses: rows belong to the callers of their
\* turns, and turns were sent with earlier messages of their own caller.
THEOREM StoreInvariance == Spec => []IInv
<1>1. Init => IInv
  BY DEF Init, IInv, TypeOK, RowsAreTheirs, SentIsPast, OnlyOwnTurns
<1>2. IInv /\ [Next]_vars => IInv'
  <2>. SUFFICES ASSUME IInv, [Next]_vars PROVE IInv'
    OBVIOUS
  <2>1. CASE UNCHANGED vars
    BY <2>1, FewerRows DEF vars, IInv, TypeOK
  <2>2. CASE Requests
    <3>. PICK caller \in Callers, id \in Ids :
            \/ \E model \in Names, kept \in BOOLEAN, previous \in {id, NoId} :
                 Ask(caller, model, previous, kept)
            \/ Get(caller, id)
            \/ DeleteLooks(caller, id)
      BY <2>2 DEF Requests
    <3>1. CASE \E model \in Names, kept \in BOOLEAN, previous \in {id, NoId} :
                  Ask(caller, model, previous, kept)
      BY <3>1, AskKeeps
    <3>2. CASE Get(caller, id)
      BY <3>2, FewerRows DEF Get, Looked, IInv, TypeOK
    <3>3. CASE DeleteLooks(caller, id)
      <4>1. \A row \in Found(caller, id) : row.id \in Ids
        BY DEF Found, IInv, TypeOK, RowOK
      <4>2. deleting' \subseteq [caller : Callers, id : Ids]
        BY <3>3, <4>1 DEF DeleteLooks, IInv, TypeOK
      <4>. QED BY <3>3, <4>2, FewerRows DEF DeleteLooks, Looked, IInv, TypeOK
    <3>. QED BY <3>1, <3>2, <3>3
  <2>3. CASE Upstreams
    <3>. PICK n \in DOMAIN turns :
            \/ \E id \in Ids \union {NoId}, shape \in Shapes, big, written, swept \in BOOLEAN :
                 Answer(n, id, shape, big, written, swept)
            \/ Fail(n)
      BY <2>3 DEF Upstreams
    <3>1. CASE \E id \in Ids \union {NoId}, shape \in Shapes, big, written, swept \in BOOLEAN :
                  Answer(n, id, shape, big, written, swept)
      BY <3>1, AnswerKeeps
    <3>2. CASE Fail(n)
      <4>1. Answer(n, NoId, "built", FALSE, FALSE, FALSE)
        BY <3>2 DEF Answer, Fail
      <4>. QED BY <4>1, AnswerKeeps DEF Shapes
    <3>. QED BY <3>1, <3>2
  <2>4. CASE Deletes
    BY <2>4, FewerRows DEF Deletes, DeleteRow, DeleteFails, Removed, IInv, TypeOK
  <2>5. CASE Tick
    BY <2>5, FewerRows DEF Tick, IInv, TypeOK
  <2>. QED BY <2>1, <2>2, <2>3, <2>4, <2>5 DEF Next
<1>. QED BY <1>1, <1>2, PTL DEF Spec

\* No turn is sent with messages of another caller's (lib.rs:1488, 1548).
THEOREM OwnTurnsOnly == Spec => []OnlyOwnTurns
<1>1. IInv => OnlyOwnTurns
  BY DEF IInv
<1>. QED BY <1>1, StoreInvariance, PTL

-----------------------------------------------------------------------------
(***************************************************************************)
(* What leaves the table.  A sweep keeps the rows with the highest rowids, *)
(* and they are as many as the cap allows because no two rows share one.   *)
(***************************************************************************)
Apart(rows) ==
    /\ IsFiniteSet(rows)
    /\ \A row \in rows : row.rowid \in Nat
    /\ \A row, other \in rows : row.id = other.id \/ row.rowid = other.rowid => row = other

RowsApart == Apart(store)

Above(rows, row) == {other \in rows : other.rowid > row.rowid}

\* What holds of a set if it holds of all smaller ones holds of all.
LEMMA SmallerFirst ==
  ASSUME NEW U, IsFiniteSet(U), NEW Good,
         \A T \in SUBSET U : (\A V \in SUBSET T : V # T => V \in Good) => T \in Good
  PROVE  SUBSET U \subseteq Good
<1>1. SUFFICES ASSUME (SUBSET U) \ Good # {} PROVE FALSE
  OBVIOUS
<1> DEFINE R == StrictSubsetOrdering(U)
<1>2. IsWellFoundedOn(R, SUBSET U)
  BY FS_StrictSubsetOrderingWellFounded, FS_FiniteSubsetsOfFinite
<1>3. \A V, T \in SUBSET U : <<V, T>> \in R <=> V \subseteq T /\ V # T
  BY DEF StrictSubsetOrdering
<1>4. \E T \in (SUBSET U) \ Good : \A V \in (SUBSET U) \ Good : ~(<<V, T>> \in R)
  <2>1. (SUBSET U) \ Good \subseteq SUBSET U
    OBVIOUS
  <2> DEFINE Bad == (SUBSET U) \ Good
             Sets == SUBSET U
  <2>2. IsWellFoundedOn(R, Sets) /\ Bad \subseteq Sets /\ Bad # {}
    BY <1>1, <1>2
  <2>. HIDE DEF R, Bad, Sets
  <2>3. \E T \in Bad : \A V \in Bad : ~(<<V, T>> \in R)
    BY <2>2, WFMin
  <2>. QED BY <2>3 DEF Bad
<1>5. PICK T \in (SUBSET U) \ Good : \A V \in (SUBSET U) \ Good : ~(V \subseteq T /\ V # T)
  BY <1>3, <1>4
<1>. QED BY <1>5

\* Finitely many numbers, if any, have a greatest.
LEMMA GreatestIs ==
  ASSUME NEW S \in SUBSET Nat, IsFiniteSet(S), S # {}
  PROVE  Max(S) \in S /\ \A n \in S : n <= Max(S)
<1> DEFINE Good == {T \in SUBSET S : T # {} => \E m \in T : \A n \in T : n <= m}
<1>1. ASSUME NEW T \in SUBSET S, \A V \in SUBSET T : V # T => V \in Good
      PROVE  T \in Good
  <2>. SUFFICES ASSUME T # {} PROVE \E m \in T : \A n \in T : n <= m
    OBVIOUS
  <2>1. PICK x \in T : TRUE
    OBVIOUS
  <2>2. T \ {x} \in Good
    BY <1>1, <2>1
  <2>3. CASE T \ {x} = {}
    <3>1. \A n \in T : n = x
      BY <2>3
    <3>2. x \in Nat /\ x <= x
      OBVIOUS
    <3>. QED BY <3>1, <3>2
  <2>4. CASE T \ {x} # {}
    <3>1. PICK m \in T \ {x} : \A n \in T \ {x} : n <= m
      BY <2>2, <2>4
    <3>2. x \in Nat /\ m \in Nat /\ \A n \in T : n \in Nat
      OBVIOUS
    <3>3. CASE x <= m
      BY <3>1, <3>3
    <3>4. CASE m <= x
      BY <3>1, <3>2, <3>4
    <3>. QED BY <3>2, <3>3, <3>4
  <2>. QED BY <2>3, <2>4
<1>2. SUBSET S \subseteq Good
  <2>. HIDE DEF Good
  <2>. QED BY <1>1, SmallerFirst
<1>3. \E m \in S : \A n \in S : m >= n
  BY <1>2
<1>. QED BY <1>3 DEF Max

\* Some rows, if any, have one with the lowest rowid.
LEMMA LowestIs ==
  ASSUME NEW rows, Apart(rows), rows # {}
  PROVE  \E row \in rows : \A other \in rows \ {row} : other.rowid > row.rowid
<1> DEFINE ids == {row.rowid : row \in rows}
           before == OpToRel(<, Nat)
<1>1. ids \subseteq Nat /\ ids # {}
  BY DEF Apart
<1>2. \E i \in ids : \A j \in ids : <<j, i>> \notin before
  <2>1. IsWellFoundedOn(before, Nat)
    BY NatLessThanWellFounded
  <2>. HIDE DEF ids, before
  <2>. QED BY <1>1, <2>1, WFMin
<1>3. PICK i \in ids : \A j \in ids : ~(j < i)
  BY <1>1, <1>2 DEF OpToRel
<1>4. PICK row \in rows : row.rowid = i
  OBVIOUS
<1>5. ASSUME NEW other \in rows \ {row} PROVE other.rowid > row.rowid
  <2>1. other.rowid \in ids /\ other.rowid \in Nat /\ row.rowid \in Nat
    BY DEF Apart
  <2>2. other.rowid # row.rowid
    BY DEF Apart
  <2>3. ~(other.rowid < row.rowid)
    BY <1>3, <1>4, <2>1
  <2>. QED BY <2>1, <2>2, <2>3
<1>. QED BY <1>5

\* Fewer rows are no less apart.
LEMMA FewerApart ==
  ASSUME NEW rows, Apart(rows), NEW fewer \in SUBSET rows
  PROVE  Apart(fewer)
<1>1. IsFiniteSet(fewer)
  BY FS_Subset DEF Apart
<1>. QED BY <1>1 DEF Apart

\* A table with at least as many rows as the cap allows is swept down to so
\* many, neither more nor fewer.
LEMMA CapIsKept ==
  ASSUME NEW rows, Apart(rows), Cardinality(rows) >= Cap
  PROVE  Cardinality(Capped(rows)) = Cap
<1> DEFINE Good == {T \in SUBSET rows : Cardinality(T) >= Cap => Cardinality(Capped(T)) = Cap}
<1>1. ASSUME NEW T \in SUBSET rows, \A V \in SUBSET T : V # T => V \in Good
      PROVE  T \in Good
  <2>. SUFFICES ASSUME Cardinality(T) >= Cap PROVE Cardinality(Capped(T)) = Cap
    OBVIOUS
  <2>1. Apart(T) /\ IsFiniteSet(T) /\ Cardinality(T) \in Nat /\ Cap \in Nat \ {0}
    BY FewerApart, FS_CardinalityType, StoreAssumption DEF Apart
  <2>2. ASSUME NEW row \in T
        PROVE  /\ IsFiniteSet(Above(T, row)) /\ Cardinality(Above(T, row)) \in Nat
               /\ Cardinality(Above(T, row)) <= Cardinality(T) - 1
    <3>1. Above(T, row) \subseteq T \ {row}
      BY <2>1 DEF Above, Apart
    <3>2. IsFiniteSet(T \ {row}) /\ Cardinality(T \ {row}) = Cardinality(T) - 1
      BY <2>1, FS_RemoveElement
    <3>. QED BY <3>1, <3>2, FS_Subset, FS_CardinalityType
  <2>3. Capped(T) = {row \in T : Cardinality(Above(T, row)) < Cap}
    BY DEF Capped, Above
  <2>4. CASE Cardinality(T) = Cap
    <3>1. \A row \in T : Cardinality(Above(T, row)) < Cap
      BY <2>1, <2>2, <2>4
    <3>. QED BY <2>3, <2>4, <3>1
  <2>5. CASE Cardinality(T) > Cap
    <3>1. T # {}
      BY <2>1, <2>5, FS_EmptySet
    <3>2. PICK low \in T : \A other \in T \ {low} : other.rowid > low.rowid
      BY <2>1, <3>1, LowestIs
    <3>. DEFINE V == T \ {low}
    <3>3. IsFiniteSet(V) /\ Cardinality(V) = Cardinality(T) - 1
      BY <2>1, FS_RemoveElement
    <3>4. V \in Good /\ Cardinality(V) >= Cap
      BY <1>1, <2>1, <2>5, <3>3
    <3>5. Above(T, low) = V
      BY <2>1, <3>2 DEF Above, Apart
    <3>6. \A row \in V : Above(T, row) = Above(V, row)
      <4>. SUFFICES ASSUME NEW row \in V PROVE low \notin Above(T, row)
        BY DEF Above
      <4>1. row.rowid > low.rowid /\ row.rowid \in Nat /\ low.rowid \in Nat
        BY <2>1, <3>2 DEF Apart
      <4>. QED BY <4>1 DEF Above
    <3>7. Capped(V) = {row \in V : Cardinality(Above(V, row)) < Cap}
      BY DEF Capped, Above
    <3>8. ~(Cardinality(Above(T, low)) < Cap)
      BY <2>1, <3>3, <3>4, <3>5
    <3>9. Capped(T) = Capped(V)
      <4>. HIDE DEF Good
      <4>. QED BY <2>3, <3>6, <3>7, <3>8
    <3>. QED BY <3>4, <3>9
  <2>. QED BY <2>1, <2>4, <2>5
<1>2. SUBSET rows \subseteq Good
  <2>1. IsFiniteSet(rows)
    BY DEF Apart
  <2>. HIDE DEF Good
  <2>. QED BY <1>1, <2>1, SmallerFirst
<1>. QED BY <1>2

\* A row that the cap takes out is below the rows that stay, and they are as many
\* as the cap allows.
LEMMA CapDropsTheLowest ==
  ASSUME NEW rows, Apart(rows), NEW row \in rows, row \notin Capped(rows)
  PROVE  /\ Cardinality(Capped(rows)) = Cap
         /\ \A other \in Capped(rows) : other.rowid > row.rowid
<1>1. /\ Capped(rows) = {other \in rows : Cardinality(Above(rows, other)) < Cap}
      /\ Cap \in Nat \ {0} /\ IsFiniteSet(rows)
  BY StoreAssumption DEF Capped, Above, Apart
<1>2. ASSUME NEW other \in rows
      PROVE  /\ IsFiniteSet(Above(rows, other)) /\ Cardinality(Above(rows, other)) \in Nat
             /\ Cardinality(Above(rows, other)) <= Cardinality(rows)
             /\ Cardinality(rows) \in Nat
  <2>1. Above(rows, other) \subseteq rows
    BY DEF Above
  <2>. QED BY <1>1, <2>1, FS_Subset, FS_CardinalityType
<1>3. Cardinality(Above(rows, row)) >= Cap
  BY <1>1, <1>2
<1>4. Cardinality(rows) >= Cap
  BY <1>1, <1>2, <1>3
<1>5. ASSUME NEW other \in Capped(rows), ~(other.rowid > row.rowid) PROVE FALSE
  <2>1. other \in rows /\ Cardinality(Above(rows, other)) < Cap
    BY <1>1
  <2>2. Above(rows, row) \subseteq Above(rows, other)
    <3>1. \A any \in rows : any.rowid \in Nat
      BY DEF Apart
    <3>. QED BY <1>5, <2>1, <3>1 DEF Above
  <2>3. Cardinality(Above(rows, row)) <= Cardinality(Above(rows, other))
    BY <1>2, <2>1, <2>2, FS_Subset
  <2>. QED BY <1>1, <1>2, <1>3, <2>1, <2>3
<1>. QED BY <1>4, <1>5, CapIsKept

\* A row that is written over keeps its rowid, and no other row has it.
LEMMA RowidIsFree ==
  ASSUME RowsApart, NEW id
  PROVE  /\ Rowid(id) \in Nat
         /\ \A row \in store : row.id = id <=> row.rowid = Rowid(id)
<1>. DEFINE same == {row \in store : row.id = id}
            ids == {row.rowid : row \in store} \union {0}
<1>1. CASE same # {}
  <2>1. PICK row \in same : Rowid(id) = row.rowid
    BY <1>1 DEF Rowid
  <2>. QED BY <2>1 DEF RowsApart, Apart
<1>2. CASE same = {}
  <2>1. Rowid(id) = Max(ids) + 1
    BY <1>2 DEF Rowid
  <2>2. ids \in SUBSET Nat /\ ids # {}
    BY DEF RowsApart, Apart
  <2>3. IsFiniteSet(ids)
    <3>1. IsFiniteSet({row.rowid : row \in store})
      <4>. DEFINE f == [row \in store |-> row.rowid]
      <4>1. f \in Surjection(store, {row.rowid : row \in store})
        BY DEF Surjection
      <4>. QED BY <4>1, FS_Surjection DEF RowsApart, Apart
    <3>. QED BY <3>1, FS_AddElement
  <2>4. Max(ids) \in Nat /\ \A n \in ids : n <= Max(ids)
    <3>. HIDE DEF ids
    <3>. QED BY <2>2, <2>3, GreatestIs
  <2>5. \A row \in store : row.rowid \in ids /\ row.rowid \in Nat
    BY DEF RowsApart, Apart
  <2>6. \A row \in store : row.rowid # Rowid(id)
    <3>. HIDE DEF ids
    <3>. QED BY <2>1, <2>4, <2>5
  <2>. QED BY <1>2, <2>1, <2>4, <2>6
<1>. QED BY <1>1, <1>2

\* Writing a response leaves the rows apart.
LEMMA WrittenApart ==
  ASSUME RowsApart, NEW record, record.rowid = Rowid(record.id)
  PROVE  Apart(Written(record))
<1>1. IsFiniteSet({row \in store : row.id # record.id})
  BY FS_Subset DEF RowsApart, Apart
<1>2. IsFiniteSet(Written(record))
  BY <1>1, FS_AddElement DEF Written
<1>. QED BY <1>2, RowidIsFree DEF Written, RowsApart, Apart

\* A step of the next-state relation is of one of these.
LEMMA Steps ==
  ASSUME Next
  PROVE  \/ \E id : store' = Looked(id) /\ now' = now /\ deleting \subseteq deleting'
         \/ \E n \in DOMAIN turns, id \in Ids \union {NoId}, shape \in Shapes,
               big, written, swept \in BOOLEAN : Answer(n, id, shape, big, written, swept)
         \/ \E request \in deleting : DeleteRow(request)
         \/ store' = store
BY DEF Next, Requests, Ask, Get, DeleteLooks, Upstreams, Fail, Deletes, DeleteFails, Tick

\* What an answer leaves of the table.
LEMMA AfterAnswer ==
  ASSUME NEW n \in DOMAIN turns, NEW id \in Ids \union {NoId}, NEW shape \in Shapes,
         NEW big \in BOOLEAN, NEW written \in BOOLEAN, NEW swept \in BOOLEAN,
         Answer(n, id, shape, big, written, swept)
  PROVE  \/ store' = store
         \/ \E rows \in {store, Written(Record(n, id, shape, big))} :
              store' = rows \/ store' = Swept(rows)
BY DEF Answer

\* No two rows share an id or a rowid, whatever is stored, swept and deleted.
THEOREM RowsStayApart == Spec => []RowsApart
<1>1. Init => RowsApart
  BY FS_EmptySet DEF Init, RowsApart, Apart
<1>2. RowsApart /\ [Next]_vars => RowsApart'
  <2>. SUFFICES ASSUME RowsApart, [Next]_vars PROVE Apart(store')
    BY DEF RowsApart
  <2>1. CASE UNCHANGED vars
    BY <2>1 DEF vars, RowsApart
  <2>2. CASE \E id : store' = Looked(id)
    BY <2>2, FewerApart DEF Looked, RowsApart
  <2>3. ASSUME NEW n \in DOMAIN turns, NEW id \in Ids \union {NoId}, NEW shape \in Shapes,
               NEW big \in BOOLEAN, NEW written \in BOOLEAN, NEW swept \in BOOLEAN,
               Answer(n, id, shape, big, written, swept)
        PROVE  Apart(store')
    <3>1. Apart(store) /\ Apart(Written(Record(n, id, shape, big)))
      BY WrittenApart DEF Record, RowsApart
    <3>2. ASSUME NEW rows, Apart(rows) PROVE Apart(Swept(rows))
      BY <3>2, FewerApart DEF Swept, Capped
    <3>. QED BY <2>3, <3>1, <3>2, AfterAnswer
  <2>4. CASE \E request \in deleting : DeleteRow(request)
    BY <2>4, FewerApart DEF DeleteRow, Removed, RowsApart
  <2>5. CASE store' = store
    BY <2>5 DEF RowsApart
  <2>. QED BY <2>1, <2>2, <2>3, <2>4, <2>5, Steps
<1>. QED BY <1>1, <1>2, PTL DEF Spec

\* Why the row may leave.
Due(row) ==
    \/ \E request \in deleting \ deleting' : request.id = row.id
    \/ now - row.at >= Ttl
    \/ Cardinality(store') = Cap /\ \A other \in store' : other.rowid > row.rowid

\* A row that a sweep takes out had its time, or is below what is kept.
LEMMA SweptIsDue ==
  ASSUME NEW rows, Apart(rows), NEW row \in rows, row.at \in Nat, now \in Nat,
         store' = Swept(rows), row \notin store'
  PROVE  Due(row)
<1>. DEFINE fresh == {r \in rows : ~TooOld(r)}
<1>1. Ttl \in Nat
  BY StoreAssumption
<1>2. CASE row \notin fresh
  <2>1. row.at <= now - Ttl
    BY <1>2 DEF TooOld
  <2>2. now - row.at >= Ttl
    BY <1>1, <2>1
  <2>. QED BY <2>2 DEF Due
<1>3. CASE row \in fresh
  <2>1. Apart(fresh) /\ store' = Capped(fresh)
    BY FewerApart DEF Swept
  <2>. QED BY <1>3, <2>1, CapDropsTheLowest DEF Due
<1>. QED BY <1>2, <1>3

\* A row leaves the table because it was deleted, because its time had come, or
\* because as many rows as the cap allows came after it (lib.rs:1380).
THEOREM OnlyDueRowsLeave == Spec => DropsOnlyWhatIsDue
<1>1. IInv /\ RowsApart /\ [Next]_vars =>
        [ \A row \in store :
            (\A other \in store' : other.id # row.id) =>
              \/ \E request \in deleting \ deleting' : request.id = row.id
              \/ now - row.at >= Ttl
              \/ /\ Cardinality(store') = Cap
                 /\ \A other \in store' : other.rowid > row.rowid ]_vars
  <2>. SUFFICES ASSUME IInv, RowsApart, Next, NEW row \in store,
                       \A other \in store' : other.id # row.id
                PROVE  Due(row)
    BY DEF Due
  <2>0. /\ row.at \in Nat /\ now \in Nat /\ Ttl \in Nat /\ row.at <= now
        /\ row \notin store'
    BY StoreAssumption DEF IInv, TypeOK, RowOK
  <2>1. ASSUME NEW id, store' = Looked(id) PROVE Due(row)
    <3>1. now - row.at > Ttl
      BY <2>0, <2>1 DEF Looked, Expired
    <3>. QED BY <2>0, <3>1 DEF Due
  <2>2. ASSUME NEW n \in DOMAIN turns, NEW id \in Ids \union {NoId}, NEW shape \in Shapes,
               NEW big \in BOOLEAN, NEW written \in BOOLEAN, NEW swept \in BOOLEAN,
               Answer(n, id, shape, big, written, swept)
        PROVE  Due(row)
    <3>. DEFINE record == Record(n, id, shape, big)
    <3>1. record.id = id /\ record.at = now /\ record.rowid = Rowid(id)
      BY DEF Record
    <3>. HIDE DEF record
    <3>2. Apart(store) /\ Apart(Written(record))
      BY <3>1, WrittenApart DEF RowsApart
    <3>3. store' # store
      BY <2>0
    <3>4. CASE store' = Swept(store)
      BY <2>0, <3>2, <3>4, SweptIsDue
    <3>5. CASE row \in Written(record) /\ store' = Swept(Written(record))
      BY <2>0, <3>2, <3>5, SweptIsDue
    <3>6. CASE row \notin Written(record) /\ store' = Swept(Written(record))
      <4>1. row.id = record.id /\ record \in Written(record)
        BY <3>6 DEF Written
      <4>2. record \notin store' /\ row.rowid = record.rowid
        BY <3>1, <4>1, RowidIsFree
      <4>3. Due(record)
        BY <2>0, <3>1, <3>2, <3>6, <4>1, <4>2, SweptIsDue
      <4>4. now - record.at >= Ttl => now - row.at >= Ttl
        BY <2>0, <3>1
      <4>. QED BY <4>1, <4>2, <4>3, <4>4 DEF Due
    <3>7. CASE store' = Written(record)
      <4>1. record \in store' /\ record.id # row.id
        BY <3>7 DEF Written
      <4>. QED BY <2>0, <3>7, <4>1 DEF Written
    <3>8. \/ store' = store
          \/ \E rows \in {store, Written(record)} : store' = rows \/ store' = Swept(rows)
      BY <2>2, AfterAnswer DEF record
    <3>. QED BY <3>3, <3>4, <3>5, <3>6, <3>7, <3>8
  <2>3. ASSUME NEW request \in deleting, DeleteRow(request) PROVE Due(row)
    BY <2>0, <2>3 DEF DeleteRow, Removed, Due
  <2>4. store' # store
    BY <2>0
  <2>. QED BY <2>1, <2>2, <2>3, <2>4, Steps
<1>. QED BY <1>1, StoreInvariance, RowsStayApart, PTL DEF Spec, DropsOnlyWhatIsDue

=============================================================================
