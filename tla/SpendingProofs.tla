---------------------------- MODULE SpendingProofs ----------------------------
(***************************************************************************)
(* What holds of money, for every rate, count, row, request, edit and      *)
(* period: of the prices, the usage tables and the answers booked in them  *)
(* (UsageBooks, Completions), of the budgets and of the real periods       *)
(* (Budgets).                                                              *)
(*                                                                         *)
(* The budgets' invariant says of the sums over the ledger and the meter   *)
(* what the properties do not: the requests that are let through and not   *)
(* booked yet count against the cap, and the window counts neither more    *)
(* nor less than what passed the meter since it started.  The sums are     *)
(* folds, so what holds of a sum comes from what holds of smaller sets     *)
(* (SmallerFirst).                                                         *)
(***************************************************************************)
EXTENDS Budgets, Completions, FiniteSetTheorems, WellFoundedInduction, TLAPS

-----------------------------------------------------------------------------
(* The calendar: days and weeks divide the time line, for every moment of  *)
(* any sign.  Months are compared with a calendar in MCBudgets.            *)

\* A day of the week is one of seven, and the week it lies in has begun.
LEMMA WeekHoldsItsDay ==
  ASSUME NEW day \in Int
  PROVE /\ Weekday(day) \in 0 .. 6
        /\ week_start(day) \in Int
        /\ week_start(day) <= day /\ day < week_start(day) + 7
        /\ \E k \in Int : week_start(day) + 3 = 7 * k
        /\ Weekday(week_start(day)) = 0
<1>1. PICK q \in Int, r \in 0 .. 6 : day + 3 = 7 * q + r /\ r = (day + 3) % 7
  <2>1. (day + 3) % 7 \in 0 .. 6 /\ (day + 3) \div 7 \in Int
        /\ day + 3 = (7 * ((day + 3) \div 7)) + ((day + 3) % 7)
    OBVIOUS
  <2>. QED BY <2>1
<1>2. day - r + 3 = 7 * q
  BY <1>1
<1>3. (day - r + 3) % 7 = 0
  BY <1>2
<1>. QED BY <1>1, <1>2, <1>3 DEF Weekday, week_start

\* A week starts on the same Monday for each of its seven days, so a cost is
\* counted in one week and in no two (budgets.rs:495-500).
THEOREM WeeksAreWindows ==
  ASSUME NEW a \in Int, NEW b \in Int
  PROVE week_start(b) = week_start(a)
          <=> week_start(a) <= b /\ b < week_start(a) + 7
<1>1. PICK q \in Int : week_start(a) + 3 = 7 * q
  BY WeekHoldsItsDay
<1>2. PICK p \in Int : week_start(b) + 3 = 7 * p
  BY WeekHoldsItsDay
<1>3. week_start(b) = week_start(a) => week_start(a) <= b /\ b < week_start(a) + 7
  BY WeekHoldsItsDay
<1>4. ASSUME week_start(a) <= b, b < week_start(a) + 7
      PROVE week_start(b) = week_start(a)
  <2>1. /\ week_start(a) \in Int /\ week_start(b) \in Int
        /\ week_start(b) <= b /\ b < week_start(b) + 7
    BY WeekHoldsItsDay
  <2>2. 7 * p < 7 * q + 7 /\ 7 * q < 7 * p + 7
    BY <1>1, <1>2, <1>4, <2>1
  <2>3. p = q
    BY <2>2
  <2>. QED BY <1>1, <1>2, <2>1, <2>3
<1>. QED BY <1>3, <1>4

\* A day holds its moment, and two moments lie in one day exactly if it starts
\* at the same second for both (budgets.rs:492-494).
THEOREM DaysAreWindows ==
  ASSUME NEW s \in Int, NEW t \in Int
  PROVE /\ period_start("daily", s) <= s
        /\ s < period_start("daily", s) + SecondsOfDay
        /\ period_start("daily", t) = period_start("daily", s)
             <=> /\ period_start("daily", s) <= t
                 /\ t < period_start("daily", s) + SecondsOfDay
<1>1. \A n \in Int : /\ n \div 86400 \in Int
                     /\ 86400 * (n \div 86400) <= n
                     /\ n < 86400 * (n \div 86400) + 86400
  OBVIOUS
<1>2. \A n \in Int : period_start("daily", n) = 86400 * (n \div 86400)
  BY <1>1 DEF period_start, FirstDay, DayOf, SecondsOfDay
<1>3. ASSUME 86400 * (s \div 86400) <= t, t < 86400 * (s \div 86400) + 86400
      PROVE t \div 86400 = s \div 86400
  <2>1. /\ 86400 * (t \div 86400) < 86400 * (s \div 86400) + 86400
        /\ 86400 * (s \div 86400) < 86400 * (t \div 86400) + 86400
    BY <1>1, <1>3
  <2>2. \A p, q \in Int : 86400 * p < 86400 * q + 86400 => p <= q
    OBVIOUS
  <2>. QED BY <1>1, <2>1, <2>2
<1>. QED BY <1>1, <1>2, <1>3 DEF SecondsOfDay

-----------------------------------------------------------------------------
(* Prices, usage tables and answers *)

Rates == [input : Nat, output : Nat, cached : Nat, reasoning : Nat, cache_creation : Nat]
Usages == [prompt : Nat, completion : Nat, total : Nat]
DetailCounts == [cache_read : Nat, cache_creation : Nat, reasoning : Nat]

\* A larger rate makes a larger product.
LEMMA ProductsGrow == \A n, a, b \in Nat : a <= b => n * a <= n * b
<1>1. SUFFICES ASSUME NEW n \in Nat, NEW a \in Nat, NEW b \in Nat, a <= b
      PROVE n * a <= n * b
  OBVIOUS
<1>2. PICK d \in Nat : b = a + d
  <2>1. b - a \in Nat /\ b = a + (b - a)
    BY <1>1
  <2>. QED BY <2>1
<1>3. n * b = n * a + n * d /\ n * d \in Nat /\ n * a \in Nat
  BY <1>2
<1>. QED BY <1>3

\* The cost of a completion is a natural number of money units: a premium is
\* never negative and cached input is never taken off twice
\* (heterion-router-usage/src/pricing.rs:32-64, 168-185).
THEOREM CostIsNeverARebate ==
  ASSUME NEW price \in Rates, NEW usage \in Usages, NEW details \in DetailCounts
  PROVE /\ cost_usd(price, usage, details) \in Nat
        /\ cost_usd(price, usage, details) >= usage.completion * price.output
<1>1. /\ cache_read_rate(price) \in Nat /\ cache_creation_rate(price) \in Nat
      /\ reasoning_premium(price) \in Nat /\ Fresh(usage, details) \in Nat
  BY DEF cache_read_rate, cache_creation_rate, reasoning_premium, Fresh, Rates,
         Usages, DetailCounts
<1>2. /\ Fresh(usage, details) * price.input \in Nat
      /\ details.cache_read * cache_read_rate(price) \in Nat
      /\ usage.completion * price.output \in Nat
      /\ details.reasoning * reasoning_premium(price) \in Nat
      /\ details.cache_creation * cache_creation_rate(price) \in Nat
  <2>1. /\ price.input \in Nat /\ price.output \in Nat /\ usage.completion \in Nat
        /\ details.cache_read \in Nat /\ details.reasoning \in Nat
        /\ details.cache_creation \in Nat
    BY DEF Rates, Usages, DetailCounts
  <2>2. \A m, n \in Nat : m * n \in Nat
    OBVIOUS
  <2>. QED BY <1>1, <2>1, <2>2
<1>. QED BY <1>2 DEF cost_usd

\* Publishing a cache rate no higher than the input rate never raises what a
\* completion costs (heterion-router-usage/src/pricing.rs:155-162); no bound
\* on the counts is needed.
THEOREM DiscountNeverRaises ==
  ASSUME NEW price \in Rates, NEW usage \in Usages, NEW details \in DetailCounts,
         price.cached <= price.input
  PROVE cost_usd(price, usage, details)
          <= cost_usd([price EXCEPT !.cached = 0], usage, details)
<1> DEFINE plain == [price EXCEPT !.cached = 0]
<1>1. /\ plain.input = price.input /\ plain.output = price.output /\ plain.cached = 0
      /\ plain.reasoning = price.reasoning
      /\ plain.cache_creation = price.cache_creation
  BY DEF Rates
<1>2. /\ cache_read_rate(price) \in Nat /\ cache_read_rate(plain) = price.input
      /\ price.input \in Nat /\ cache_read_rate(price) <= price.input
  BY <1>1 DEF cache_read_rate, Rates
<1>3. /\ cache_creation_rate(plain) = cache_creation_rate(price)
      /\ reasoning_premium(plain) = reasoning_premium(price)
  BY <1>1 DEF cache_creation_rate, reasoning_premium
<1>4. details.cache_read * cache_read_rate(price)
        <= details.cache_read * cache_read_rate(plain)
  BY <1>2, ProductsGrow DEF DetailCounts
<1>5. /\ Fresh(usage, details) * price.input \in Nat
      /\ usage.completion * price.output \in Nat
      /\ details.reasoning * reasoning_premium(price) \in Nat
      /\ details.cache_creation * cache_creation_rate(price) \in Nat
      /\ details.cache_read * cache_read_rate(price) \in Nat
      /\ details.cache_read * cache_read_rate(plain) \in Nat
  <2>1. /\ cache_creation_rate(price) \in Nat /\ reasoning_premium(price) \in Nat
        /\ Fresh(usage, details) \in Nat /\ price.output \in Nat
        /\ usage.completion \in Nat /\ details.cache_read \in Nat
        /\ details.reasoning \in Nat /\ details.cache_creation \in Nat
    BY DEF cache_creation_rate, reasoning_premium, Fresh, Rates, Usages, DetailCounts
  <2>2. \A m, n \in Nat : m * n \in Nat
    OBVIOUS
  <2>. QED BY <1>2, <2>1, <2>2
<1>6. cost_usd(price, usage, details) <= cost_usd(plain, usage, details)
  <2> HIDE DEF plain
  <2>. QED BY <1>1, <1>3, <1>4, <1>5 DEF cost_usd
<1>. QED BY <1>6

\* A sweep takes nothing a report over the days it keeps would show, nor
\* anything at all when the days to keep are set to none
\* (heterion-router-db/src/repos.rs:1121-1157).
THEOREM PurgeKeepsTheWindow ==
  ASSUME NEW rows, \A entry \in rows : entry.timestamp.at \in Int,
         NEW days \in Nat, NEW moment \in Int, NEW since \in Int,
         days = 0 \/ since >= moment - days
  PROVE usage_window(purge_usage_older_than(rows, days, moment), since)
          = usage_window(rows, since)
  BY DEF usage_window, purge_usage_older_than, ts_prefix

-----------------------------------------------------------------------------
(***************************************************************************)
(* What a client is charged for a whole answer is what the books say, for  *)
(* every request, answer, price table and set of rows.                     *)
(***************************************************************************)
\* An entry that booking a call has added to the usage table has the counts of the
\* call.
LEMMA RowsHaveTheCounts ==
  ASSUME NEW Entries, NEW Calls,
         NEW books \in [usage_history : SUBSET Entries, call_logs : SUBSET Calls],
         NEW auth, NEW c, NEW by, NEW id, NEW moment,
         NEW after \in record_completion_usage(books, auth, c, by, id, moment),
         NEW entry \in after.usage_history, entry \notin books.usage_history
  PROVE entry.tokens = c.usage /\ entry.details = c.details /\ entry.success = c.success
<1> DEFINE new == UsageRecord(auth, c, by, moment)
           call == CallLogRecord(auth, c, by, id, moment)
           booked == record_usage(books, new)
<1>1. /\ booked.usage_history = books.usage_history \cup {new}
      /\ record_call_log(books, call).usage_history = books.usage_history
      /\ record_call_log(booked, call).usage_history = books.usage_history \cup {new}
  BY DEF record_usage, record_call_log
<1>2. after \in {books, booked, record_call_log(books, call), record_call_log(booked, call)}
  BY DEF record_completion_usage
<1>3. entry = new
  BY <1>1, <1>2
<1>. QED BY <1>3 DEF UsageRecord

\* A cost in the headers is the price of the counts that were booked, and an
\* error has none (lib.rs:472-561).
THEOREM ChargedAsBookedAlways ==
  ASSUME NEW Entries, NEW Calls,
         NEW books \in [usage_history : SUBSET Entries, call_logs : SUBSET Calls],
         NEW prices, NEW auth, NEW by, NEW request, NEW outcome, NEW took, NEW id, NEW moment,
         NEW end \in chat_completions(books, prices, auth, by, request, outcome, took, id, moment)
  PROVE /\ end.status # 200 => end.headers.cost = {}
        /\ \A entry \in end.books.usage_history \ books.usage_history :
             end.headers.cost # {} =>
               end.headers.cost = {cost_usd(prices[request.model], entry.tokens, entry.details)}
<1> DEFINE answer == Finished("chat", request, outcome, outcome.kept, took)
           error == Failed("chat", request, outcome, took)
<1>1. CASE end \in Refusal(books, 403)
  BY <1>1 DEF Refusal, NoHeaders
<1>2. CASE end \in Broken(books, auth, by, error, id, moment)
  BY <1>2 DEF Broken, NoHeaders
<1>3. CASE end \in Answered(books, prices, auth, by, answer, outcome, id, moment)
  <2>1. PICK after \in record_completion_usage(books, auth, answer, by, id, moment) :
          end = [books |-> after, status |-> 200, usage |-> outcome.usage,
                 headers |-> router_headers(prices, by, answer.model, answer.resolved,
                                            answer.usage, answer.details)]
    BY <1>3 DEF Answered
  <2>2. /\ end.status = 200 /\ end.books = after
        /\ end.headers = router_headers(prices, by, answer.model, answer.resolved,
                                        answer.usage, answer.details)
    BY <2>1
  <2>3. answer.model = request.model
    BY DEF Finished
  <2>4. \/ end.headers.cost = {}
        \/ end.headers.cost = {cost_usd(prices[request.model], answer.usage, answer.details)}
    <3>. HIDE DEF answer
    <3>. QED BY <2>2, <2>3 DEF router_headers
  <2>5. \A entry \in after.usage_history \ books.usage_history :
          entry.tokens = answer.usage /\ entry.details = answer.details
    <3>. HIDE DEF answer
    <3>. QED BY RowsHaveTheCounts
  <2>. HIDE DEF answer
  <2>. QED BY <2>2, <2>4, <2>5
<1>. QED BY <1>1, <1>2, <1>3 DEF chat_completions

-----------------------------------------------------------------------------
(* Sums: what SumIn computes, for every finite set.                        *)

\* What holds of 0 and of every successor holds of every number.
LEMMA Induction ==
  ASSUME NEW S, 0 \in S, \A n \in Nat : n \in S => n + 1 \in S
  PROVE  Nat \subseteq S
<1>1. SUFFICES ASSUME Nat \ S # {} PROVE FALSE
  OBVIOUS
<1> DEFINE R == OpToRel(<, Nat)
<1>2. \A x, y \in Nat : <<y, x>> \in R <=> y < x
  BY DEF OpToRel
<1>3. IsWellFoundedOn(R, Nat)
  BY NatLessThanWellFounded
<1>4. \E x \in Nat \ S : \A y \in Nat \ S : ~(<<y, x>> \in R)
  <2>. HIDE DEF R
  <2>. QED BY <1>1, <1>3, WFMin
<1>5. PICK x \in Nat \ S : \A y \in Nat \ S : ~(y < x)
  BY <1>2, <1>4
<1>6. x # 0 /\ x - 1 \in Nat /\ x - 1 < x /\ (x - 1) + 1 = x
  BY <1>5
<1>. QED BY <1>5, <1>6


\* The order in which a set is summed up.
Pick(s) == CHOOSE x \in s : TRUE

SumsUp(F, f, U) ==
    F = [s \in SUBSET U |-> IF s = {} THEN 0 ELSE f[Pick(s)] + F[s \ {Pick(s)}]]

\* A sum is a value of a function that sums up.
LEMMA SumIsAValue ==
  ASSUME NEW f, NEW S
  PROVE  SumIn(f, S) = (CHOOSE F : SumsUp(F, f, S))[S]
BY DEF SumIn, MapThenSumSet, MapThenFoldSet, SumsUp, Pick

\* What is picked is in the set.
LEMMA PickIsIn == \A s : s # {} => Pick(s) \in s
BY DEF Pick

\* There is such a function, by induction over the size of sets.
LEMMA SumsExist ==
  ASSUME NEW f, NEW U, IsFiniteSet(U), f \in [U -> Int]
  PROVE  \E F \in [SUBSET U -> Int] : SumsUp(F, f, U)
<1> DEFINE Level(n) == {s \in SUBSET U : Cardinality(s) <= n}
           Adds(F, s) == F[s] = IF s = {} THEN 0 ELSE f[Pick(s)] + F[s \ {Pick(s)}]
           Some(n) == \E F \in [Level(n) -> Int] : \A s \in Level(n) : Adds(F, s)
           N == {n \in Nat : Some(n)}
<1>1. \A s \in SUBSET U : IsFiniteSet(s) /\ Cardinality(s) \in Nat
                          /\ (Cardinality(s) = 0 <=> s = {})
  BY FS_Subset, FS_CardinalityType, FS_EmptySet
<1>2. Some(0)
  <2> DEFINE F == [s \in Level(0) |-> 0]
  <2>1. \A s \in Level(0) : s = {}
    BY <1>1
  <2>2. F \in [Level(0) -> Int] /\ \A s \in Level(0) : Adds(F, s)
    BY <2>1
  <2>. QED BY <2>2
<1>3. ASSUME NEW n \in Nat, Some(n) PROVE Some(n + 1)
  <2>1. PICK F \in [Level(n) -> Int] : \A s \in Level(n) : Adds(F, s)
    BY <1>3
  <2> DEFINE G == [s \in Level(n + 1) |-> IF s = {} THEN 0 ELSE f[Pick(s)] + F[s \ {Pick(s)}]]
  <2>2. ASSUME NEW s \in Level(n + 1), s # {}
        PROVE  s \ {Pick(s)} \in Level(n) /\ f[Pick(s)] \in Int
    <3>1. Pick(s) \in s
      BY <2>2, PickIsIn
    <3>2. Cardinality(s \ {Pick(s)}) = Cardinality(s) - 1
      BY <1>1, <3>1, FS_RemoveElement
    <3>3. Cardinality(s) <= n + 1 /\ Cardinality(s) \in Nat
      BY <1>1
    <3>. QED BY <3>1, <3>2, <3>3
  <2>3. G \in [Level(n + 1) -> Int]
    <3>1. ASSUME NEW s \in Level(n + 1)
          PROVE  (IF s = {} THEN 0 ELSE f[Pick(s)] + F[s \ {Pick(s)}]) \in Int
      <4>. HIDE DEF Level
      <4>1. CASE s = {}
        BY <4>1
      <4>2. CASE s # {}
        BY <2>1, <2>2, <4>2
      <4>. QED BY <4>1, <4>2
    <3>. QED BY <3>1
  <2>4. Level(n) \subseteq Level(n + 1)
    BY <1>1
  <2>5. \A s \in Level(n) : G[s] = F[s]
    <3>. HIDE DEF Level
    <3>. QED BY <2>1, <2>4
  <2>6. \A s \in Level(n + 1) : Adds(G, s)
    <3>. HIDE DEF Level
    <3>. QED BY <2>2, <2>5
  <2>. QED BY <2>3, <2>6
<1>4. Nat \subseteq N
  <2>1. 0 \in N /\ \A n \in Nat : n \in N => n + 1 \in N
    <3>. HIDE DEF Some
    <3>. QED BY <1>2, <1>3
  <2>. HIDE DEF N
  <2>. QED BY <2>1, Induction
<1>5. Some(Cardinality(U))
  <2>. HIDE DEF Some
  <2>. QED BY <1>1, <1>4
<1>6. Level(Cardinality(U)) = SUBSET U
  <2>1. \A s \in SUBSET U : Cardinality(s) <= Cardinality(U)
    BY FS_Subset
  <2>. QED BY <2>1
<1>7. PICK F \in [SUBSET U -> Int] : \A s \in SUBSET U : Adds(F, s)
  BY <1>5, <1>6
<1>8. SumsUp(F, f, U)
  BY <1>7 DEF SumsUp
<1>. QED BY <1>8

\* What holds of a set if it holds of all smaller ones holds of all.
LEMMA SmallerFirst ==
  ASSUME NEW U, IsFiniteSet(U), NEW Good,
         \A T \in SUBSET U : (\A V \in SUBSET T : V # T => V \in Good) => T \in Good
  PROVE  SUBSET U \subseteq Good
<1>1. SUFFICES ASSUME (SUBSET U) \ Good # {} PROVE FALSE
  OBVIOUS
<1> DEFINE R == StrictSubsetOrdering(U)
<1>2. IsWellFoundedOn(R, SUBSET U)
  BY FS_StrictSubsetOrderingWellFounded, FS_FiniteSubsetsOfFinite
<1>3. \A V, T \in SUBSET U : <<V, T>> \in R <=> V \subseteq T /\ V # T
  BY DEF StrictSubsetOrdering
<1>4. \E T \in (SUBSET U) \ Good : \A V \in (SUBSET U) \ Good : ~(<<V, T>> \in R)
  <2>1. (SUBSET U) \ Good \subseteq SUBSET U
    OBVIOUS
  <2> DEFINE Bad == (SUBSET U) \ Good
             Sets == SUBSET U
  <2>2. IsWellFoundedOn(R, Sets) /\ Bad \subseteq Sets /\ Bad # {}
    BY <1>1, <1>2
  <2>. HIDE DEF R, Bad, Sets
  <2>3. \E T \in Bad : \A V \in Bad : ~(<<V, T>> \in R)
    BY <2>2, WFMin
  <2>. QED BY <2>3 DEF Bad
<1>5. PICK T \in (SUBSET U) \ Good : \A V \in (SUBSET U) \ Good : ~(V \subseteq T /\ V # T)
  BY <1>3, <1>4
<1>. QED BY <1>5

\* Two functions that sum up the same agree on the sets they share.
LEMMA SumsAgree ==
  ASSUME NEW f, NEW U, IsFiniteSet(U), NEW S \in SUBSET U,
         NEW F, SumsUp(F, f, U), NEW G, SumsUp(G, f, S)
  PROVE  \A s \in SUBSET S : F[s] = G[s]
<1> DEFINE Good == {s \in SUBSET S : F[s] = G[s]}
<1>1. ASSUME NEW T \in SUBSET S, \A V \in SUBSET T : V # T => V \in Good
      PROVE  T \in Good
  <2>1. /\ F[T] = IF T = {} THEN 0 ELSE f[Pick(T)] + F[T \ {Pick(T)}]
        /\ G[T] = IF T = {} THEN 0 ELSE f[Pick(T)] + G[T \ {Pick(T)}]
    BY DEF SumsUp
  <2>2. T # {} => T \ {Pick(T)} \in Good
    BY <1>1, PickIsIn
  <2>. QED BY <2>1, <2>2
<1>2. IsFiniteSet(S)
  BY FS_Subset
<1>3. SUBSET S \subseteq Good
  <2>. HIDE DEF Good
  <2>. QED BY <1>1, <1>2, SmallerFirst
<1>. QED BY <1>3

\* The sum of a set is that of one member of it and of the others.
LEMMA SumOfPicked ==
  ASSUME NEW f, NEW U, IsFiniteSet(U), f \in [U -> Int], NEW S \in SUBSET U
  PROVE  /\ SumIn(f, S) \in Int
         /\ SumIn(f, {}) = 0
         /\ S # {} => SumIn(f, S) = f[Pick(S)] + SumIn(f, S \ {Pick(S)})
<1>1. PICK F \in [SUBSET U -> Int] : SumsUp(F, f, U)
  BY SumsExist
<1>2. ASSUME NEW T \in SUBSET U
      PROVE  SumIn(f, T) = F[T]
  <2> DEFINE g == [x \in T |-> f[x]]
             G == CHOOSE H : SumsUp(H, f, T)
  <2>1. \E H : SumsUp(H, f, T)
    <3> DEFINE H == [s \in SUBSET T |-> F[s]]
    <3>1. ASSUME NEW s \in SUBSET T
          PROVE  H[s] = IF s = {} THEN 0 ELSE f[Pick(s)] + H[s \ {Pick(s)}]
      BY <1>1 DEF SumsUp
    <3>2. SumsUp(H, f, T)
      <4>1. H = [s \in SUBSET T |-> H[s]]
        OBVIOUS
      <4>. HIDE DEF H
      <4>. QED BY <3>1, <4>1 DEF SumsUp
    <3>. QED BY <3>2
  <2>2. SumsUp(G, f, T)
    BY <2>1
  <2>. HIDE DEF G
  <2>3. F[T] = G[T]
    BY <1>1, <2>2, SumsAgree
  <2>. QED BY <2>3, SumIsAValue DEF G
<1>3. S # {} => S \ {Pick(S)} \in SUBSET U /\ Pick(S) \in U
  BY PickIsIn
<1>4. /\ F[{}] = 0
      /\ S # {} => F[S] = f[Pick(S)] + F[S \ {Pick(S)}]
  BY <1>1 DEF SumsUp
<1>. QED BY <1>1, <1>2, <1>3, <1>4

\* Any member will do.
LEMMA SumWithout ==
  ASSUME NEW f, NEW U, IsFiniteSet(U), f \in [U -> Int], NEW S \in SUBSET U, NEW x \in S
  PROVE  SumIn(f, S) = f[x] + SumIn(f, S \ {x})
<1> DEFINE Good == {T \in SUBSET U : \A y \in T : SumIn(f, T) = f[y] + SumIn(f, T \ {y})}
<1>1. ASSUME NEW T \in SUBSET U, \A V \in SUBSET T : V # T => V \in Good, NEW y \in T
      PROVE  SumIn(f, T) = f[y] + SumIn(f, T \ {y})
  <2> DEFINE z == Pick(T)
  <2>1. z \in T /\ SumIn(f, T) = f[z] + SumIn(f, T \ {z})
    BY PickIsIn, SumOfPicked
  <2>. HIDE DEF z
  <2>2. CASE z = y
    BY <2>1, <2>2
  <2>3. CASE z # y
    <3>1. T \ {z} \in Good /\ T \ {y} \in Good
      BY <1>1, <2>1
    <3>2. SumIn(f, T \ {z}) = f[y] + SumIn(f, (T \ {z}) \ {y})
      BY <2>3, <3>1
    <3>3. SumIn(f, T \ {y}) = f[z] + SumIn(f, (T \ {y}) \ {z})
      BY <2>1, <2>3, <3>1
    <3>4. (T \ {z}) \ {y} = (T \ {y}) \ {z}
      OBVIOUS
    <3>5. f[z] \in Int /\ f[y] \in Int /\ SumIn(f, (T \ {y}) \ {z}) \in Int
      BY <2>1, SumOfPicked
    <3> DEFINE rest == SumIn(f, (T \ {y}) \ {z})
    <3>6. SumIn(f, T) = f[z] + (f[y] + rest) /\ SumIn(f, T \ {y}) = f[z] + rest
      BY <2>1, <3>2, <3>3, <3>4
    <3>. HIDE DEF rest
    <3>7. rest \in Int /\ f[z] \in Int /\ f[y] \in Int
      BY <3>5 DEF rest
    <3>. QED BY <3>6, <3>7
  <2>. QED BY <2>2, <2>3
<1>2. \A T \in SUBSET U : (\A V \in SUBSET T : V # T => V \in Good) => T \in Good
  BY <1>1
<1>3. SUBSET U \subseteq Good
  <2>. HIDE DEF Good
  <2>. QED BY <1>2, SmallerFirst
<1>. QED BY <1>3

\* A sum of numbers from zero on is one.
LEMMA SumOfNaturals ==
  ASSUME NEW U, IsFiniteSet(U), NEW f \in [U -> Nat], NEW S \in SUBSET U
  PROVE  SumIn(f, S) \in Nat
<1> DEFINE Good == {T \in SUBSET U : SumIn(f, T) \in Nat}
<1>0. f \in [U -> Int]
  OBVIOUS
<1>1. ASSUME NEW T \in SUBSET U, \A V \in SUBSET T : V # T => V \in Good
      PROVE  SumIn(f, T) \in Nat
  <2>1. CASE T = {}
    <3>1. SumIn(f, T) = 0
      BY <1>0, <2>1, SumOfPicked
    <3>. QED BY <3>1
  <2>2. CASE T # {}
    <3>1. PICK x \in T : TRUE
      BY <2>2
    <3>2. SumIn(f, T) = f[x] + SumIn(f, T \ {x}) /\ f[x] \in Nat
      BY <1>0, SumWithout
    <3>3. T \ {x} \in Good
      BY <1>1
    <3>. QED BY <3>2, <3>3
  <2>. QED BY <2>1, <2>2
<1>2. \A T \in SUBSET U : (\A V \in SUBSET T : V # T => V \in Good) => T \in Good
  BY <1>1
<1>3. SUBSET U \subseteq Good
  <2>. HIDE DEF Good
  <2>. QED BY <1>2, SmallerFirst
<1>. QED BY <1>3

\* The sum over two sets that share nothing is the two sums'.
LEMMA SumOfParts ==
  ASSUME NEW U, IsFiniteSet(U), NEW f \in [U -> Nat],
         NEW A \in SUBSET U, NEW B \in SUBSET U, A \cap B = {}
  PROVE  SumIn(f, A \union B) = SumIn(f, A) + SumIn(f, B)
<1> DEFINE Adds(T) == SumIn(f, T \union B) = SumIn(f, T) + SumIn(f, B)
           Good == {T \in SUBSET U : T \cap B = {} => Adds(T)}
<1>0. f \in [U -> Int] /\ \A T \in SUBSET U : SumIn(f, T) \in Nat
  BY SumOfNaturals
<1>1. ASSUME NEW T \in SUBSET U, \A V \in SUBSET T : V # T => V \in Good, T \cap B = {}
      PROVE  Adds(T)
  <2>1. CASE T = {}
    <3>1. SumIn(f, T) = 0 /\ T \union B = B
      BY <1>0, <2>1, SumOfPicked
    <3>. QED BY <1>0, <3>1
  <2>2. CASE T # {}
    <3>1. PICK x \in T : TRUE
      BY <2>2
    <3>2. SumIn(f, T) = f[x] + SumIn(f, T \ {x})
      BY <1>0, SumWithout
    <3>3. SumIn(f, T \union B) = f[x] + SumIn(f, (T \union B) \ {x})
      BY <1>0, SumWithout
    <3>4. (T \union B) \ {x} = (T \ {x}) \union B
      BY <1>1
    <3>5. SumIn(f, (T \ {x}) \union B) = SumIn(f, T \ {x}) + SumIn(f, B)
      BY <1>1
    <3> DEFINE a == SumIn(f, T \ {x})
               b == SumIn(f, B)
    <3>6. a \in Nat /\ b \in Nat /\ f[x] \in Nat
      BY <1>0
    <3>7. SumIn(f, T \union B) = f[x] + (a + b) /\ SumIn(f, T) = f[x] + a
      BY <3>2, <3>3, <3>4, <3>5
    <3>. HIDE DEF a
    <3>. QED BY <3>6, <3>7
  <2>. QED BY <2>1, <2>2
<1>2. \A T \in SUBSET U : (\A V \in SUBSET T : V # T => V \in Good) => T \in Good
  BY <1>1
<1>3. SUBSET U \subseteq Good
  <2>. HIDE DEF Good
  <2>. QED BY <1>2, SmallerFirst
<1>. QED BY <1>3

\* A larger set has no smaller sum.
LEMMA SumOfMore ==
  ASSUME NEW U, IsFiniteSet(U), NEW f \in [U -> Nat],
         NEW B \in SUBSET U, NEW A \in SUBSET B
  PROVE  SumIn(f, A) <= SumIn(f, B)
<1>1. B = A \union (B \ A)
  OBVIOUS
<1>2. SumIn(f, A \union (B \ A)) = SumIn(f, A) + SumIn(f, B \ A)
  <2>1. A \cap (B \ A) = {} /\ B \ A \in SUBSET U
    OBVIOUS
  <2>. QED BY <2>1, SumOfParts
<1> DEFINE a == SumIn(f, A)
           rest == SumIn(f, B \ A)
<1>3. a \in Nat /\ rest \in Nat
  BY SumOfNaturals
<1>4. SumIn(f, B) = a + rest
  BY <1>1, <1>2
<1>5. a <= a + rest
  <2>. HIDE DEF a, rest
  <2>. QED BY <1>3
<1>. QED BY <1>4, <1>5

\* The sum is of the values on the set, and of nothing else.
LEMMA SumOfTheSame ==
  ASSUME NEW U, IsFiniteSet(U), NEW f \in [U -> Nat], NEW g \in [U -> Nat],
         NEW S \in SUBSET U, \A u \in S : f[u] = g[u]
  PROVE  SumIn(f, S) = SumIn(g, S)
<1> DEFINE Good == {T \in SUBSET S : SumIn(f, T) = SumIn(g, T)}
<1>0. f \in [U -> Int] /\ g \in [U -> Int] /\ IsFiniteSet(S)
  BY FS_Subset
<1>1. ASSUME NEW T \in SUBSET S, \A V \in SUBSET T : V # T => V \in Good
      PROVE  SumIn(f, T) = SumIn(g, T)
  <2>1. CASE T = {}
    BY <1>0, <2>1, SumOfPicked
  <2>2. CASE T # {}
    <3>1. PICK x \in T : TRUE
      BY <2>2
    <3>2. SumIn(f, T) = f[x] + SumIn(f, T \ {x}) /\ SumIn(g, T) = g[x] + SumIn(g, T \ {x})
      BY <1>0, SumWithout
    <3>3. T \ {x} \in Good
      BY <1>1
    <3>. QED BY <3>2, <3>3
  <2>. QED BY <2>1, <2>2
<1>2. \A T \in SUBSET S : (\A V \in SUBSET T : V # T => V \in Good) => T \in Good
  BY <1>1
<1>3. SUBSET S \subseteq Good
  <2>. HIDE DEF Good
  <2>. QED BY <1>0, <1>2, SmallerFirst
<1>. QED BY <1>3

\* What one time has more, the sums over it have more.
LEMMA SumAfterAdding ==
  ASSUME NEW U, IsFiniteSet(U), NEW f \in [U -> Nat], NEW t \in U, NEW c \in Nat,
         NEW S \in SUBSET U, NEW g \in [U -> Nat],
         g[t] = f[t] + c, \A u \in U \ {t} : g[u] = f[u]
  PROVE  SumIn(g, S) = SumIn(f, S) + IF t \in S THEN c ELSE 0
<1>1. g \in [U -> Nat] /\ g[t] = f[t] + c /\ \A u \in U \ {t} : g[u] = f[u]
  OBVIOUS
<1>2. CASE t \in S
  <2>1. f \in [U -> Int] /\ g \in [U -> Int]
    BY <1>1
  <2>2. SumIn(f, S) = f[t] + SumIn(f, S \ {t}) /\ SumIn(g, S) = g[t] + SumIn(g, S \ {t})
    BY <1>2, <2>1, SumWithout
  <2>3. SumIn(f, S \ {t}) = SumIn(g, S \ {t})
    BY <1>1, SumOfTheSame
  <2>4. SumIn(f, S \ {t}) \in Nat /\ f[t] \in Nat
    BY SumOfNaturals
  <2>. QED BY <1>1, <1>2, <2>2, <2>3, <2>4
<1>3. CASE t \notin S
  <2>1. SumIn(f, S) = SumIn(g, S)
    BY <1>1, <1>3, SumOfTheSame
  <2>2. SumIn(f, S) \in Nat
    BY SumOfNaturals
  <2>. QED BY <1>1, <1>3, <2>1, <2>2
<1>. QED BY <1>2, <1>3

\* Where all is zero, so is the sum.
LEMMA SumOfNone ==
  ASSUME NEW U, IsFiniteSet(U), NEW f \in [U -> Nat], NEW S \in SUBSET U,
         \A u \in S : f[u] = 0
  PROVE  SumIn(f, S) = 0
<1> DEFINE Good == {T \in SUBSET S : SumIn(f, T) = 0}
<1>0. f \in [U -> Int] /\ IsFiniteSet(S)
  BY FS_Subset
<1>1. ASSUME NEW T \in SUBSET S, \A V \in SUBSET T : V # T => V \in Good
      PROVE  SumIn(f, T) = 0
  <2>1. CASE T = {}
    BY <1>0, <2>1, SumOfPicked
  <2>2. CASE T # {}
    <3>1. PICK x \in T : TRUE
      BY <2>2
    <3>2. SumIn(f, T) = f[x] + SumIn(f, T \ {x}) /\ f[x] = 0
      BY <1>0, SumWithout
    <3>3. T \ {x} \in Good
      BY <1>1
    <3>. QED BY <3>2, <3>3
  <2>. QED BY <2>1, <2>2
<1>2. \A T \in SUBSET S : (\A V \in SUBSET T : V # T => V \in Good) => T \in Good
  BY <1>1
<1>3. SUBSET S \subseteq Good
  <2>. HIDE DEF Good
  <2>. QED BY <1>0, <1>2, SmallerFirst
<1>. QED BY <1>3

-----------------------------------------------------------------------------
(* Periods *)

\* A period has a length.
LEMMA Lengths == \A p \in Periods : Length[p] \in Nat \ {0}
  BY LengthsAssumption DEF Length, Periods

\* Where the period starts is a number of its own, and none before now.
LEMMA StartIsTime ==
  ASSUME NEW p \in Periods, NEW t \in Nat
  PROVE  PeriodStart(p, t) \in Nat
<1>1. Length[p] \in Nat \ {0}
  BY Lengths
<1>2. t \div Length[p] \in Nat
  BY <1>1
<1>3. \A m, n \in Nat : m * n \in Nat
  OBVIOUS
<1>. QED BY <1>1, <1>2, <1>3 DEF PeriodStart

\* Of two moments the later one's period starts no earlier.
LEMMA StartsInOrder ==
  ASSUME NEW p \in Periods, NEW t \in Nat, NEW u \in Nat, t <= u
  PROVE  PeriodStart(p, t) <= PeriodStart(p, u)
<1> DEFINE L == Length[p]
           a == t \div L
           b == u \div L
<1>1. L \in Nat \ {0}
  BY Lengths
<1>2. a \in Nat /\ b \in Nat
  BY <1>1
<1>3. \A m, n, k \in Nat : m <= n => m * k <= n * k
  <2>1. SUFFICES ASSUME NEW m \in Nat, NEW n \in Nat, NEW k \in Nat, m <= n
        PROVE m * k <= n * k
    OBVIOUS
  <2>2. PICK d \in Nat : n = m + d
    <3>1. n - m \in Nat /\ n = m + (n - m)
      BY <2>1
    <3>. QED BY <3>1
  <2>3. n * k = m * k + d * k /\ d * k \in Nat /\ m * k \in Nat
    BY <2>2
  <2>. QED BY <2>3
<1>4. a * L <= t /\ t < (a + 1) * L /\ b * L <= u /\ u < (b + 1) * L
  BY <1>1
<1>5. a <= b
  <2>1. SUFFICES ASSUME b + 1 <= a PROVE FALSE
    BY <1>2
  <2>2. (b + 1) * L <= a * L
    BY <1>1, <1>2, <1>3, <2>1
  <2>3. (b + 1) * L \in Nat /\ a * L \in Nat
    BY <1>1, <1>2
  <2>. QED BY <1>4, <2>2, <2>3
<1>. QED BY <1>1, <1>2, <1>3, <1>5 DEF PeriodStart

\* A warning is of a period that has a cap.
LEMMA WarningIsOfACap ==
  ASSUME NEW t
  PROVE  WarningAt(t) = "none" \/ WarningAt(t) \in Caps
<1> DEFINE near == {i \in DOMAIN PeriodOrder :
                      PeriodOrder[i] \in Caps /\ Near(PeriodOrder[i], t)}
<1>1. CASE near = {}
  BY <1>1 DEF WarningAt
<1>2. CASE near # {}
  <2>1. near \subseteq 1..3
    BY DEF PeriodOrder
  <2>2. \E x \in near : \A y \in near : x <= y
    <3>. HIDE DEF near
    <3>1. CASE 1 \in near
      BY <2>1, <3>1
    <3>2. CASE 1 \notin near /\ 2 \in near
      BY <2>1, <3>2
    <3>3. CASE 1 \notin near /\ 2 \notin near
      <4>1. \A y \in near : y = 3
        BY <2>1, <3>3
      <4>. QED BY <1>2, <4>1
    <3>. QED BY <3>1, <3>2, <3>3
  <2>3. Min(near) \in near
    BY <2>2 DEF Min
  <2>4. WarningAt(t) = PeriodOrder[Min(near)]
    BY <1>2 DEF WarningAt
  <2>. QED BY <2>3, <2>4
<1>. QED BY <1>1, <1>2

-----------------------------------------------------------------------------
(* Types *)

\* The row of a key without one.
LEMMA NoRowIsARow == NoRow \in Rows
<1>1. [p \in Periods |-> Unlimited] \in [Periods -> Int]
  BY DEF Unlimited
<1>. QED BY <1>1 DEF NoRow, Rows, None

\* What set_rpm_limit and upsert_budget store is a ceiling and a row.
LEMMA StoredIsARow ==
  ASSUME TypeOK, NEW body \in Edits, NEW current \in get_budget
  PROVE  /\ upsert_budget(RowAfter(body, current)) => row' \in Rows
         /\ set_rpm_limit(body.rpm) => rpm' \in Nat
<1>1. current \in Rows
  BY NoRowIsARow DEF get_budget, TypeOK
<1>2. \A p \in Periods : Field(body.limits[p], current.limits[p]) \in Int
  BY <1>1 DEF Field, Rows, Edits
<1>3. RowAfter(body, current) \in Rows
  <2>1. Field(body.percent, current.percent) \in Int
    BY <1>1 DEF Field, Rows, Edits
  <2> DEFINE limits == [p \in Periods |-> Field(body.limits[p], current.limits[p])]
  <2>2. limits \in [Periods -> Int]
    BY <1>2
  <2>3. RowAfter(body, current) =
          [configured |-> current.configured, limits |-> limits,
           percent |-> Field(body.percent, current.percent), stamp |-> None]
    <3>1. RowAfter(body, current) =
            [current EXCEPT !.limits = limits,
                            !.percent = Field(body.percent, current.percent),
                            !.stamp = None]
      BY <1>1 DEF RowAfter, Rows
    <3>. HIDE DEF limits
    <3>. QED BY <1>1, <3>1 DEF Rows
  <2>4. current.configured \in BOOLEAN /\ None \in Int
    BY <1>1 DEF Rows, None
  <2>. HIDE DEF limits
  <2>. QED BY <2>1, <2>2, <2>3, <2>4 DEF Rows
<1>4. \A new \in Rows : upsert_budget(new) => row' \in Rows
  <2>1. \A n \in Int : normalize_limit(n) \in Int /\ Fraction(n) \in Int
    BY DEF normalize_limit, Fraction, Unlimited
  <2>. SUFFICES ASSUME NEW new \in Rows, upsert_budget(new) PROVE row' \in Rows
    OBVIOUS
  <2> DEFINE limits == [p \in Periods |-> normalize_limit(new.limits[p])]
  <2>2. limits \in [Periods -> Int] /\ Fraction(new.percent) \in Int
    BY <2>1 DEF Rows
  <2>3. row' = [new EXCEPT !.configured = TRUE, !.percent = Fraction(new.percent),
                           !.limits = limits]
    BY DEF upsert_budget, Rows
  <2>. HIDE DEF limits
  <2>. QED BY <2>2, <2>3 DEF Rows
<1>5. set_rpm_limit(body.rpm) => rpm' \in Nat
  BY DEF set_rpm_limit, Edits, None
<1>. QED BY <1>3, <1>4, <1>5

\* A window that has rolled over is one.
LEMMA RolledType ==
  ASSUME TypeOK, NEW t \in Times
  PROVE  Rolled(window, t) \in [started : Times \union {None}, used : Nat]
  BY DEF TypeOK, Rolled

\* A step of one request keeps the types.
LEMMA RequestTypes ==
  ASSUME TypeOK, NEW r \in Requests, UNCHANGED scene,
         \/ Arrive(r) \/ ArriveUnread(r)
         \/ PassUnmetered(r) \/ TakeSlot(r) \/ RateLimited(r)
         \/ Block(r) \/ Allow(r) \/ AllowUnread(r)
         \/ WarnOnce(r) \/ StampFails(r) \/ NoWarning(r)
         \/ ServeFree(r) \/ \E cost \in Costs : Charge(r, cost)
  PROVE  TypeOK'
<1>1. 0 \in Times
  BY BoundsAssumption DEF Times
<1>2. at[r] \in Times /\ Late(r) \subseteq {"late"} /\ Confuses(r) \subseteq Confusions
  BY DEF TypeOK, Late, Confuses, Confusions
<1>3. ASSUME NEW limit \in Nat, Arrives(r, limit),
             seen' = seen \/ seen' = seen \union {"unread"}
      PROVE  TypeOK'
  <2>1. at' \in [Requests -> Times] /\ \A s \in Requests : at'[s] <= now
    BY <1>3 DEF TypeOK, Arrives, Times
  <2>2. /\ pc' \in [Requests -> {"idle", "meter", "judge", "warn", "serve"}]
        /\ \A s \in Requests : pc'[s] = "warn" => pc[s] = "warn"
    BY <1>3 DEF TypeOK, Arrives
  <2>3. seen' \subseteq {"unread", "late", "pruned", "edited", "restarted"} \union Confusions
    BY <1>3 DEF TypeOK
  <2>. QED BY <1>3, <2>1, <2>2, <2>3 DEF TypeOK, Arrives
<1>4. CASE PassUnmetered(r)
  BY <1>4 DEF TypeOK, PassUnmetered, Pass
<1>5. CASE TakeSlot(r)
  <2>1. window' \in [started : Times \union {None}, used : Nat]
    BY <1>2, <1>5, RolledType DEF TakeSlot
  <2>. QED BY <1>2, <1>5, <2>1 DEF TypeOK, TakeSlot, Pass
<1>6. CASE RateLimited(r)
  <2>1. window' \in [started : Times \union {None}, used : Nat]
    BY <1>2, <1>6, RolledType DEF RateLimited
  <2>. QED BY <1>1, <1>6, <2>1, SMTT(60) DEF TypeOK, RateLimited, Leave, Times
<1>7. CASE Block(r)
  BY <1>1, <1>7 DEF TypeOK, Block, Leave, Times
<1>8. CASE Allow(r)
  <2>1. WarningAt(at[r]) = "none" \/ WarningAt(at[r]) \in Periods
    BY WarningIsOfACap DEF Caps
  <2>. QED BY <1>8, <2>1 DEF TypeOK, Allow
<1>9. CASE AllowUnread(r) \/ StampFails(r) \/ NoWarning(r)
  <2>1. CASE AllowUnread(r)
    BY <2>1 DEF TypeOK, AllowUnread
  <2>2. CASE StampFails(r)
    BY <2>2 DEF TypeOK, StampFails
  <2>3. CASE NoWarning(r)
    BY <2>3 DEF TypeOK, NoWarning
  <2>. QED BY <1>9, <2>1, <2>2, <2>3
<1>10. CASE WarnOnce(r)
  <2>1. verdict[r] \in Periods /\ PeriodStart(verdict[r], at[r]) \in Int
    BY <1>2, <1>10, StartIsTime DEF TypeOK, WarnOnce, Times
  <2>2. row' \in Rows
    BY <1>10, <2>1 DEF TypeOK, WarnOnce, mark_warning_emitted, Rows
  <2>3. warned' \subseteq Periods \X Int
    BY <1>10, <2>1 DEF TypeOK, WarnOnce
  <2>4. /\ pc' \in [Requests -> {"idle", "meter", "judge", "warn", "serve"}]
        /\ \A s \in Requests : pc'[s] = "warn" => pc[s] = "warn"
    BY <1>10 DEF TypeOK, WarnOnce
  <2>5. seen' \subseteq {"unread", "late", "pruned", "edited", "restarted"} \union Confusions
    BY <1>2, <1>10 DEF TypeOK, WarnOnce
  <2>. QED BY <1>10, <2>2, <2>3, <2>4, <2>5 DEF TypeOK, WarnOnce
<1>11. CASE ServeFree(r)
  BY <1>1, <1>11 DEF TypeOK, ServeFree, Leave, Times
<1>12. ASSUME NEW cost \in Costs, Charge(r, cost)
       PROVE  TypeOK'
  <2>1. ledger' \in [Times -> Nat]
    BY <1>2, <1>12, BoundsAssumption DEF TypeOK, Charge, BookedAt
  <2>. QED BY <1>1, <1>12, <2>1, SMTT(60) DEF TypeOK, Charge, Leave, Times
<1>. QED
  BY <1>3, <1>4, <1>5, <1>6, <1>7, <1>8, <1>9, <1>10, <1>11, <1>12
     DEF Arrive, ArriveUnread, TypeOK

\* A step of the operator, the process or the clock keeps them too.
LEMMA OtherTypes ==
  ASSUME TypeOK, UNCHANGED scene,
         \/ \E body \in scene.bodies : Upsert(body) \/ UpsertHalf(body)
         \/ Remove \/ Prune \/ Restart \/ Tick
  PROVE  TypeOK'
<1>1. 0 \in Times
  BY BoundsAssumption DEF Times
<1>2. CASE \E body \in scene.bodies : Upsert(body) \/ UpsertHalf(body)
  <2>. PICK body \in scene.bodies : Upsert(body) \/ UpsertHalf(body)
    BY <1>2
  <2>1. body \in Edits
    BY ScenesAssumption DEF TypeOK
  <2>2. PICK current \in get_budget : upsert_budget(RowAfter(body, current))
    BY DEF Upsert, UpsertHalf, WriteRow
  <2>3. row' \in Rows
    BY <2>1, <2>2, StoredIsARow
  <2>4. rpm' \in Nat
    BY <2>1, <2>2, StoredIsARow DEF Upsert, UpsertHalf, TypeOK
  <2>. QED BY <2>3, <2>4 DEF TypeOK, Upsert, UpsertHalf, WriteRow, Forget, hands
<1>3. CASE Remove
  <2>1. row' \in Rows
    BY <1>3, NoRowIsARow DEF Remove, delete_budget, TypeOK
  <2>2. rpm' \in Nat
    BY <1>3 DEF Remove, set_rpm_limit, TypeOK
  <2>. QED BY <1>3, <2>1, <2>2 DEF TypeOK, Remove, Forget, hands
<1>4. CASE Prune
  BY <1>4 DEF TypeOK, Prune, NoWindow, hands
<1>5. CASE Restart
  BY <1>1, <1>5 DEF TypeOK, Restart, NoWindow, Times
<1>6. CASE Tick
  <2>1. now' \in Times /\ \A r \in Requests : at[r] <= now'
    BY <1>6, BoundsAssumption DEF TypeOK, Tick, Times
  <2>. QED BY <1>6, <2>1 DEF TypeOK, Tick, hands
<1>. QED BY <1>2, <1>3, <1>4, <1>5, <1>6

\* Every variable keeps its type, and no request has a clock that is ahead.
THEOREM BudgetsTypeCorrect == Spec => []TypeOK
<1>1. Init => TypeOK
  BY BoundsAssumption, ScenesAssumption DEF Init, TypeOK, Times, NoWindow
<1>2. TypeOK /\ [Next]_vars => TypeOK'
  <2>. SUFFICES ASSUME TypeOK, [Next]_vars PROVE TypeOK'
    OBVIOUS
  <2>1. CASE UNCHANGED vars
    BY <2>1 DEF vars, TypeOK
  <2>2. CASE Next
    BY <2>2, RequestTypes, OtherTypes DEF Next, Act
  <2>. QED BY <2>1, <2>2
<1>. QED BY <1>1, <1>2, PTL DEF Spec

-----------------------------------------------------------------------------
(* The meter *)

\* A bounded time line: what sums over it need.
LEMMA TimesAreFinite == IsFiniteSet(Times) /\ Times \subseteq Nat
BY BoundsAssumption, FS_Interval DEF Times

\* The window counts no more than really passed the meter since it started.
WindowCounts ==
    \/ window = NoWindow
    \/ window.started \in 0 .. now /\ SumFrom(metered, window.started) >= window.used

\* A sum since an earlier time is no smaller.
LEMMA SumsSince ==
  ASSUME NEW m \in [Times -> Nat], NEW a \in Int, NEW b \in Int, a <= b
  PROVE  SumFrom(m, a) \in Nat /\ SumFrom(m, b) \in Nat /\ SumFrom(m, b) <= SumFrom(m, a)
<1> DEFINE A == {u \in Times : u >= a}
           B == {u \in Times : u >= b}
<1>1. IsFiniteSet(Times) /\ m \in [Times -> Nat] /\ A \in SUBSET Times /\ B \in SUBSET Times
  BY TimesAreFinite
<1>2. B \in SUBSET A
  <2>. SUFFICES ASSUME NEW u \in B PROVE u >= a
    OBVIOUS
  <2>1. u \in Nat /\ u >= b
    BY TimesAreFinite
  <2>. QED BY <2>1
<1>3. SumFrom(m, a) = SumIn(m, A) /\ SumFrom(m, b) = SumIn(m, B)
  BY DEF SumFrom
<1>. HIDE DEF A, B
<1>4. SumIn(m, A) \in Nat /\ SumIn(m, B) \in Nat
  BY ONLY <1>1, SumOfNaturals
<1>5. SumIn(m, B) <= SumIn(m, A)
  BY ONLY <1>1, <1>2, SumOfMore
<1>. QED BY <1>3, <1>4, <1>5

\* What the meter computes with.
LEMMA ClockTypes ==
  ASSUME TypeOK, NEW r \in Requests
  PROVE  /\ now \in Nat /\ at[r] \in Nat /\ at[r] \in Times /\ at[r] <= now
         /\ Window \in Nat \ {0} /\ window.started \in Int /\ window.used \in Nat
         /\ ceiling[r] \in Nat /\ metered \in [Times -> Nat]
<1>1. Times \subseteq Nat /\ Window \in Nat \ {0} /\ None \in Int
  BY LengthsAssumption, TimesAreFinite DEF None
<1>2. now \in Times /\ at[r] \in Times /\ at[r] <= now
      /\ ceiling[r] \in Nat /\ metered \in [Times -> Nat]
  BY DEF TypeOK
<1>3. window.started \in Times \union {None} /\ window.used \in Nat
  BY DEF TypeOK
<1>4. now \in Nat /\ at[r] \in Nat
  BY <1>1, <1>2
<1>5. window.started \in Int
  <2>1. \A u \in Times : u \in Int
    BY <1>1
  <2>. QED BY <1>1, <1>3, <2>1
<1>. QED BY <1>1, <1>2, <1>3, <1>4, <1>5

\* A slot that is taken is counted now.
LEMMA SlotIsMetered ==
  ASSUME TypeOK, NEW r \in Requests, TakeSlot(r), NEW T \in SUBSET Times
  PROVE  /\ SumIn(metered, T) \in Nat
         /\ SumIn(metered', T) = SumIn(metered, T) + IF now \in T THEN 1 ELSE 0
<1>1. metered \in [Times -> Nat] /\ now \in Times /\ IsFiniteSet(Times) /\ 1 \in Nat
      /\ T \in SUBSET Times
  BY TimesAreFinite DEF TypeOK
<1>2. metered' = [metered EXCEPT ![now] = @ + 1]
  BY DEF TakeSlot
<1>3. /\ metered' \in [Times -> Nat] /\ metered'[now] = metered[now] + 1
      /\ \A u \in Times \ {now} : metered'[u] = metered[u]
  BY <1>1, <1>2
<1>4. SumIn(metered, T) \in Nat
  BY ONLY <1>1, SumOfNaturals
<1>5. SumIn(metered', T) = SumIn(metered, T) + IF now \in T THEN 1 ELSE 0
  BY ONLY <1>1, <1>3, SumAfterAdding
<1>. QED BY <1>4, <1>5

\* The window that refuses a request is the one there was, and holds its arrival.
LEMMA RefusingWindow ==
  ASSUME TypeOK, NEW r \in Requests, RateLimited(r)
  PROVE  /\ window # NoWindow /\ Rolled(window, at[r]) = window
         /\ at[r] - window.started < Window /\ window.used >= ceiling[r]
<1> DEFINE w == Rolled(window, at[r])
<1>1. w.used >= ceiling[r] /\ ceiling[r] \in Nat /\ ceiling[r] # 0
  BY DEF RateLimited, TypeOK
<1>2. w.used # 0
  <2>. HIDE DEF w
  <2>. QED BY <1>1
<1>3. window # NoWindow /\ ~(at[r] - window.started >= Window) /\ w = window
  BY <1>2 DEF Rolled
<1>4. at[r] - window.started < Window
  <2>1. at[r] \in Int /\ window.started \in Int /\ Window \in Int
    BY ClockTypes
  <2>. QED BY <1>3, <2>1
<1>. QED BY <1>1, <1>3, <1>4

\* A step leaves the window counting no more than passed.
LEMMA WindowCountsKept ==
  ASSUME TypeOK, TypeOK', WindowCounts, [Next]_vars
  PROVE  WindowCounts'
<1>0. now \in Nat /\ Times \subseteq Nat
  BY TimesAreFinite DEF TypeOK
<1>1. CASE window' = NoWindow
  BY <1>1 DEF WindowCounts
<1>2. CASE window' = window /\ metered' = metered /\ now' \in {now, now + 1}
  <2>1. SumFrom(metered', window'.started) = SumFrom(metered, window.started)
    BY <1>2
  <2>2. window'.started \in 0 .. now => window'.started \in 0 .. now'
    BY <1>0, <1>2
  <2>. QED BY <1>2, <2>1, <2>2 DEF WindowCounts
<1>3. ASSUME NEW r \in Requests, TakeSlot(r) PROVE WindowCounts'
  <2> DEFINE w == Rolled(window, at[r])
             T == {u \in Times : u >= w.started}
  <2>1. window' = [w EXCEPT !.used = @ + 1] /\ now' = now
    BY <1>3 DEF TakeSlot
  <2>2. /\ w \in [started : Times \union {None}, used : Nat]
        /\ w.started \in 0 .. now /\ SumFrom(metered, w.started) >= w.used
    <3>1. at[r] \in Times /\ at[r] \in Nat /\ at[r] <= now
      BY <1>0 DEF TypeOK
    <3>2. CASE w = [started |-> at[r], used |-> 0]
      <4>1. w.started = at[r] /\ w.used = 0
        BY <3>2
      <4>2. SumFrom(metered, at[r]) \in Nat
        <5>1. metered \in [Times -> Nat] /\ at[r] \in Int /\ at[r] <= at[r]
          BY <3>1 DEF TypeOK
        <5>. QED BY <5>1, SumsSince
      <4>. QED BY <1>0, <3>1, <3>2, <4>1, <4>2
    <3>3. CASE window # NoWindow /\ w = window
      BY <3>3 DEF WindowCounts, TypeOK
    <3>. QED BY <3>2, <3>3 DEF Rolled
  <2>. HIDE DEF w
  <2>3. window'.started = w.started /\ window'.used = w.used + 1
    BY <2>1, <2>2
  <2>4. SumFrom(metered, w.started) = SumIn(metered, T) /\ T \in SUBSET Times
        /\ SumFrom(metered', w.started) = SumIn(metered', T) /\ now \in T
    BY <1>0, <2>2 DEF SumFrom, TypeOK
  <2>. HIDE DEF T
  <2>5. SumIn(metered, T) \in Nat /\ SumIn(metered', T) = SumIn(metered, T) + 1
    BY <1>3, <2>4, SlotIsMetered
  <2>6. SumFrom(metered, w.started) \in Nat
        /\ SumFrom(metered', window'.started) = SumFrom(metered, w.started) + 1
    BY <2>3, <2>4, <2>5
  <2>7. SumFrom(metered', window'.started) >= window'.used
    BY <2>2, <2>3, <2>6
  <2>. QED BY <2>1, <2>2, <2>3, <2>7 DEF WindowCounts
<1>4. ASSUME NEW r \in Requests, RateLimited(r) PROVE WindowCounts'
  BY <1>2, <1>4, RefusingWindow DEF RateLimited
<1>5. ASSUME Next PROVE WindowCounts'
  <2>1. ASSUME NEW r \in Requests,
               \/ Arrive(r) \/ ArriveUnread(r) \/ PassUnmetered(r)
               \/ Block(r) \/ Allow(r) \/ AllowUnread(r)
               \/ WarnOnce(r) \/ StampFails(r) \/ NoWarning(r) \/ ServeFree(r)
               \/ \E cost \in Costs : Charge(r, cost)
        PROVE  WindowCounts'
    BY <1>2, <2>1 DEF Arrive, ArriveUnread, Arrives, PassUnmetered, Block, Allow, AllowUnread,
                      WarnOnce, StampFails, NoWarning, ServeFree, Charge
  <2>2. ASSUME NEW body \in scene.bodies, Upsert(body) \/ UpsertHalf(body)
        PROVE  WindowCounts'
    BY <1>2, <2>2 DEF Upsert, UpsertHalf, WriteRow
  <2>3. CASE Remove
    BY <1>2, <2>3 DEF Remove
  <2>4. CASE Prune \/ Restart
    BY <1>1, <2>4 DEF Prune, Restart
  <2>5. CASE Tick
    BY <1>2, <2>5 DEF Tick
  <2>. QED BY <1>3, <1>4, <1>5, <2>1, <2>2, <2>3, <2>4, <2>5 DEF Next, Act
<1>6. CASE UNCHANGED vars
  BY <1>2, <1>6 DEF vars
<1>. QED BY <1>5, <1>6

\* Nothing has passed the meter at a time to come.
NoneAhead == \A u \in Times : now < u => metered[u] = 0

\* A step leaves the times to come empty.
LEMMA NoneAheadKept ==
  ASSUME TypeOK, TypeOK', NoneAhead, [Next]_vars
  PROVE  NoneAhead'
<1>0. now \in Nat /\ now' \in Nat /\ Times \subseteq Nat
  BY TimesAreFinite DEF TypeOK
<1>1. CASE metered' = metered /\ now' \in {now, now + 1}
  <2>. SUFFICES ASSUME NEW u \in Times, now' < u PROVE metered[u] = 0
    BY <1>1 DEF NoneAhead
  <2>1. u \in Nat /\ now < u
    BY <1>0, <1>1
  <2>. QED BY <2>1 DEF NoneAhead
<1>2. ASSUME NEW r \in Requests, TakeSlot(r) PROVE NoneAhead'
  <2>1. metered' = [metered EXCEPT ![now] = @ + 1] /\ now' = now
    BY <1>2 DEF TakeSlot
  <2>2. ASSUME NEW u \in Times, now < u PROVE u # now
    BY <1>0, <2>2
  <2>. QED BY <2>1, <2>2 DEF NoneAhead, TypeOK
<1>3. ASSUME NEW r \in Requests,
             \/ Arrive(r) \/ ArriveUnread(r) \/ PassUnmetered(r) \/ RateLimited(r)
             \/ Block(r) \/ Allow(r) \/ AllowUnread(r)
             \/ WarnOnce(r) \/ StampFails(r) \/ NoWarning(r) \/ ServeFree(r)
             \/ \E cost \in Costs : Charge(r, cost)
      PROVE  NoneAhead'
  <2>1. metered' = metered /\ now' = now
    BY <1>3 DEF Arrive, ArriveUnread, Arrives, PassUnmetered, RateLimited, Block, Allow,
                AllowUnread, WarnOnce, StampFails, NoWarning, ServeFree, Charge
  <2>. QED BY <1>1, <2>1
<1>4. ASSUME \/ \E body \in scene.bodies : Upsert(body) \/ UpsertHalf(body)
             \/ Remove \/ Prune \/ Restart \/ Tick \/ UNCHANGED vars
      PROVE  NoneAhead'
  <2>1. metered' = metered /\ now' \in {now, now + 1}
    BY <1>4 DEF Upsert, UpsertHalf, WriteRow, Remove, Prune, Restart, Tick, vars
  <2>. QED BY <1>1, <2>1
<1>. QED BY <1>2, <1>3, <1>4 DEF Next, Act

\* A full window is that many requests since less than a window ago.
LEMMA RefusedForARate ==
  ASSUME TypeOK, WindowCounts, NoneAhead, NEW r \in Requests, RateLimited(r)
  PROVE  SumIn(metered, {u \in Times : at[r] - Window < u /\ u <= now}) >= ceiling[r]
<1> DEFINE a == at[r] - Window + 1
           b == window.started
           P == {u \in Times : at[r] - Window < u /\ u <= now}
           Q == {u \in Times : now < u}
<1>1. at[r] - b < Window /\ window.used >= ceiling[r]
      /\ b \in 0 .. now /\ SumFrom(metered, b) >= window.used
  BY RefusingWindow DEF WindowCounts
<1>2. metered \in [Times -> Nat] /\ at[r] \in Int /\ Window \in Int /\ now \in Int
      /\ ceiling[r] \in Nat /\ window.used \in Nat /\ at[r] <= now /\ Window > 0
  BY ClockTypes
<1>3. a \in Int /\ b \in Int /\ a <= b
  BY <1>1, <1>2
<1>4. SumFrom(metered, a) = SumIn(metered, P)
  <2>1. IsFiniteSet(Times) /\ P \in SUBSET Times /\ Q \in SUBSET Times
    BY TimesAreFinite
  <2>2. \A u \in Times : u \in Nat
    BY TimesAreFinite
  <2>3. P \cap Q = {}
    BY <1>2, <2>2
  <2>4. {u \in Times : u >= a} = P \union Q
    <3>1. \A u \in Times : u >= a <=> (at[r] - Window < u /\ u <= now) \/ now < u
      BY <1>2, <2>2
    <3>. QED BY <3>1
  <2>5. \A u \in Q : metered[u] = 0
    BY DEF NoneAhead
  <2>6. SumFrom(metered, a) = SumIn(metered, P \union Q)
    BY <2>4 DEF SumFrom
  <2>. HIDE DEF P, Q, a
  <2>7. SumIn(metered, P \union Q) = SumIn(metered, P) + SumIn(metered, Q)
    BY ONLY <1>2, <2>1, <2>3, SumOfParts
  <2>8. SumIn(metered, Q) = 0 /\ SumIn(metered, P) \in Nat
    BY ONLY <1>2, <2>1, <2>5, SumOfNone, SumOfNaturals
  <2>. QED BY <2>6, <2>7, <2>8
<1>. HIDE DEF a, b, P, Q
<1>5. SumFrom(metered, a) \in Nat /\ SumFrom(metered, b) \in Nat
      /\ SumFrom(metered, b) <= SumFrom(metered, a)
  BY ONLY <1>2, <1>3, SumsSince
<1>6. SumIn(metered, P) >= ceiling[r]
  BY <1>1, <1>2, <1>4, <1>5
<1>. QED BY <1>6 DEF P

\* The times before a window that a stretch may share with it.
Before(w) == {u \in Times : w.started - Window < u /\ u < w.started}

\* What passed the meter m after the first request of the window w.
Behind(w, m) == SumIn(m, {u \in Times : u > w.started})

\* What a window w says of the meter m, as long as nobody is metered late: it counts
\* what passed since it started, up to the ceiling, and the first of that when it
\* started; so did the one before, of which a stretch shares all but the first.
Metering(w, m, limit) ==
    /\ w = NoWindow => \A u \in Times : m[u] = 0
    /\ w # NoWindow =>
         /\ w.used <= limit /\ SumFrom(m, w.started) <= w.used
         /\ Behind(w, m) < w.used
         /\ \A u \in Times : u >= w.started + Window => m[u] = 0
         /\ SumIn(m, Before(w)) < limit
    /\ limit # 0 => \A t \in Times : SumIn(m, Stretch(t)) < 2 * limit

\* While nobody is metered late, no window is dropped and no ceiling edited.
Metered == {"late", "pruned", "edited", "restarted"} \cap seen = {}

\* There is one ceiling, and the window says what has passed the meter.
MeterInv ==
    Metered =>
        /\ rpm = scene.rpm
        /\ \A r \in Requests : ceiling[r] \in {0, scene.rpm}
        /\ Metering(window, metered, scene.rpm)

\* One more passes the meter at t, in a window that starts at s and holds t.
LEMMA StretchHolds ==
  ASSUME NEW m \in [Times -> Nat], NEW limit \in Nat, NEW s \in Times, NEW t \in Times,
         s <= t, t < s + Window,
         SumIn(m, {u \in Times : s - Window < u /\ u < s}) < limit,
         SumFrom(m, s) <= limit,
         NEW x \in Times, t \in Stretch(x)
  PROVE  SumIn(m, Stretch(x)) < 2 * limit
<1> DEFINE A == {u \in Times : s - Window < u /\ u < s}
           B == {u \in Times : u >= s}
<1>1. Window \in Nat /\ Times \subseteq Nat /\ IsFiniteSet(Times)
  BY LengthsAssumption, TimesAreFinite
<1>0. s \in Nat /\ t \in Nat /\ x \in Nat
  BY <1>1
<1>2. Stretch(x) \subseteq A \union B
  <2>. SUFFICES ASSUME NEW u \in Stretch(x) PROVE u \in A \union B
    OBVIOUS
  <2>1. u \in Times /\ u \in Nat /\ x <= u /\ t < x + Window
    BY <1>1 DEF Stretch
  <2>2. s - Window < u /\ (u < s \/ u >= s)
    BY <1>0, <1>1, <2>1
  <2>. QED BY <2>1, <2>2
<1>3. A \in SUBSET Times /\ B \in SUBSET Times /\ A \cap B = {}
  <2>1. A \in SUBSET Times /\ B \in SUBSET Times
    OBVIOUS
  <2>2. \A u \in Times : u \in Nat /\ ~(u < s /\ u >= s)
    BY <1>1
  <2>. QED BY <2>1, <2>2
<1>4. SumIn(m, A) < limit /\ SumIn(m, B) <= limit
  BY DEF SumFrom
<1>. HIDE DEF A, B
<1>5. SumIn(m, A \union B) = SumIn(m, A) + SumIn(m, B)
  <2>1. m \in [Times -> Nat] /\ IsFiniteSet(Times)
    BY <1>1
  <2>. QED BY ONLY <1>3, <2>1, SumOfParts
<1>6. SumIn(m, Stretch(x)) <= SumIn(m, A \union B)
  <2>1. A \union B \in SUBSET Times
    BY <1>3
  <2>. QED BY <1>1, <1>2, <2>1, SumOfMore
<1> DEFINE a == SumIn(m, A)
           b == SumIn(m, B)
           c == SumIn(m, Stretch(x))
<1>7. a \in Nat /\ b \in Nat /\ c \in Nat
  BY <1>1, <1>3, SumOfNaturals DEF Stretch
<1>8. a < limit /\ b <= limit /\ c <= a + b
  BY <1>4, <1>5, <1>6
<1>. HIDE DEF a, b, c
<1>9. c < 2 * limit
  BY <1>7, <1>8
<1>. QED BY <1>9 DEF c

\* A request that takes a slot when it arrives leaves the meter as the window says.
LEMMA SlotKeepsTheMeter ==
  ASSUME NEW limit \in Nat, NEW m \in [Times -> Nat], NEW t \in Times,
         NEW w \in [started : Times \union {None}, used : Nat],
         Metering(w, m, limit), w # NoWindow => w.started \in Times /\ w.started <= t,
         Rolled(w, t).used < limit
  PROVE  Metering([Rolled(w, t) EXCEPT !.used = @ + 1], [m EXCEPT ![t] = @ + 1], limit)
<1> DEFINE v == Rolled(w, t)
           w2 == [v EXCEPT !.used = @ + 1]
           m2 == [m EXCEPT ![t] = @ + 1]
           s == w2.started
           fresh == w = NoWindow \/ t - w.started >= Window
<1>0. /\ IsFiniteSet(Times) /\ Times \subseteq Nat /\ Window \in Nat \ {0}
      /\ \A T \in SUBSET Times : SumIn(m, T) \in Nat
  BY LengthsAssumption, TimesAreFinite, SumOfNaturals
<1>1. /\ m2 \in [Times -> Nat] /\ \A u \in Times \ {t} : m2[u] = m[u]
      /\ \A T \in SUBSET Times : SumIn(m2, T) = SumIn(m, T) + IF t \in T THEN 1 ELSE 0
  <2>1. m2 \in [Times -> Nat] /\ \A u \in Times \ {t} : m2[u] = m[u]
    OBVIOUS
  <2>2. ASSUME NEW T \in SUBSET Times
        PROVE  SumIn(m2, T) = SumIn(m, T) + IF t \in T THEN 1 ELSE 0
    <3>1. 1 \in Nat /\ t \in Times /\ m \in [Times -> Nat] /\ T \in SUBSET Times
      OBVIOUS
    <3>2. IsFiniteSet(Times)
      BY <1>0
    <3>3. m2 \in [Times -> Nat] /\ m2[t] = m[t] + 1 /\ \A u \in Times \ {t} : m2[u] = m[u]
      OBVIOUS
    <3>. HIDE DEF m2
    <3>. QED BY ONLY <3>1, <3>2, <3>3, SumAfterAdding
  <2>. QED BY <2>1, <2>2
<1>2. /\ fresh => v = [started |-> t, used |-> 0]
      /\ ~fresh => v = w
  BY DEF Rolled
<1>3. /\ s \in Times /\ s <= t /\ t < s + Window
      /\ w2.used = v.used + 1 /\ v.used \in Nat /\ s = v.started
      /\ w2 # NoWindow
  <2>1. v \in [started : Times \union {None}, used : Nat]
    BY <1>2
  <2>2. v.started \in Times /\ v.started <= t /\ t < v.started + Window
    <3>1. CASE fresh
      BY <1>0, <1>2, <3>1
    <3>2. CASE ~fresh
      <4>1. w.started \in Times /\ w.started <= t /\ ~(t - w.started >= Window) /\ v = w
        BY <1>2, <3>2
      <4>2. t \in Nat /\ w.started \in Nat
        BY <1>0, <4>1
      <4>3. t < w.started + Window
        BY <1>0, <4>1, <4>2
      <4>. HIDE DEF v
      <4>. QED BY <4>1, <4>3
    <3>. QED BY <3>1, <3>2
  <2>. HIDE DEF v
  <2>3. w2.started = v.started /\ w2.used = v.used + 1 /\ v.used \in Nat
    BY <2>1
  <2>4. w2 # NoWindow
    <3>1. NoWindow.started = -1 /\ -1 \notin Nat
      BY DEF NoWindow, None
    <3>2. w2.started \in Nat
      BY <1>0, <2>2, <2>3
    <3>. QED BY <3>1, <3>2
  <2>. QED BY <2>2, <2>3, <2>4
<1>4. w2.used <= limit /\ limit # 0 /\ 0 < limit
  BY <1>3
<1>5. fresh => \A u \in Times : u >= t => m[u] = 0
  <2>1. CASE w = NoWindow
    BY <2>1 DEF Metering
  <2>2. CASE w # NoWindow /\ t - w.started >= Window
    <3>1. \A u \in Times : u >= w.started + Window => m[u] = 0
      BY <2>2 DEF Metering
    <3>2. ASSUME NEW u \in Times, u >= t PROVE u >= w.started + Window
      <4>1. u \in Nat /\ t \in Nat /\ w.started \in Nat
        BY <1>0, <2>2
      <4>. QED BY <1>0, <2>2, <3>2, <4>1
    <3>. QED BY <3>1, <3>2
  <2>. QED BY <2>1, <2>2
<1>6. SumFrom(m2, s) <= w2.used
  <2> DEFINE B == {u \in Times : u >= s}
  <2>1. B \in SUBSET Times /\ t \in B /\ SumFrom(m, s) = SumIn(m, B) /\ SumFrom(m2, s) = SumIn(m2, B)
    BY <1>3 DEF SumFrom
  <2>2. SumIn(m, B) <= v.used
    <3>1. CASE fresh
      <4>1. s = t /\ v.used = 0
        BY <1>2, <1>3, <3>1
      <4>2. \A u \in B : m[u] = 0
        BY <1>5, <3>1, <4>1
      <4>3. SumIn(m, B) = 0
        <5>. HIDE DEF B
        <5>. QED BY <1>0, <2>1, <4>2, SumOfNone
      <4>. QED BY <4>1, <4>3
    <3>2. CASE ~fresh
      <4>1. v = w /\ s = w.started /\ w # NoWindow
        BY <1>2, <1>3, <3>2
      <4>. QED BY <2>1, <4>1 DEF Metering
    <3>. QED BY <3>1, <3>2
  <2>3. SumIn(m2, B) = SumIn(m, B) + 1 /\ SumIn(m, B) \in Nat
    <3>. HIDE DEF B
    <3>. QED BY <1>0, <1>1, <2>1
  <2>. HIDE DEF B
  <2>. QED BY <1>3, <2>1, <2>2, <2>3
<1>7. \A u \in Times : u >= s + Window => m2[u] = 0
  <2>. SUFFICES ASSUME NEW u \in Times, u >= s + Window PROVE m2[u] = 0
    OBVIOUS
  <2>1. u # t /\ m2[u] = m[u]
    BY <1>0, <1>1, <1>3
  <2>2. CASE fresh
    <3>1. u >= t
      BY <1>0, <1>3
    <3>. QED BY <1>5, <2>1, <2>2, <3>1
  <2>3. CASE ~fresh
    <3>1. s = w.started /\ w # NoWindow
      BY <1>2, <1>3, <2>3
    <3>. QED BY <2>1, <3>1 DEF Metering
  <2>. QED BY <2>2, <2>3
<1>8. Behind(w2, m2) < w2.used
  <2> DEFINE A == {u \in Times : u > s}
  <2>1. A \in SUBSET Times /\ Behind(w2, m2) = SumIn(m2, A)
    BY DEF Behind
  <2>2. SumIn(m2, A) = SumIn(m, A) + (IF t \in A THEN 1 ELSE 0) /\ SumIn(m, A) \in Nat
    <3>. HIDE DEF A, m2
    <3>. QED BY <1>0, <1>1, <2>1
  <2>3. CASE fresh
    <3>1. s = t /\ v.used = 0
      BY <1>2, <1>3, <2>3
    <3>2. t \notin A /\ \A u \in A : u >= t
      BY <1>0, <3>1
    <3>3. \A u \in A : m[u] = 0
      BY <1>5, <2>3, <3>2
    <3>. HIDE DEF A, v, w2, m2, s
    <3>4. SumIn(m, A) = 0
      BY <1>0, <2>1, <3>3, SumOfNone
    <3>. QED BY <1>3, <2>1, <2>2, <3>1, <3>2, <3>4
  <2>4. CASE ~fresh
    <3>1. v = w /\ s = w.started /\ w # NoWindow
      BY <1>2, <1>3, <2>4
    <3>2. SumIn(m, A) < v.used
      BY <3>1 DEF Metering, Behind
    <3>. HIDE DEF A, v, w2, m2, s
    <3>. QED BY <1>3, <2>1, <2>2, <3>2
  <2>. QED BY <2>3, <2>4
<1>9. SumIn(m2, Before(w2)) < limit
  <2>1. Before(w2) \in SUBSET Times /\ t \notin Before(w2)
    BY <1>0, <1>3 DEF Before
  <2>2. SumIn(m2, Before(w2)) = SumIn(m, Before(w2)) /\ SumIn(m, Before(w2)) \in Nat
    <3>. HIDE DEF m2, w2, v
    <3>1. SumIn(m, Before(w2)) \in Nat
      BY <1>0, <2>1
    <3>. QED BY <1>1, <2>1, <3>1
  <2>3. CASE ~fresh
    <3>1. Before(w2) = Before(w) /\ w # NoWindow
      BY <1>2, <1>3, <2>3 DEF Before
    <3>. QED BY <2>2, <3>1 DEF Metering
  <2>4. CASE w = NoWindow
    <3>1. \A u \in Before(w2) : m[u] = 0
      BY <2>1, <2>4 DEF Metering
    <3>2. SumIn(m, Before(w2)) = 0
      BY <1>0, <2>1, <3>1, SumOfNone
    <3>. HIDE DEF v, w2
    <3>. QED BY <1>4, <2>2, <3>2
  <2>5. CASE fresh /\ w # NoWindow
    <3> DEFINE B == {u \in Times : u > w.started}
    <3>1. s = t /\ t - w.started >= Window /\ w.started \in Nat
      BY <1>0, <1>2, <1>3, <2>5
    <3>2. Before(w2) \subseteq B /\ B \in SUBSET Times /\ SumIn(m, B) = Behind(w, m)
      BY <1>0, <1>3, <3>1 DEF Before, Behind
    <3>3. SumIn(m, B) < w.used /\ w.used <= limit
      BY <2>5, <3>2 DEF Metering
    <3>. HIDE DEF B
    <3>4. SumIn(m, Before(w2)) <= SumIn(m, B) /\ SumIn(m, B) \in Nat
      BY <1>0, <3>2, SumOfMore
    <3>5. w.used \in Nat
      OBVIOUS
    <3>. HIDE DEF v, w2
    <3>. QED BY <2>2, <3>3, <3>4, <3>5
  <2>. QED BY <2>3, <2>4, <2>5
<1>10. ASSUME NEW x \in Times PROVE SumIn(m2, Stretch(x)) < 2 * limit
  <2>1. CASE t \in Stretch(x)
    <3>1. SumFrom(m2, s) <= limit
      <4>1. SumFrom(m2, s) \in Nat
        BY <1>0, <1>1, SumOfNaturals DEF SumFrom
      <4>. HIDE DEF v, w2, s
      <4>. QED BY <1>3, <1>4, <1>6, <4>1
    <3>2. SumIn(m2, {u \in Times : s - Window < u /\ u < s}) < limit
      BY <1>9 DEF Before
    <3>. HIDE DEF v, w2, s, m2
    <3>. QED BY <1>1, <1>3, <2>1, <3>1, <3>2, StretchHolds
  <2>2. CASE t \notin Stretch(x)
    <3>0. Stretch(x) \in SUBSET Times
      BY DEF Stretch
    <3>. HIDE DEF m2
    <3>1. SumIn(m2, Stretch(x)) = SumIn(m, Stretch(x))
      <4>1. SumIn(m, Stretch(x)) \in Nat
        BY <1>0, <3>0
      <4>. QED BY <1>1, <2>2, <3>0, <4>1
    <3>. QED BY <1>4, <3>1 DEF Metering
  <2>. QED BY <2>1, <2>2
<1>. HIDE DEF w2, m2, v, s
<1>. QED BY <1>3, <1>4, <1>6, <1>7, <1>8, <1>9, <1>10 DEF Metering, v, w2, m2, s

\* A step leaves the meter as the window says it is.
LEMMA MeterKept ==
  ASSUME TypeOK, WindowCounts, MeterInv, [Next]_vars
  PROVE  MeterInv'
<1>. SUFFICES ASSUME Metered'
              PROVE  /\ rpm' = scene'.rpm
                     /\ \A r \in Requests : ceiling'[r] \in {0, scene'.rpm}
                     /\ Metering(window', metered', scene'.rpm)
  BY DEF MeterInv
<1> DEFINE limit == scene.rpm
           Ceilings == ceiling' \in [Requests -> {0, limit}]
           Held == Metering(window', metered', limit)
<1>1. limit \in Nat
  BY ScenesAssumption DEF TypeOK
<1>2. ASSUME Metered
      PROVE  /\ rpm = limit /\ ceiling \in [Requests -> {0, limit}]
             /\ Metering(window, metered, limit)
  BY <1>2 DEF MeterInv, TypeOK
<1>. HIDE DEF limit
<1>3. ASSUME window' = window, metered' = metered, Metered PROVE Held
  BY <1>2, <1>3
<1>4. ASSUME NEW r \in Requests,
             \/ Arrive(r) \/ ArriveUnread(r) \/ PassUnmetered(r)
             \/ Block(r) \/ Allow(r) \/ AllowUnread(r)
             \/ WarnOnce(r) \/ StampFails(r) \/ NoWarning(r) \/ ServeFree(r)
             \/ \E cost \in Costs : Charge(r, cost)
      PROVE  rpm' = limit /\ Ceilings /\ Held
  <2>1. Metered /\ window' = window /\ metered' = metered /\ rpm' = rpm
    BY <1>4 DEF Arrive, ArriveUnread, Arrives, PassUnmetered, Block, Allow, AllowUnread,
                WarnOnce, StampFails, NoWarning, ServeFree, Charge, Metered
  <2>2. \/ ceiling' = ceiling
        \/ \E c \in {0, rpm} : ceiling' = [ceiling EXCEPT ![r] = c]
    BY <1>4 DEF Arrive, ArriveUnread, Arrives, PassUnmetered, Block, Allow, AllowUnread,
                WarnOnce, StampFails, NoWarning, ServeFree, Charge, Pass, Leave
  <2>3. Ceilings
    BY <1>2, <2>1, <2>2
  <2>. QED BY <1>2, <1>3, <2>1, <2>3
<1>5. ASSUME NEW r \in Requests, TakeSlot(r)
      PROVE  rpm' = limit /\ Ceilings /\ Held
  <2> DEFINE w == Rolled(window, at[r])
  <2>1. Metered /\ at[r] = now /\ rpm' = rpm
        /\ ceiling' = [ceiling EXCEPT ![r] = 0]
    BY <1>5 DEF TakeSlot, Late, Pass, Metered
  <2>2. /\ ceiling[r] \in {0, limit} /\ ceiling[r] # 0 /\ w.used < ceiling[r]
        /\ window' = [w EXCEPT !.used = @ + 1] /\ metered' = [metered EXCEPT ![now] = @ + 1]
    BY <1>2, <1>5, <2>1 DEF TakeSlot
  <2>3. /\ window \in [started : Times \union {None}, used : Nat]
        /\ metered \in [Times -> Nat] /\ now \in Times
    BY DEF TypeOK
  <2>4. window # NoWindow => window.started \in Times /\ window.started <= now
    <3>1. ASSUME window # NoWindow PROVE window.started \in 0 .. now
      BY <3>1 DEF WindowCounts
    <3>2. now \in Nat /\ MaxTime \in Nat /\ now <= MaxTime
      BY <2>3, BoundsAssumption DEF Times
    <3>. QED BY <3>1, <3>2 DEF Times
  <2>5. Rolled(window, now).used < limit /\ Metering(window, metered, limit)
    BY <1>2, <2>1, <2>2
  <2>6. Metering([Rolled(window, now) EXCEPT !.used = @ + 1], [metered EXCEPT ![now] = @ + 1],
                 limit)
    BY ONLY <1>1, <2>3, <2>4, <2>5, SlotKeepsTheMeter
  <2>7. Held
    BY <2>1, <2>2, <2>6
  <2>8. Ceilings
    BY <1>2, <2>1
  <2>. QED BY <1>2, <2>1, <2>7, <2>8
<1>6. ASSUME NEW r \in Requests, RateLimited(r)
      PROVE  rpm' = limit /\ Ceilings /\ Held
  <2>1. Metered /\ window' = window /\ metered' = metered /\ rpm' = rpm
        /\ ceiling' = [ceiling EXCEPT ![r] = 0]
    BY <1>6, RefusingWindow DEF RateLimited, Leave, Metered
  <2>. QED BY <1>2, <1>3, <2>1
<1>7. ASSUME Tick \/ UNCHANGED vars
      PROVE  rpm' = limit /\ Ceilings /\ Held
  <2>1. Metered /\ window' = window /\ metered' = metered /\ rpm' = rpm
        /\ ceiling' = ceiling
    BY <1>7 DEF Tick, hands, vars, Metered
  <2>. QED BY <1>2, <1>3, <2>1
<1>8. ASSUME Next PROVE Tick \/ \E r \in Requests :
                          \/ Arrive(r) \/ ArriveUnread(r)
                          \/ PassUnmetered(r) \/ TakeSlot(r) \/ RateLimited(r)
                          \/ Block(r) \/ Allow(r) \/ AllowUnread(r)
                          \/ WarnOnce(r) \/ StampFails(r) \/ NoWarning(r)
                          \/ ServeFree(r) \/ \E cost \in Costs : Charge(r, cost)
  <2>1. ~Prune /\ ~Restart /\ ~Remove
    BY DEF Prune, Restart, Remove, Forget, Metered
  <2>2. \A body \in scene.bodies : ~Upsert(body) /\ ~UpsertHalf(body)
    BY DEF Upsert, UpsertHalf, WriteRow, Forget, Metered
  <2>. QED BY <1>8, <2>1, <2>2 DEF Next, Act
<1>9. rpm' = limit /\ Ceilings /\ Held
  <2>. HIDE DEF Ceilings, Held
  <2>. QED BY <1>4, <1>5, <1>6, <1>7, <1>8
<1>10. scene' = scene
  BY DEF Next, vars
<1>. QED BY <1>9, <1>10 DEF limit

\* Nothing has passed the meter at first.
LEMMA MeterAtFirst == ASSUME Init PROVE WindowCounts /\ NoneAhead /\ MeterInv
<1>1. window = NoWindow /\ rpm = scene.rpm /\ ceiling = [r \in Requests |-> 0]
      /\ metered = [t \in Times |-> 0]
  BY DEF Init
<1>2. scene.rpm \in Nat
  BY ScenesAssumption DEF Init
<1>3. ASSUME scene.rpm # 0, NEW t \in Times PROVE SumIn(metered, Stretch(t)) < 2 * scene.rpm
  <2>1. /\ IsFiniteSet(Times) /\ metered \in [Times -> Nat] /\ Stretch(t) \in SUBSET Times
        /\ \A u \in Stretch(t) : metered[u] = 0
    BY <1>1, TimesAreFinite DEF Stretch
  <2>2. SumIn(metered, Stretch(t)) = 0
    BY ONLY <2>1, SumOfNone
  <2>. QED BY <1>2, <1>3, <2>2
<1>4. Metering(window, metered, scene.rpm)
  BY <1>1, <1>3 DEF Metering
<1>. QED BY <1>1, <1>4 DEF WindowCounts, NoneAhead, MeterInv

-----------------------------------------------------------------------------
(* The caps *)

\* The most that one answer costs.
LEMMA MaxCost == Max(Costs) \in Nat /\ \A cost \in Costs : cost <= Max(Costs)
<1> DEFINE Tops(T) == \E x \in T : \A y \in T : x >= y
           Good == {T \in SUBSET Costs : T # {} => Tops(T)}
<1>1. Costs \subseteq Nat /\ IsFiniteSet(Costs) /\ Costs # {}
  BY BoundsAssumption, FinitenessAssumption
<1>2. ASSUME NEW T \in SUBSET Costs, \A V \in SUBSET T : V # T => V \in Good, T # {}
      PROVE  Tops(T)
  <2>1. PICK x \in T : TRUE
    BY <1>2
  <2>2. CASE T = {x}
    <3>1. x >= x
      BY <1>1, <1>2
    <3>. QED BY <2>2, <3>1
  <2>3. CASE T # {x}
    <3>1. T \ {x} \in Good /\ T \ {x} # {}
      BY <1>2, <2>1, <2>3
    <3>2. PICK z \in T \ {x} : \A y \in T \ {x} : z >= y
      BY <3>1
    <3>3. x \in Nat /\ z \in Nat /\ \A y \in T : y \in Nat
      BY <1>1, <1>2
    <3>4. CASE z >= x
      BY <3>2, <3>4
    <3>5. CASE x >= z
      <4>1. ASSUME NEW y \in T PROVE x >= y
        <5>1. y = x \/ z >= y
          BY <3>2
        <5>. QED BY <3>3, <3>5, <5>1
      <4>. QED BY <4>1
    <3>. QED BY <3>3, <3>4, <3>5
  <2>. QED BY <2>2, <2>3
<1>3. \A T \in SUBSET Costs : (\A V \in SUBSET T : V # T => V \in Good) => T \in Good
  BY <1>2
<1>4. Tops(Costs)
  <2>1. SUBSET Costs \subseteq Good
    <3>. HIDE DEF Good
    <3>. QED BY <1>1, <1>3, SmallerFirst
  <2>. QED BY <1>1, <2>1
<1>5. Max(Costs) \in Costs /\ \A y \in Costs : Max(Costs) >= y
  BY <1>4 DEF Max
<1>6. \A y \in Costs : y \in Nat
  BY <1>1
<1>7. ASSUME NEW y \in Costs PROVE y <= Max(Costs)
  BY <1>5, <1>6
<1>. QED BY <1>1, <1>5, <1>7

\* The times of the period p that holds t.
InPeriod(p, t) == {u \in Times : PeriodStart(p, u) = PeriodStart(p, t)}

\* The requests that were let through in that period, and are to be booked in it.
InHand(p, t) ==
    {r \in Requests : pc[r] \in {"warn", "serve"} /\ PeriodStart(p, at[r]) = PeriodStart(p, t)}

\* What is booked, and what may come of those in hand, is less than may be at all.
Within(p, t) ==
    SumIn(ledger, InPeriod(p, t)) + Max(Costs) * Cardinality(InHand(p, t))
        < row.limits[p] + Max(Costs) * Cardinality(Requests)

\* The budget was read, and not edited.
Judged == {"unread", "edited"} \cap seen = {}

OverrunInv ==
    Judged =>
        \A p \in Caps : \A t \in Times : Within(p, t)

\* No requests in hand are more, or cost more, than all there may be.
LEMMA MostInHand ==
  ASSUME NEW H \in SUBSET Requests
  PROVE  /\ IsFiniteSet(H) /\ Cardinality(H) \in Nat
         /\ Max(Costs) * Cardinality(H) \in Nat
         /\ Max(Costs) * Cardinality(Requests) \in Nat
         /\ Max(Costs) * Cardinality(H) <= Max(Costs) * Cardinality(Requests)
<1>1. IsFiniteSet(Requests) /\ IsFiniteSet(H) /\ Cardinality(H) <= Cardinality(Requests)
  BY FinitenessAssumption, FS_Subset
<1>2. Cardinality(H) \in Nat /\ Cardinality(Requests) \in Nat
  BY <1>1, FS_CardinalityType
<1>3. Max(Costs) \in Nat
  BY MaxCost
<1>4. Max(Costs) * Cardinality(H) <= Max(Costs) * Cardinality(Requests)
  BY <1>1, <1>2, <1>3, ProductsGrow
<1>5. \A m, n \in Nat : m * n \in Nat
  OBVIOUS
<1>. QED BY <1>1, <1>2, <1>3, <1>4, <1>5

\* What Within compares are numbers.
LEMMA Amounts ==
  ASSUME TypeOK, NEW p \in Periods, NEW t \in Times
  PROVE  /\ SumIn(ledger, InPeriod(p, t)) \in Nat /\ row.limits[p] \in Int
         /\ IsFiniteSet(InHand(p, t)) /\ Cardinality(InHand(p, t)) \in Nat
         /\ Max(Costs) * Cardinality(Requests) \in Nat
<1>1. IsFiniteSet(Times) /\ ledger \in [Times -> Nat] /\ InPeriod(p, t) \in SUBSET Times
  BY TimesAreFinite DEF TypeOK, InPeriod
<1>2. SumIn(ledger, InPeriod(p, t)) \in Nat
  BY ONLY <1>1, SumOfNaturals
<1>3. InHand(p, t) \in SUBSET Requests
  BY DEF InHand
<1>4. row.limits[p] \in Int
  BY DEF TypeOK, Rows
<1>. QED BY <1>2, <1>3, <1>4, MostInHand

\* Fewer in hand, and nothing booked.
LEMMA StillWithin ==
  ASSUME TypeOK, NEW p \in Periods, NEW t \in Times, Within(p, t),
         ledger' = ledger, row'.limits = row.limits, InHand(p, t)' \subseteq InHand(p, t)
  PROVE  Within(p, t)'
<1> DEFINE h == Cardinality(InHand(p, t))
           i == Cardinality(InHand(p, t)')
           s == SumIn(ledger, InPeriod(p, t))
           m == Max(Costs)
           n == m * Cardinality(Requests)
           l == row.limits[p]
<1>1. s \in Nat /\ h \in Nat /\ n \in Nat /\ l \in Int /\ IsFiniteSet(InHand(p, t))
  BY Amounts
<1>2. m \in Nat
  BY MaxCost
<1>3. InHand(p, t)' \in SUBSET InHand(p, t)
  OBVIOUS
<1>4. IsFiniteSet(InHand(p, t)') /\ i <= h
  BY <1>1, <1>3, FS_Subset
<1>5. i \in Nat
  BY <1>4, FS_CardinalityType
<1>6. m * i \in Nat /\ m * h \in Nat /\ m * i <= m * h
  BY <1>1, <1>2, <1>4, <1>5, ProductsGrow
<1>7. s + m * h < l + n
  BY DEF Within
<1>8. SumIn(ledger', InPeriod(p, t)) = s /\ row'.limits[p] = l
  OBVIOUS
<1>. HIDE DEF h, i, s, n, l, m
<1>9. s + m * i < l + n
  BY <1>1, <1>2, <1>6, <1>7
<1>. QED BY <1>8, <1>9 DEF Within, h, i, s, n, l, m, InPeriod, PeriodStart

\* A request is let through only if its period's bookings are below the cap.
LEMMA AllowedWithin ==
  ASSUME TypeOK, NEW r \in Requests, Allow(r), NEW p \in Caps, NEW t \in Times,
         PeriodStart(p, t) = PeriodStart(p, at[r])
  PROVE  Within(p, t)'
<1> DEFINE S == {u \in Times : u >= PeriodStart(p, at[r])}
           s == SumIn(ledger, InPeriod(p, t))
           m == Max(Costs)
           n == m * Cardinality(Requests)
           k == m * Cardinality(InHand(p, t)')
           l == row.limits[p]
<1>1. p \in Periods /\ limit_for(p) = l /\ ~Reached(p, at[r])
  BY DEF Caps, Allow, BlockedAt, limit_for, normalize_limit
<1>2. s \in Nat /\ l \in Int
  BY <1>1, Amounts
<1>3. n \in Nat /\ k \in Nat /\ k <= n
  <2>1. InHand(p, t)' \in SUBSET Requests
    BY DEF InHand
  <2>. HIDE DEF n, k, m
  <2>. QED BY <2>1, MostInHand DEF n, k, m
<1>4. /\ IsFiniteSet(Times) /\ ledger \in [Times -> Nat] /\ S \in SUBSET Times
      /\ Spent(p, at[r]) = SumIn(ledger, S)
  BY TimesAreFinite DEF TypeOK, Spent, SumFrom
<1>5. InPeriod(p, t) \in SUBSET S
  <2>. SUFFICES ASSUME NEW u \in Times, PeriodStart(p, u) = PeriodStart(p, t)
                PROVE  u >= PeriodStart(p, at[r])
    BY DEF InPeriod
  <2>1. u \in Nat /\ Length[p] \in Nat \ {0}
    BY <1>1, Lengths, TimesAreFinite
  <2>2. u >= (u \div Length[p]) * Length[p]
    BY <2>1
  <2>. QED BY <2>2 DEF PeriodStart
<1>. HIDE DEF S
<1>6. s <= SumIn(ledger, S) /\ SumIn(ledger, S) \in Nat
  <2>1. SumIn(ledger, S) \in Nat
    BY ONLY <1>4, SumOfNaturals
  <2>2. SumIn(ledger, InPeriod(p, t)) <= SumIn(ledger, S)
    BY ONLY <1>4, <1>5, SumOfMore
  <2>. QED BY <2>1, <2>2
<1>7. ~(SumIn(ledger, S) >= l)
  BY <1>1, <1>4 DEF Reached
<1>8. ledger' = ledger /\ row'.limits[p] = l
  BY DEF Allow
<1>. HIDE DEF s, m, n, k, l
<1>9. s + k < l + n
  BY <1>2, <1>3, <1>6, <1>7
<1>. QED BY <1>8, <1>9 DEF Within, s, m, n, k, l, InPeriod, PeriodStart

\* What is booked was in hand before.
LEMMA ChargedWithin ==
  ASSUME TypeOK, NEW r \in Requests, NEW cost \in Costs, Charge(r, cost),
         NEW p \in Periods, NEW t \in Times, Within(p, t)
  PROVE  Within(p, t)'
<1> DEFINE P == InPeriod(p, t)
           H == InHand(p, t)
           c == IF at[r] \in P THEN cost ELSE 0
           d == IF at[r] \in P THEN 1 ELSE 0
           s == SumIn(ledger, P)
           h == Cardinality(H)
           m == Max(Costs)
           n == m * Cardinality(Requests)
           l == row.limits[p]
<1>1. s \in Nat /\ h \in Nat /\ n \in Nat /\ l \in Int /\ IsFiniteSet(H) /\ m \in Nat
  BY Amounts, MaxCost
<1>2. cost \in Nat /\ cost <= m
  BY MaxCost, BoundsAssumption
<1>3. SumIn(ledger', P) = s + c
  <2>1. /\ IsFiniteSet(Times) /\ ledger \in [Times -> Nat] /\ P \in SUBSET Times
        /\ at[r] \in Times /\ cost \in Nat
    BY <1>2, TimesAreFinite DEF TypeOK, InPeriod
  <2>2. ledger' = [ledger EXCEPT ![at[r]] = @ + cost]
    BY DEF Charge, BookedAt
  <2>3. /\ ledger' \in [Times -> Nat] /\ ledger'[at[r]] = ledger[at[r]] + cost
        /\ \A u \in Times \ {at[r]} : ledger'[u] = ledger[u]
    BY <2>1, <2>2
  <2>. HIDE DEF P
  <2>. QED BY ONLY <2>1, <2>3, SumAfterAdding
<1>4. H' = H \ {r} /\ (r \in H <=> at[r] \in P)
  <2>1. pc[r] = "serve" /\ pc' = [pc EXCEPT ![r] = "idle"] /\ at' = [at EXCEPT ![r] = 0]
    BY DEF Charge, Leave
  <2>2. at[r] \in Times /\ DOMAIN at = Requests /\ DOMAIN pc = Requests
    BY DEF TypeOK
  <2>3. r \notin H' /\ (r \in H <=> at[r] \in P)
    BY <2>1, <2>2 DEF InHand, InPeriod
  <2>4. ASSUME NEW q \in Requests \ {r} PROVE q \in H' <=> q \in H
    <3>1. pc'[q] = pc[q] /\ at'[q] = at[q]
      BY <2>1, <2>2
    <3>. QED BY <3>1 DEF InHand, PeriodStart
  <2>. QED BY <2>3, <2>4 DEF InHand
<1>5. Cardinality(H') = h - d
  <2>. HIDE DEF H, P
  <2>1. Cardinality(H') = IF r \in H THEN h - 1 ELSE h
    BY <1>1, <1>4, FS_RemoveElement DEF h
  <2>. QED BY <1>1, <1>4, <2>1
<1>6. s + m * h < l + n
  BY DEF Within
<1>7. row'.limits[p] = l
  BY DEF Charge
<1>. HIDE DEF s, h, m, n, l
<1>8. (s + c) + m * (h - d) < l + n
  <2>1. CASE at[r] \in P
    <3>1. m * (h - 1) = m * h - m /\ m * h \in Int
      BY <1>1
    <3>. QED BY <1>1, <1>2, <1>6, <2>1, <3>1
  <2>2. CASE at[r] \notin P
    BY <1>1, <1>6, <2>2
  <2>. QED BY <2>1, <2>2
<1>. HIDE DEF c, d
<1>. QED BY <1>3, <1>5, <1>7, <1>8 DEF Within, s, h, m, n, l, InPeriod, PeriodStart

\* A step leaves the books and those in hand below the caps.
LEMMA OverrunKept ==
  ASSUME TypeOK, TypeOK', OverrunInv, [Next]_vars
  PROVE  OverrunInv'
<1>. SUFFICES ASSUME Judged', NEW p \in Caps', NEW t \in Times
              PROVE  Within(p, t)'
  BY DEF OverrunInv, Times
<1> DEFINE Known == Judged /\ p \in Caps
           Kept == ledger' = ledger /\ row'.limits = row.limits
           Fewer == InHand(p, t)' \subseteq InHand(p, t)
<1>1. p \in Periods
  BY DEF Caps
<1>2. Known => Within(p, t)
  BY DEF OverrunInv
<1>3. row'.limits = row.limits /\ row'.configured = row.configured => p \in Caps
  BY DEF Caps, limit_for, normalize_limit
<1>4. ASSUME Known, Kept, Fewer PROVE Within(p, t)'
  BY <1>1, <1>2, <1>4, StillWithin
<1>5. ASSUME NEW r \in Requests,
             \/ Arrive(r) \/ PassUnmetered(r) \/ TakeSlot(r) \/ RateLimited(r)
             \/ Block(r) \/ WarnOnce(r) \/ NoWarning(r) \/ ServeFree(r)
      PROVE  Within(p, t)'
  <2>1. Judged /\ ledger' = ledger
    BY <1>5 DEF Arrive, Arrives, PassUnmetered, TakeSlot, RateLimited, Block, WarnOnce,
                NoWarning, ServeFree, Judged, Late, Confuses
  <2>2. row'.limits = row.limits /\ row'.configured = row.configured
    BY <1>5 DEF Arrive, Arrives, PassUnmetered, TakeSlot, RateLimited, Block, WarnOnce,
                NoWarning, ServeFree, mark_warning_emitted, TypeOK, Rows
  <2>3. DOMAIN pc = Requests /\ DOMAIN at = Requests
    BY DEF TypeOK
  <2>4. \A q \in Requests : pc'[q] \in {"warn", "serve"} =>
            pc[q] \in {"warn", "serve"} /\ at'[q] = at[q]
    BY <1>5, <2>3 DEF Arrive, Arrives, PassUnmetered, TakeSlot, RateLimited, Block, WarnOnce,
                NoWarning, ServeFree, Leave, Pass
  <2>5. Fewer
    BY <2>4 DEF InHand, PeriodStart
  <2>. QED BY <1>3, <1>4, <2>1, <2>2, <2>5
<1>6. ASSUME NEW r \in Requests, Allow(r) PROVE Within(p, t)'
  <2>1. Known /\ Kept
    BY <1>3, <1>6 DEF Allow, Judged
  <2>2. CASE PeriodStart(p, t) = PeriodStart(p, at[r])
    BY <1>6, <2>1, <2>2, AllowedWithin
  <2>3. CASE PeriodStart(p, t) # PeriodStart(p, at[r])
    <3>1. at' = at /\ \A q \in Requests \ {r} : pc'[q] = pc[q]
      BY <1>6 DEF Allow, TypeOK
    <3>2. Fewer
      BY <2>3, <3>1 DEF InHand, PeriodStart
    <3>. QED BY <1>4, <2>1, <3>2
  <2>. QED BY <2>2, <2>3
<1>7. ASSUME NEW r \in Requests, NEW cost \in Costs, Charge(r, cost) PROVE Within(p, t)'
  <2>1. Known
    BY <1>3, <1>7 DEF Charge, Judged
  <2>. QED BY <1>1, <1>2, <1>7, <2>1, ChargedWithin
<1>8. ASSUME Tick \/ Prune \/ UNCHANGED vars PROVE Within(p, t)'
  <2>1. Known /\ Kept /\ pc' = pc /\ at' = at
    BY <1>3, <1>8 DEF Tick, Prune, hands, vars, Judged
  <2>2. Fewer
    BY <2>1 DEF InHand, PeriodStart
  <2>. QED BY <1>4, <2>1, <2>2
<1>9. ASSUME Restart PROVE Within(p, t)'
  <2>1. Known /\ Kept /\ \A q \in Requests : pc'[q] = "idle"
    BY <1>3, <1>9 DEF Restart, Judged
  <2>2. Fewer
    BY <2>1 DEF InHand
  <2>. QED BY <1>4, <2>1, <2>2
<1>10. ASSUME Next
       PROVE  \/ Tick \/ Prune \/ Restart
              \/ \E r \in Requests :
                    \/ Arrive(r) \/ PassUnmetered(r) \/ TakeSlot(r) \/ RateLimited(r)
                    \/ Block(r) \/ Allow(r) \/ WarnOnce(r) \/ NoWarning(r) \/ ServeFree(r)
                    \/ \E cost \in Costs : Charge(r, cost)
  <2>1. ~Remove
    BY DEF Remove, Forget, Judged
  <2>2. \A body \in scene.bodies : ~Upsert(body) /\ ~UpsertHalf(body)
    BY DEF Upsert, UpsertHalf, WriteRow, Forget, Judged
  <2>3. \A r \in Requests : ~ArriveUnread(r) /\ ~AllowUnread(r) /\ ~StampFails(r)
    BY DEF ArriveUnread, AllowUnread, StampFails, Judged
  <2>. QED BY <1>10, <2>1, <2>2, <2>3 DEF Next, Act
<1>. QED BY <1>5, <1>6, <1>7, <1>8, <1>9, <1>10

\* Nothing is booked at first.
LEMMA OverrunAtFirst == ASSUME Init PROVE OverrunInv
<1>. SUFFICES ASSUME NEW p \in Caps, NEW t \in Times PROVE Within(p, t)
  BY DEF OverrunInv
<1> DEFINE m == Max(Costs)
           n == m * Cardinality(Requests)
           l == row.limits[p]
           P == InPeriod(p, t)
<1>1. /\ IsFiniteSet(Times) /\ ledger \in [Times -> Nat] /\ P \in SUBSET Times
      /\ \A u \in P : ledger[u] = 0
  BY TimesAreFinite DEF Init, InPeriod
<1>2. SumIn(ledger, P) = 0
  <2>. HIDE DEF P
  <2>. QED BY ONLY <1>1, SumOfNone
<1>3. Cardinality(InHand(p, t)) = 0
  <2>1. InHand(p, t) = {}
    BY DEF Init, InHand
  <2>. QED BY <2>1, FS_EmptySet
<1>4. n \in Nat /\ m \in Nat
  BY MaxCost, MostInHand
<1>5. l \in Int /\ l > 0
  <2>1. row \in Rows /\ p \in Periods /\ limit_for(p) # 0
    BY ScenesAssumption DEF Init, Caps, Unlimited
  <2>2. l \in Int
    BY <2>1 DEF Rows
  <2>. QED BY <2>1, <2>2 DEF limit_for, normalize_limit, Unlimited
<1>. HIDE DEF n, l, m
<1>6. 0 + m * 0 < l + n
  BY <1>4, <1>5
<1>. QED BY <1>2, <1>3, <1>6 DEF Within, m, n, l

\* What the invariant bounds in hand and in the books bounds the books.
LEMMA BooksBelow ==
  ASSUME TypeOK, NEW p \in Periods, NEW t \in Times, Within(p, t)
  PROVE  SumIn(ledger, InPeriod(p, t)) < row.limits[p] + Max(Costs) * Cardinality(Requests)
<1> DEFINE s == SumIn(ledger, InPeriod(p, t))
           k == Max(Costs) * Cardinality(InHand(p, t))
           n == Max(Costs) * Cardinality(Requests)
           l == row.limits[p]
<1>1. InHand(p, t) \in SUBSET Requests
  BY DEF InHand
<1>2. k \in Nat /\ n \in Nat
  BY <1>1, MostInHand
<1>3. s \in Nat /\ l \in Int
  BY Amounts
<1>4. s + k < l + n
  BY DEF Within
<1>. HIDE DEF s, k, n, l
<1>5. s < l + n
  BY <1>2, <1>3, <1>4
<1>. QED BY <1>5 DEF s, k, n, l

-----------------------------------------------------------------------------
(* One warning *)

InOrder == Confusions \cap seen = {}

\* While no period that was over and no second cap was stamped, no warning is of a
\* later period than the stamp's, and the stamp's has begun.
StampIsLatest ==
    InOrder => \A w \in warned :
        w[2] <= row.stamp /\ row.stamp <= PeriodStart(w[1], now)

IInv == TypeOK /\ StampIsLatest /\ WindowCounts /\ NoneAhead /\ MeterInv /\ OverrunInv

\* Whoever stamps in order stamps a later period than all that were warned of.
LEMMA StampIsNew ==
  ASSUME IInv, NEW r \in Requests, WarnOnce(r), InOrder', NEW w \in warned
  PROVE  /\ InOrder /\ w[1] = verdict[r] /\ w[2] \in Int
         /\ PeriodStart(verdict[r], at[r]) = PeriodStart(verdict[r], now)
         /\ PeriodStart(verdict[r], now) \in Int
         /\ w[2] < PeriodStart(verdict[r], now)
<1>1. InOrder /\ Confuses(r) \cap Confusions = {}
  BY DEF WarnOnce, InOrder
<1>2. w[1] = verdict[r] /\ PeriodStart(verdict[r], at[r]) = PeriodStart(verdict[r], now)
  BY <1>1 DEF Confuses, Confusions
<1>3. w[2] <= row.stamp /\ row.stamp <= PeriodStart(verdict[r], now)
  BY <1>1, <1>2 DEF IInv, StampIsLatest
<1>4. row.stamp # PeriodStart(verdict[r], now)
  BY <1>2 DEF WarnOnce, MayStamp
<1>5. verdict[r] \in Periods /\ now \in Nat /\ w[2] \in Int /\ row.stamp \in Int
  BY TimesAreFinite DEF IInv, TypeOK, Rows, WarnOnce
<1>6. PeriodStart(verdict[r], now) \in Int
  BY <1>5, StartIsTime
<1>. QED BY <1>1, <1>2, <1>3, <1>4, <1>5, <1>6

\* What neither stamps nor edits leaves the stamp the last warning's.
LEMMA LatestKept ==
  ASSUME IInv, row' = row, warned' = warned, now' \in Nat, now' >= now,
         InOrder' => InOrder
  PROVE  StampIsLatest'
<1>. SUFFICES ASSUME InOrder', NEW w \in warned
     PROVE  w[2] <= row.stamp /\ row.stamp <= PeriodStart(w[1], now')
  BY DEF StampIsLatest, PeriodStart
<1>1. w[2] <= row.stamp /\ row.stamp <= PeriodStart(w[1], now)
  BY DEF IInv, StampIsLatest
<1>2. w[1] \in Periods /\ now \in Nat /\ row.stamp \in Int
  BY TimesAreFinite DEF IInv, TypeOK, Rows
<1>3. PeriodStart(w[1], now) <= PeriodStart(w[1], now')
  BY <1>2, StartsInOrder
<1>4. PeriodStart(w[1], now) \in Int /\ PeriodStart(w[1], now') \in Int
  BY <1>2, StartIsTime
<1>. QED BY <1>1, <1>2, <1>3, <1>4

\* A step leaves the stamp the last warning's.
LEMMA LatestKeptByAll ==
  ASSUME IInv, TypeOK', [Next]_vars
  PROVE  StampIsLatest'
<1>1. now \in Nat /\ now' \in Nat
  BY TimesAreFinite DEF IInv, TypeOK
<1>2. CASE UNCHANGED vars
  BY <1>1, <1>2, LatestKept DEF vars, InOrder
<1>3. CASE (\E body \in scene.bodies : Upsert(body) \/ UpsertHalf(body)) \/ Remove
  <2>1. warned' = {}
    BY <1>3 DEF Upsert, UpsertHalf, WriteRow, Remove, Forget
  <2>. QED BY <2>1 DEF StampIsLatest
<1>4. CASE Prune \/ Restart \/ Tick
  <2>1. row' = row /\ warned' = warned /\ now' \in {now, now + 1} /\ (InOrder' => InOrder)
    BY <1>4 DEF Prune, Restart, Tick, InOrder
  <2>. QED BY <1>1, <2>1, LatestKept
<1>5. ASSUME NEW r \in Requests,
             \/ Arrive(r) \/ ArriveUnread(r)
             \/ PassUnmetered(r) \/ TakeSlot(r) \/ RateLimited(r)
             \/ Block(r) \/ Allow(r) \/ AllowUnread(r)
             \/ StampFails(r) \/ NoWarning(r)
             \/ ServeFree(r) \/ \E cost \in Costs : Charge(r, cost)
      PROVE  StampIsLatest'
  <2>1. row' = row /\ warned' = warned /\ now' = now /\ (InOrder' => InOrder)
    BY <1>5 DEF Arrive, ArriveUnread, Arrives, PassUnmetered, TakeSlot, RateLimited, Block,
                Allow, AllowUnread, StampFails, NoWarning, ServeFree, Charge, InOrder
  <2>. QED BY <1>1, <2>1, LatestKept
<1>6. ASSUME NEW r \in Requests, WarnOnce(r) PROVE StampIsLatest'
  <2> DEFINE start == PeriodStart(verdict[r], at[r])
  <2>. SUFFICES ASSUME InOrder', NEW w \in warned'
       PROVE  w[2] <= row'.stamp /\ row'.stamp <= PeriodStart(w[1], now')
    BY DEF StampIsLatest, PeriodStart
  <2>1. /\ row' = [row EXCEPT !.stamp = start] /\ row \in Rows /\ now' = now
        /\ warned' = warned \union {<<verdict[r], start>>}
    BY <1>6 DEF WarnOnce, mark_warning_emitted, IInv, TypeOK
  <2>2. row'.stamp = start
    BY <2>1 DEF Rows
  <2>3. verdict[r] \in Periods /\ start = PeriodStart(verdict[r], now)
    BY <1>6 DEF WarnOnce, IInv, TypeOK, InOrder, Confuses, Confusions
  <2>4. start \in Int
    BY <1>1, <2>3, StartIsTime
  <2>5. CASE w \in warned
    <3>1. w[1] = verdict[r] /\ w[2] \in Int /\ w[2] < start
      BY <1>6, <2>3, <2>5, StampIsNew
    <3>. HIDE DEF start
    <3>. QED BY <2>1, <2>2, <2>3, <2>4, <3>1
  <2>6. CASE w = <<verdict[r], start>>
    <3>1. w[1] = verdict[r] /\ w[2] = start
      BY <2>6
    <3>. HIDE DEF start
    <3>. QED BY <2>1, <2>2, <2>3, <2>4, <3>1
  <2>. QED BY <2>1, <2>5, <2>6
<1>. QED BY <1>2, <1>3, <1>4, <1>5, <1>6 DEF Next, Act

\* However requests, edits, prunings and restarts follow one another, the stamp is
\* the last warning's, the window counts what passed, and the books and those in
\* hand stay below the caps.
THEOREM BudgetsInvariance == Spec => []IInv
<1>1. Init => IInv
  <2>. SUFFICES ASSUME Init PROVE IInv
    OBVIOUS
  <2>1. TypeOK
    BY BoundsAssumption, ScenesAssumption DEF Init, TypeOK, Times, NoWindow
  <2>2. StampIsLatest
    BY DEF Init, StampIsLatest
  <2>. QED BY <2>1, <2>2, MeterAtFirst, OverrunAtFirst DEF IInv
<1>2. IInv /\ [Next]_vars => IInv'
  <2>. SUFFICES ASSUME IInv, [Next]_vars PROVE IInv'
    OBVIOUS
  <2>1. TypeOK /\ StampIsLatest /\ WindowCounts /\ NoneAhead /\ MeterInv /\ OverrunInv
    BY DEF IInv
  <2>2. TypeOK'
    <3>1. CASE UNCHANGED vars
      BY <2>1, <3>1 DEF vars, TypeOK
    <3>2. CASE Next
      BY <2>1, <3>2, RequestTypes, OtherTypes DEF Next, Act
    <3>. QED BY <3>1, <3>2
  <2>3. StampIsLatest'
    BY <2>2, LatestKeptByAll
  <2>4. WindowCounts'
    BY <2>1, <2>2, WindowCountsKept
  <2>5. MeterInv'
    BY <2>1, MeterKept
  <2>6. OverrunInv'
    BY <2>1, <2>2, OverrunKept
  <2>7. NoneAhead'
    BY <2>1, <2>2, NoneAheadKept
  <2>. QED BY <2>2, <2>3, <2>4, <2>5, <2>6, <2>7 DEF IInv
<1>. QED BY <1>1, <1>2, PTL DEF Spec

\* However many requests were judged before one of them was booked, a cap is overrun
\* by less than what all requests that may be in hand can cost (budgets.rs:412-453,
\* 175-295), for every number of requests, every cost and every length of a period.
THEOREM OverrunHolds == Spec => []OverrunBounded
<1>1. IInv => OverrunBounded
  <2>. SUFFICES ASSUME IInv, Judged,
                       NEW p \in Caps, NEW t \in 0 .. now
                PROVE  SumIn(ledger, InPeriod(p, t))
                           < row.limits[p] + Max(Costs) * Cardinality(Requests)
    BY DEF OverrunBounded, InPeriod, Judged
  <2>1. t \in Times /\ p \in Periods /\ TypeOK
    <3>1. TypeOK /\ p \in Periods
      BY DEF IInv, Caps
    <3>2. now \in 0 .. MaxTime /\ MaxTime \in Nat
      BY <3>1, BoundsAssumption DEF TypeOK, Times
    <3>3. t \in Times
      BY ONLY <3>2, t \in 0 .. now DEF Times
    <3>. QED BY <3>1, <3>3
  <2>2. Within(p, t)
    BY <2>1 DEF IInv, OverrunInv
  <2>. QED BY <2>1, <2>2, BooksBelow
<1>. QED BY <1>1, BudgetsInvariance, PTL

\* Two windows of the meter meet in a stretch of one window's length, and no third, and
\* the older one's first request lies before it (budgets.rs:380-399): it lets through
\* less than twice the ceiling.
THEOREM RateHolds == Spec => []RateBounded
<1>1. IInv => RateBounded
  BY DEF IInv, MeterInv, Metering, RateBounded, Metered
<1>. QED BY <1>1, BudgetsInvariance, PTL

\* A refusal for the rate is owed to requests that did pass the meter, less than a
\* window before the refused one arrived or while it waited, whatever the window went
\* through since.
THEOREM RefusalsAreReal == Spec => NoFalseRefusal
<1>1. IInv => [\A r \in Requests :
                  RateLimited(r) =>
                      LET passed == {u \in Times : at[r] - Window < u /\ u <= now}
                      IN  SumIn(metered, passed) >= ceiling[r]]_vars
  BY RefusedForARate DEF IInv
<1>. QED BY <1>1, BudgetsInvariance, PTL DEF NoFalseRefusal

\* A key is warned once in a period (budgets.rs:455-483), whatever the lengths of the
\* periods and the number of requests, but for a stamp of a period that was over and
\* for warnings of two caps.
THEOREM WarnsOnce == Spec => WarnsOncePerPeriod
<1>1. ASSUME IInv, NEW r \in Requests, WarnOnce(r), InOrder',
             <<verdict[r], PeriodStart(verdict[r], at[r])>> \in warned
      PROVE  FALSE
  <2> DEFINE w == <<verdict[r], PeriodStart(verdict[r], at[r])>>
  <2>1. /\ PeriodStart(verdict[r], at[r]) = PeriodStart(verdict[r], now)
        /\ w[2] \in Int /\ w[2] < PeriodStart(verdict[r], now)
    <3>1. w \in warned
      BY <1>1
    <3>. HIDE DEF w
    <3>. QED BY <1>1, <3>1, StampIsNew
  <2>2. w[2] = PeriodStart(verdict[r], at[r])
    OBVIOUS
  <2>. HIDE DEF w
  <2>. QED BY <2>1, <2>2
<1>2. IInv => [\A r \in Requests :
          WarnOnce(r) /\ Confusions \cap seen' = {} =>
              <<verdict[r], PeriodStart(verdict[r], at[r])>> \notin warned]_vars
  BY <1>1 DEF InOrder
<1>. QED BY <1>2, BudgetsInvariance, PTL DEF WarnsOncePerPeriod

=============================================================================
