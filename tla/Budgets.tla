------------------------------- MODULE Budgets -------------------------------
(***************************************************************************)
(* Spend budgets and the request-rate ceiling of one API key,              *)
(* crates/heterion-router-gateway/src/budgets.rs over crates/heterion-     *)
(* router-db/src/budget_repos.rs: concurrent requests pass the middleware  *)
(* while an operator edits the key's budget, time goes on and the process  *)
(* restarts.                                                               *)
(*                                                                         *)
(* A request reads the clock and its ceiling, and then takes four locks in *)
(* turn: the meter's, the database's to judge, the database's again to     *)
(* stamp a warning, and after the upstream call the database's to book the *)
(* cost.  Another request, or an edit, may pass between any two of them.   *)
(*                                                                         *)
(* Money is whole units, the warning fraction a percentage.  The ledger is *)
(* read only through sums over the rows since some time, so it is kept as  *)
(* what was booked at each time.  The periods are windows that divide the  *)
(* time line as days, weeks and months do.  Authentication, paths that     *)
(* cannot bill and a gateway without a database never get here.  The row   *)
(* that a refusal leaves among the calls is in UsageBooks, and the first   *)
(* days of the real periods are at the end; the rate table's other keys    *)
(* and the wording are left out.  The wall clock does not go back.         *)
(***************************************************************************)
EXTENDS Integers, Sequences, FiniteSets, FiniteSetsExt

CONSTANTS
    Requests,       \* slots of the key's concurrent requests; one may be used again
    DayLength, WeekLength, MonthLength,
    Window,         \* RPM_WINDOW_SECS
    Scenes,         \* the key's domain_budgets row and its rate ceiling (0 for none)
                    \* at first, what an operator may PUT, and the spending at
                    \* which no call is answered with a cost any more: a bound
    Costs,          \* costs an answer may carry
    MaxTime         \* bound: the last time

ASSUME LengthsAssumption ==
    {DayLength, WeekLength, MonthLength, Window} \subseteq Nat \ {0}
ASSUME BoundsAssumption ==
    MaxTime \in Nat /\ Costs \subseteq Nat /\ \A s \in Scenes : s.spend \in Nat

\* So many requests are in hand at most, and an answer costs so much at most.
ASSUME FinitenessAssumption ==
    IsFiniteSet(Requests) /\ IsFiniteSet(Costs) /\ Costs # {}

Periods == {"daily", "weekly", "monthly"}

\* The order in which evaluate looks at the caps.
PeriodOrder == <<"daily", "weekly", "monthly">>

Length == [p \in Periods |-> CASE p = "daily" -> DayLength
                               [] p = "weekly" -> WeekLength
                               [] p = "monthly" -> MonthLength]

PeriodStart(p, t) == (t \div Length[p]) * Length[p]

Times == 0 .. MaxTime

\* No time, no field, no cap, no ceiling, no row, no window.
None == -1
Unlimited == 0

\* A row of domain_budgets, and what may be PUT.
Rows == [configured : BOOLEAN, limits : [Periods -> Int], percent : Int, stamp : Int]
Edits == [limits : [Periods -> Int], percent : Int, rpm : Nat \union {None}]

ASSUME ScenesAssumption ==
    \A s \in Scenes : s.row \in Rows /\ s.rpm \in Nat /\ s.bodies \subseteq Edits

NoRow == [configured |-> FALSE, limits |-> [p \in Periods |-> Unlimited],
          percent |-> 80, stamp |-> None]
NoWindow == [started |-> None, used |-> 0]

VARIABLES
    scene,      \* the one of Scenes that is played
    now,        \* the wall clock
    row,        \* the key's domain_budgets row; stamp is warning_period_start
    rpm,        \* its ceiling in key_value
    ledger,     \* Times -> cost booked at that time in domain_cost_history
    window,     \* the key's entry of RPM_WINDOWS, in memory
    pc,         \* where each request is
    at,         \* the clock it read on arrival
    ceiling,    \* the rate ceiling it read, until it has passed the meter
    verdict,    \* the period it is to be warned of, or "none"
    metered,    \* history: Times -> requests that passed the meter then
    warned,     \* history: <<period, start>> warned of since the last edit
    seen        \* history: what has happened that the properties except

vars ==
    <<scene, now, row, rpm, ledger, window, pc, at, ceiling, verdict, metered, warned, seen>>

\* What is kept of the requests in hand.
hands == <<pc, at, ceiling, verdict>>

Init ==
    /\ now = 0
    /\ scene \in Scenes
    /\ row = scene.row
    /\ rpm = scene.rpm
    /\ ledger = [t \in Times |-> 0]
    /\ window = NoWindow
    /\ pc = [r \in Requests |-> "idle"]
    /\ at = [r \in Requests |-> 0]
    /\ ceiling = [r \in Requests |-> 0]
    /\ verdict = [r \in Requests |-> "none"]
    /\ metered = [t \in Times |-> 0]
    /\ warned = {}
    /\ seen = {}

-----------------------------------------------------------------------------
(* Helpers *)

SumIn(f, times) == MapThenSumSet(LAMBDA u : f[u], times)
SumFrom(f, t) == SumIn(f, {u \in Times : u >= t})

\* What the key has spent in the period p that holds t.
Spent(p, t) == SumFrom(ledger, PeriodStart(p, t))

\* The warning threshold in force, in percent: clamped, with 1 for the smallest
\* positive fraction.
Fraction(percent) ==
    IF percent < 1 THEN 1 ELSE IF percent > 100 THEN 100 ELSE percent

\* A limit that is zero or below is none.
normalize_limit(value) == IF value > 0 THEN value ELSE Unlimited
limit_for(p) == normalize_limit(row.limits[p])

\* The periods that have a cap.
Caps == {p \in Periods : row.configured /\ limit_for(p) # Unlimited}

\* Mutated form: a key may spend up to and including its cap.
ReachedExclusive(p, t) == Spent(p, t) > limit_for(p)

Reached(p, t) == Spent(p, t) >= limit_for(p)

Near(p, t) == Spent(p, t) * 100 >= limit_for(p) * Fraction(row.percent)

BlockedAt(t) == \E p \in Caps : Reached(p, t)

\* The period to warn of: the first cap that is near.
WarningAt(t) ==
    LET near == {i \in DOMAIN PeriodOrder :
                    PeriodOrder[i] \in Caps /\ Near(PeriodOrder[i], t)}
    IN  IF near = {} THEN "none" ELSE PeriodOrder[Min(near)]

\* Mutated form: a new window keeps the old count.
RolledKeepsCount(w, t) ==
    IF w = NoWindow \/ t - w.started >= Window
    THEN [started |-> t, used |-> w.used]
    ELSE w

\* The window a request that arrived at t is counted in.
Rolled(w, t) ==
    IF w = NoWindow \/ t - w.started >= Window
    THEN [started |-> t, used |-> 0]
    ELSE w

-----------------------------------------------------------------------------
(* A request *)

\* The clock and the key's ceiling; one that cannot be read is none.
Arrives(r, limit) ==
    /\ pc[r] = "idle"
    /\ pc' = [pc EXCEPT ![r] = "meter"]
    /\ at' = [at EXCEPT ![r] = now]
    /\ ceiling' = [ceiling EXCEPT ![r] = limit]
    /\ UNCHANGED <<now, row, rpm, ledger, window, verdict, metered, warned>>

Arrive(r) == Arrives(r, rpm) /\ UNCHANGED seen

ArriveUnread(r) == rpm # 0 /\ Arrives(r, 0) /\ seen' = seen \union {"unread"}

\* The request is over.
Leave(r) ==
    /\ pc' = [pc EXCEPT ![r] = "idle"]
    /\ at' = [at EXCEPT ![r] = 0]
    /\ ceiling' = [ceiling EXCEPT ![r] = 0]
    /\ verdict' = [verdict EXCEPT ![r] = "none"]

\* The request is past the meter.
Pass(r) ==
    /\ pc' = [pc EXCEPT ![r] = "judge"]
    /\ ceiling' = [ceiling EXCEPT ![r] = 0]

Late(r) == IF at[r] = now THEN {} ELSE {"late"}

\* No ceiling: the window is not looked at.
PassUnmetered(r) ==
    /\ pc[r] = "meter" /\ ceiling[r] = 0
    /\ Pass(r)
    /\ UNCHANGED <<now, row, rpm, ledger, window, at, verdict, metered, warned, seen>>

\* Mutated form: the count is not taken.
TakeSlotUncounted(r) ==
    LET w == Rolled(window, at[r])
    IN  /\ pc[r] = "meter" /\ ceiling[r] # 0
        /\ w.used < ceiling[r]
        /\ window' = w
        /\ metered' = [metered EXCEPT ![now] = @ + 1]
        /\ seen' = seen \union Late(r)
        /\ Pass(r)
        /\ UNCHANGED <<now, row, rpm, ledger, at, verdict, warned>>

TakeSlot(r) ==
    LET w == Rolled(window, at[r])
    IN  /\ pc[r] = "meter" /\ ceiling[r] # 0
        /\ w.used < ceiling[r]
        /\ window' = [w EXCEPT !.used = @ + 1]
        /\ metered' = [metered EXCEPT ![now] = @ + 1]
        /\ seen' = seen \union Late(r)
        /\ Pass(r)
        /\ UNCHANGED <<now, row, rpm, ledger, at, verdict, warned>>

\* The window is full: 429 rate_limit_exceeded.
RateLimited(r) ==
    LET w == Rolled(window, at[r])
    IN  /\ pc[r] = "meter" /\ ceiling[r] # 0
        /\ w.used >= ceiling[r]
        /\ window' = w
        /\ Leave(r)
        /\ UNCHANGED <<now, row, rpm, ledger, metered, warned, seen>>

\* A request of another key finds too many windows and drops those that are over.
Prune ==
    /\ window # NoWindow /\ now - window.started >= Window
    /\ window' = NoWindow
    /\ seen' = seen \union {"pruned"}
    /\ UNCHANGED <<now, row, rpm, ledger, hands, metered, warned>>

\* A cap is reached: 429 budget_exceeded.
Block(r) ==
    /\ pc[r] = "judge" /\ BlockedAt(at[r])
    /\ Leave(r)
    /\ UNCHANGED <<now, row, rpm, ledger, window, metered, warned, seen>>

Allow(r) ==
    /\ pc[r] = "judge" /\ ~BlockedAt(at[r])
    /\ verdict' = [verdict EXCEPT ![r] = WarningAt(at[r])]
    /\ pc' = [pc EXCEPT ![r] = IF WarningAt(at[r]) = "none" THEN "serve" ELSE "warn"]
    /\ UNCHANGED <<now, row, rpm, ledger, window, at, ceiling, metered, warned, seen>>

\* The budget cannot be read: the request is served unbudgeted.
AllowUnread(r) ==
    /\ pc[r] = "judge"
    /\ pc' = [pc EXCEPT ![r] = "serve"]
    /\ seen' = seen \union {"unread"}
    /\ UNCHANGED <<now, row, rpm, ledger, window, at, ceiling, verdict, metered, warned>>

\* Mutated form: the stamp is not looked at again once the verdict is a warning.
MayStampAlways(r) == row.configured

\* The row is there, and its stamp does not name the period already.
MayStamp(r) ==
    row.configured /\ row.stamp # PeriodStart(verdict[r], at[r])

mark_warning_emitted(start) == row' = [row EXCEPT !.stamp = start]

\* How a warning confuses the one stamp: its period is over, and a later one may
\* have been stamped; or it is of another cap than one warned of before.
Confuses(r) ==
    (IF PeriodStart(verdict[r], at[r]) # PeriodStart(verdict[r], now)
     THEN {"overtaken"} ELSE {})
    \union (IF \E w \in warned : w[1] # verdict[r] THEN {"caps"} ELSE {})

WarnOnce(r) ==
    /\ pc[r] = "warn" /\ MayStamp(r)
    /\ mark_warning_emitted(PeriodStart(verdict[r], at[r]))
    /\ warned' = warned \union {<<verdict[r], PeriodStart(verdict[r], at[r])>>}
    /\ seen' = seen \union Confuses(r)
    /\ pc' = [pc EXCEPT ![r] = "serve"]
    /\ UNCHANGED <<now, rpm, ledger, window, at, ceiling, verdict, metered>>

\* The stamp cannot be read or written: the request is served without a warning.
StampFails(r) ==
    /\ pc[r] = "warn"
    /\ pc' = [pc EXCEPT ![r] = "serve"]
    /\ seen' = seen \union {"unread"}
    /\ UNCHANGED <<now, row, rpm, ledger, window, at, ceiling, verdict, metered, warned>>

NoWarning(r) ==
    /\ pc[r] = "warn" /\ ~MayStamp(r)
    /\ pc' = [pc EXCEPT ![r] = "serve"]
    /\ UNCHANGED <<now, row, rpm, ledger, window, at, ceiling, verdict, metered, warned, seen>>

\* The time a cost is booked at: when its request arrived.
BookedAt(r) == at[r]

\* A completion whose answer carries a cost.
Charge(r, cost) ==
    /\ pc[r] = "serve"
    /\ SumFrom(ledger, 0) < scene.spend
    /\ ledger' = [ledger EXCEPT ![BookedAt(r)] = @ + cost]
    /\ Leave(r)
    /\ UNCHANGED <<now, row, rpm, window, metered, warned, seen>>

\* An answer whose headers carry no cost (a stream's are sent before its usage is
\* known), an error, a cost that cannot be booked, or no answer: the client has
\* gone and the middleware's future with it.
ServeFree(r) ==
    /\ pc[r] = "serve"
    /\ Leave(r)
    /\ UNCHANGED <<now, row, rpm, ledger, window, metered, warned, seen>>

-----------------------------------------------------------------------------
(* The operator, the process and time *)

Field(given, kept) == IF given = None THEN kept ELSE given

\* What a read of the row may give: one that cannot be read is taken for none.
get_budget == {row, NoRow}

\* What is stored of a row.
upsert_budget(new) ==
    row' = [new EXCEPT !.configured = TRUE, !.percent = Fraction(@),
                       !.limits = [p \in Periods |-> normalize_limit(@[p])]]

\* What may be left of it.
delete_budget == row' \in {row, NoRow}

set_rpm_limit(limit) == rpm' = IF limit = None THEN 0 ELSE limit

\* PUT: absent limits stay and the stamp is cleared.
RowAfter(body, current) ==
    [current EXCEPT !.limits = [p \in Periods |-> Field(body.limits[p], @[p])],
                    !.percent = Field(body.percent, @),
                    !.stamp = None]

\* The history of warnings starts anew with an edit.
Confusions == {"overtaken", "caps"}
Forget ==
    /\ warned' = {}
    /\ seen' = (seen \ Confusions) \union {"edited"}

WriteRow(body) ==
    /\ \E current \in get_budget : upsert_budget(RowAfter(body, current))
    /\ Forget
    /\ UNCHANGED <<now, ledger, window, hands, metered>>

\* The ceiling becomes what the body says, or is cleared.
Upsert(body) == WriteRow(body) /\ set_rpm_limit(body.rpm)

\* The second of the two writes fails.
UpsertHalf(body) == WriteRow(body) /\ UNCHANGED rpm

\* DELETE: back to unlimited; either write may fail, and neither failure is told.
\* What was spent stays in the ledger.
Remove ==
    /\ scene.bodies # {}
    /\ delete_budget
    /\ set_rpm_limit(None) \/ UNCHANGED rpm
    /\ Forget
    /\ UNCHANGED <<now, ledger, window, hands, metered>>

\* The process ends and starts again, once: the database stays, the window and
\* the requests in hand do not.
Restart ==
    /\ "restarted" \notin seen
    /\ window' = NoWindow
    /\ pc' = [r \in Requests |-> "idle"]
    /\ at' = [r \in Requests |-> 0]
    /\ ceiling' = [r \in Requests |-> 0]
    /\ verdict' = [r \in Requests |-> "none"]
    /\ seen' = seen \union {"restarted"}
    /\ UNCHANGED <<now, row, rpm, ledger, metered, warned>>

Tick ==
    /\ now < MaxTime
    /\ now' = now + 1
    /\ UNCHANGED <<row, rpm, ledger, window, hands, metered, warned, seen>>

Act ==
    \/ \E r \in Requests :
          \/ Arrive(r) \/ ArriveUnread(r)
          \/ PassUnmetered(r) \/ TakeSlot(r) \/ RateLimited(r)
          \/ Block(r) \/ Allow(r) \/ AllowUnread(r)
          \/ WarnOnce(r) \/ StampFails(r) \/ NoWarning(r)
          \/ ServeFree(r) \/ \E cost \in Costs : Charge(r, cost)
    \/ \E body \in scene.bodies : Upsert(body) \/ UpsertHalf(body)
    \/ Remove
    \/ Prune \/ Restart \/ Tick

Next == Act /\ UNCHANGED scene

Spec == Init /\ [][Next]_vars

-----------------------------------------------------------------------------
(* Properties *)

TypeOK ==
    /\ scene \in Scenes
    /\ now \in Times
    /\ row \in Rows
    /\ rpm \in Nat
    /\ ledger \in [Times -> Nat]
    /\ window \in [started : Times \union {None}, used : Nat]
    /\ pc \in [Requests -> {"idle", "meter", "judge", "warn", "serve"}]
    /\ at \in [Requests -> Times] /\ \A r \in Requests : at[r] <= now
    /\ ceiling \in [Requests -> Nat]
    /\ verdict \in [Requests -> Periods \union {"none"}]
    /\ \A r \in Requests : pc[r] = "warn" => verdict[r] \in Periods
    /\ metered \in [Times -> Nat]
    /\ warned \subseteq Periods \X Int
    /\ seen \subseteq {"unread", "late", "pruned", "edited", "restarted"} \union Confusions

\* However many requests were judged before any of them was booked, a cap is
\* overrun by less than what the requests in hand at one time can cost: no
\* sequence of admissions, roll-overs or restarts adds up to more.  A budget that
\* could not be read, or was edited, is excepted.
OverrunBounded ==
    {"unread", "edited"} \cap seen = {} =>
        \A p \in Caps : \A t \in 0 .. now :
            LET inPeriod == {u \in Times : PeriodStart(p, u) = PeriodStart(p, t)}
            IN  SumIn(ledger, inPeriod) < row.limits[p] + Max(Costs) * Cardinality(Requests)

\* The times of a window's length from t on.
Stretch(t) == {u \in Times : t <= u /\ u < t + Window}

\* No stretch of a window's length lets through twice the ceiling: two windows may
\* meet in it, and the first request of the older one lies before.  Excepted are
\* requests metered later than they arrived, which may be counted in a window
\* that is over, and a window dropped, a ceiling edited or a process restarted.
RateBounded ==
    {"late", "pruned", "edited", "restarted"} \cap seen = {} /\ scene.rpm # 0 =>
        \A t \in Times : SumIn(metered, Stretch(t)) < 2 * scene.rpm

\* A request is refused for its key's rate only if that many requests of the key
\* really passed the meter: less than a window before it arrived, or while it
\* waited for its turn at the meter, where others may overtake it.  That holds
\* whatever roll-overs, prunings, edits and restarts there were.
NoFalseRefusal ==
    [][\A r \in Requests :
          RateLimited(r) =>
              LET passed == {u \in Times : at[r] - Window < u /\ u <= now}
              IN  SumIn(metered, passed) >= ceiling[r]]_vars

\* A key is warned at most once in a period, as budgets.rs:455 says, even if
\* several requests were judged due for a warning before the first of them stamped
\* it, or stamp it late; but for two cases the one stamp cannot tell, since the
\* last edit: a request stamped a period that was over by then, or the key was
\* warned of another of its caps.
WarnsOncePerPeriod ==
    [][\A r \in Requests :
          WarnOnce(r) /\ Confusions \cap seen' = {} =>
              <<verdict[r], PeriodStart(verdict[r], at[r])>> \notin warned]_vars

-----------------------------------------------------------------------------
(***************************************************************************)
(* The real periods: where a spending period starts, in UTC, over the days *)
(* since 1970-01-01.  Seconds and days are integers, of any sign.  Where   *)
(* the code corrects a division that truncates, \div rounds down already.  *)
(***************************************************************************)
SecondsOfDay == 86400

DayOf(time) == time \div SecondsOfDay

\* The day 0 was a Thursday; a week starts on a Monday.
Weekday(day) == (day + 3) % 7
week_start(day) == day - Weekday(day)

\* A year starts in March: the days before the month m of it, 0 for March.
BeforeMonth(m) == (153 * m + 2) \div 5
BeforeYear(y) == 365 * y + y \div 4 - y \div 100

days_from_civil(year, month, day) ==
    LET y == IF month <= 2 THEN year - 1 ELSE year
        era == y \div 400
        year_of_era == y - era * 400
        month_prime == IF month > 2 THEN month - 3 ELSE month + 9
    IN  era * 146097 + BeforeYear(year_of_era) + BeforeMonth(month_prime) + day - 1 - 719468

civil_from_days(days) ==
    LET shifted == days + 719468
        era == shifted \div 146097
        day_of_era == shifted - era * 146097
        year_of_era == (day_of_era - day_of_era \div 1460 + day_of_era \div 36524
                          - day_of_era \div 146096) \div 365
        day_of_year == day_of_era - BeforeYear(year_of_era)
        month_prime == (5 * day_of_year + 2) \div 153
        month == IF month_prime < 10 THEN month_prime + 3 ELSE month_prime - 9
    IN  [year |-> year_of_era + era * 400 + IF month <= 2 THEN 1 ELSE 0,
         month |-> month, day |-> day_of_year - BeforeMonth(month_prime) + 1]

month_start(day) ==
    LET civil == civil_from_days(day) IN days_from_civil(civil.year, civil.month, 1)

\* The first day of the period that holds a day.
FirstDay(period, day) ==
    CASE period = "daily" -> day
      [] period = "weekly" -> week_start(day)
      [] period = "monthly" -> month_start(day)

period_start(period, time) == FirstDay(period, DayOf(time)) * SecondsOfDay

=============================================================================
