----------------------------- MODULE UsageLedger -----------------------------
(***************************************************************************)
(* Usage accounting (internal/repository/usage.go, internal/service/       *)
(* stats.go and data_retention.go): the tables that the recording          *)
(* goroutines of LLM calls write, the reports that the console reads from  *)
(* them, and the cleaner that deletes old rows.  Tables are bags of rows.  *)
(***************************************************************************)
EXTENDS Integers, Bags, FiniteSetsExt

CONSTANTS User, Department,
          NoDepartment,
          DepartmentOf, \* department of each user
          KeyOf,        \* api key that each user calls with
          WeekLength, MonthLength, \* days of a week and of a month
          Window,       \* days that a report of a period goes back by default
          RetentionDays, \* age at which rows are deleted
          FirstDay, MaxDay, \* bound: dates at which the run begins and ends
          Leaving,      \* bound: users that are deleted
          None          \* a date that a request does not name

ASSUME LedgerAssumption ==
  /\ IsFiniteSet(User)
  /\ DepartmentOf \in [User -> Department \cup {NoDepartment}]
  /\ DOMAIN KeyOf = User /\ \A u, v \in User : KeyOf[u] = KeyOf[v] => u = v
  /\ WeekLength \in Nat \ {0} /\ MonthLength \in Nat \ {0}
  /\ Window \in [{"daily", "weekly", "monthly"} -> Nat]
  /\ Window["weekly"] >= WeekLength - 1 /\ Window["monthly"] >= MonthLength - 1
  /\ RetentionDays \in Nat \ {0}
  /\ FirstDay \in Nat \ {0} /\ MaxDay \in Nat /\ FirstDay <= MaxDay
  /\ Leaving \subseteq User /\ None \notin Nat

VARIABLES
  today,      \* the date in Asia/Shanghai
  live,       \* users without deleted_at
  tokenUsage, \* token_usage
  daily,      \* token_usage_daily: per user and date
  dailyKey,   \* token_usage_daily_key: per key and date
  cycle,      \* tokens that the current cycle of a user's quota counts (QuotaCycle)
  thirdParty, \* third_party_token_usage
  logs        \* request_logs

tables == <<live, tokenUsage, daily, dailyKey, cycle, thirdParty, logs>>

Day    == FirstDay..MaxDay
Key    == {KeyOf[u] : u \in User}
Period == {"daily", "weekly", "monthly"}

\* A summary row; a date without a row and one of zeros are the same to every report.
Zero        == [tokens |-> 0, requests |-> 0]
Plus(a, b)  == [tokens |-> a.tokens + b.tokens, requests |-> a.requests + b.requests]
SumOf(f, S)  == FoldFunctionOnSet(Plus, Zero, f, S)
Total(f)     == SumOf(f, DOMAIN f)

Insert(table, row) == table (+) SetToBag({row})

LedgerInit ==
  /\ today = FirstDay /\ live = User
  /\ tokenUsage = EmptyBag /\ thirdParty = EmptyBag /\ logs = EmptyBag
  /\ daily = [u \in User |-> [d \in Day |-> Zero]]
  /\ dailyKey = [k \in Key |-> [d \in Day |-> Zero]]
  /\ cycle = [u \in User |-> 0]

-----------------------------------------------------------------------------
(***************************************************************************)
(* Writes.  The date of a row is that of its INSERT, the date of a summary *)
(* the one RecordUsage read when it began.                                 *)
(***************************************************************************)
CreateUsage(u, tokens) ==
  tokenUsage' = Insert(tokenUsage, [user |-> u, tokens |-> tokens, day |-> today])

\* INSERT, or on conflict add to the row of the user and date.
UpsertDaily(u, date, tokens) ==
  daily' = [daily EXCEPT ![u][date] = Plus(@, [tokens |-> tokens, requests |-> 1])]

UpsertDailyKey(k, date, tokens) ==
  dailyKey' = [dailyKey EXCEPT ![k][date] = Plus(@, [tokens |-> tokens, requests |-> 1])]

\* RecordCycleUsage adds to the cycle or begins one, which forgets what was counted, also
\* what another recording adds at that moment (QuotaCycle has the steps).
RecordCycleUsage(u, tokens) ==
  \E counted \in {cycle[u] + tokens, tokens} : cycle' = [cycle EXCEPT ![u] = counted]

\* RecordThirdPartyUsage: a row also when the usage is not known.
RecordThirdPartyUsage(u, tokens) ==
  /\ thirdParty' = Insert(thirdParty, [user |-> u, tokens |-> tokens, day |-> today])
  /\ UNCHANGED <<live, tokenUsage, daily, dailyKey, cycle, logs>>

\* RecordRequestLog.
CreateRequestLog(call, requestType, status) ==
  /\ logs' = Insert(logs, [call |-> call, type |-> requestType, status |-> status,
                           day |-> today])
  /\ UNCHANGED <<live, tokenUsage, daily, dailyKey, cycle, thirdParty>>

\* The user keeps its rows and its department.
DeleteUser(u) ==
  /\ u \in live \cap Leaving
  /\ live' = live \ {u}
  /\ UNCHANGED <<today, tokenUsage, daily, dailyKey, cycle, thirdParty, logs>>

\* timezone.Now and CURRENT_TIMESTAMP reach the next date.
Midnight ==
  /\ today < MaxDay
  /\ today' = today + 1
  /\ UNCHANGED tables

\* DeleteOldUsageRecords and DeleteOldRequestLogs: what is left of a table.  A row as many
\* days old as is kept may be younger by the clock, and a batch can fail.
Kept(table) ==
  LET old == {row \in DOMAIN table : row.day <= today - RetentionDays}
  IN  {[row \in DOMAIN table \ gone |-> table[row]] : gone \in SUBSET old}

cleanup ==
  /\ tokenUsage' \in Kept(tokenUsage)
  /\ logs' \in Kept(logs)
  /\ <<tokenUsage', logs'>> # <<tokenUsage, logs>>
  /\ UNCHANGED <<today, live, daily, dailyKey, cycle, thirdParty>>

-----------------------------------------------------------------------------
(***************************************************************************)
(* Reports                                                                 *)
(***************************************************************************)

\* DATE_TRUNC: the first day of the period of d.
Trunc(period, d) ==
  CASE period = "daily"   -> d
    [] period = "weekly"  -> d - ((d - 1) % WeekLength)
    [] period = "monthly" -> d - ((d - 1) % MonthLength)

\* The summary of each user and date.
Summary == [p \in User \X Day |-> daily[p[1]][p[2]]]

\* parseDateRange: the days from start to end, by default those of a window that ends today.
parseDateRange(start, end, period) ==
  (IF start = None THEN today - Window[period] ELSE start)..(IF end = None THEN today ELSE end)

\* Rows grouped by date: GetDailyStats, GetWeeklyStats and GetMonthlyStats over the days
\* of the range that have a summary ...
PlatformStats(period, users, range) ==
  LET days == {d \in Day \cap range : \E u \in users : daily[u][d] # Zero}
      Of(date) == SumOf(Summary, users \X {d \in days : Trunc(period, d) = date})
  IN  [date \in {Trunc(period, d) : d \in days} |-> Of(date)]

\* The third-party rows of some users and days, and what each row says.
RowsIn(users, days) == {row \in DOMAIN thirdParty : row.user \in users /\ row.day \in days}
RowTotal ==
  [row \in DOMAIN thirdParty |->
     [tokens |-> thirdParty[row] * row.tokens, requests |-> thirdParty[row]]]

\* ... and getThirdPartyStats over the rows.
ThirdPartyStats(period, users, range) ==
  LET rows == RowsIn(users, range)
      Of(date) == SumOf(RowTotal, {row \in rows : Trunc(period, row.day) = date})
  IN  [date \in {Trunc(period, row.day) : row \in rows} |-> Of(date)]

At(stats, date) == IF date \in DOMAIN stats THEN stats[date] ELSE Zero

\* Seeded fault: third-party usage is added to the platform's dates only.
mergeUsageStatsPlatformDates(platform, tp) ==
  [date \in DOMAIN platform |-> [platform |-> platform[date], thirdParty |-> At(tp, date)]]

\* mergeUsageStats: an item for every date that either has.
mergeUsageStats(platform, tp) ==
  [date \in DOMAIN platform \cup DOMAIN tp |->
     [platform |-> At(platform, date), thirdParty |-> At(tp, date)]]

\* The live users of a department; a department that is not given is no filter.
Members(department) ==
  {u \in User : department = NoDepartment \/ (u \in live /\ DepartmentOf[u] = department)}

\* GetUsageStats for an operator: the users it covers are all, those of the manager's
\* department, or the operator alone.
Scope(role, operator) ==
  CASE role = "super_admin"  -> User
    [] role = "dept_manager" -> Members(DepartmentOf[operator])
    [] role = "user"         -> {operator}

GetUsageStats(period, role, operator, start, end) ==
  LET range == parseDateRange(start, end, period)  users == Scope(role, operator) IN
  mergeUsageStats(PlatformStats(period, users, range), ThirdPartyStats(period, users, range))

\* GetOverview: a user sees its own numbers, every other role those of all.  Today and this
\* month are read from the summaries and from the third-party rows, each by a query.
GetOverview(role, operator) ==
  LET users == IF role = "user" THEN {operator} ELSE User
      month == {d \in Day : Trunc("monthly", d) = Trunc("monthly", today)}
      Of(days) == [platform   |-> SumOf(Summary, users \X days),
                   thirdParty |-> SumOf(RowTotal, RowsIn(users, days))]
  IN  [today |-> Of({today}), thisMonth |-> Of(month)]

\* ExportUsageStats: the summaries row by row, of users that are not deleted.
ExportUsageStats(period, role, operator, start, end) ==
  LET days == Day \cap parseDateRange(start, end, period) IN
  {[user |-> p[1], date |-> p[2], usage |-> Summary[p]] :
     p \in {q \in (Scope(role, operator) \cap live) \X days : Summary[q] # Zero}}

\* Seeded fault: the first day of the week by the weekday as Go numbers it, Sunday 0.
getPeriodRangeSunday(period) ==
  CASE period = "daily"   -> today
    [] period = "weekly"  -> today - ((today % WeekLength) - 1)
    [] period = "monthly" -> today - ((today - 1) % MonthLength)

\* getPeriodRange: the first day of the current period, where Sunday is the last weekday.
getPeriodRange(period) ==
  LET weekday == IF today % WeekLength = 0 THEN WeekLength ELSE today % WeekLength IN
  CASE period = "daily"   -> today
    [] period = "weekly"  -> today - (weekday - 1)
    [] period = "monthly" -> today - ((today - 1) % MonthLength)

\* ORDER BY total_tokens DESC and LIMIT: the rows that may be left, ties in any order.
Limited(rows, limit) ==
  {[x \in top |-> rows[x]] : top \in
     {S \in SUBSET DOMAIN rows :
        /\ Cardinality(S) <= limit
        /\ S # DOMAIN rows => Cardinality(S) = limit
        /\ \A x \in S, y \in DOMAIN rows \ S : rows[x].tokens >= rows[y].tokens}}

\* GetRanking: live users, of a department or of all, and departments by the usage of their
\* live users, from the beginning of the period until now.
GetUserRanking(period, department, limit) ==
  LET days == Day \cap (getPeriodRange(period)..today)
      ranked == {u \in Members(department) \cap live : \E d \in days : daily[u][d] # Zero}
  IN  Limited([u \in ranked |-> SumOf(daily[u], days)], limit)

GetDeptRanking(period, limit) ==
  LET days == Day \cap (getPeriodRange(period)..today)
      active == {u \in live : \E d \in days : daily[u][d] # Zero}
      ranked == {DepartmentOf[u] : u \in active} \ {NoDepartment}
  IN  Limited([dep \in ranked |-> SumOf(Summary, Members(dep) \X days)], limit)

\* GetKeyUsageSummary and GetThirdPartyKeyUsageSummary, added up by mergeKeyUsageStats; the
\* request's period is not looked at.
GetKeyUsageSummary(role, operator, start, end) ==
  LET range == parseDateRange(start, end, "daily") IN
  [k \in {KeyOf[u] : u \in Scope(role, operator)} |->
     Plus(SumOf(dailyKey[k], Day \cap range),
          SumOf(RowTotal, {row \in DOMAIN thirdParty : KeyOf[row.user] = k /\ row.day \in range}))]
=============================================================================
