-------------------------------- MODULE Energy -------------------------------
(***************************************************************************)
(* The energy report of calculation/ (EEGCalculationV2.go, timeWindows.go, *)
(* energy.go): per requested metering point the sums of a period, its      *)
(* parts (days, weeks or months) and, with time windows, the billing       *)
(* quantity per window.  A requested meter is [m, from, until, wins], a    *)
(* time window [key, from, to] in quarter hours of the day.  The values    *)
(* are whole numbers: rounding to 6 digits is left out.                    *)
(***************************************************************************)
EXTENDS Billing

\* ValidateTimeWindows and parseTimeWindow.
ValidateTimeWindows(meters) ==
    \A i \in DOMAIN meters : LET ws == meters[i].wins IN
        /\ Len(ws) <= 2
        /\ \A j, k \in DOMAIN ws : ws[j].key = ws[k].key => j = k
        /\ \A j \in DOMAIN ws : /\ ws[j].key \in {"T1", "T2"} /\ ws[j].from # ws[j].to
                                /\ {ws[j].from, ws[j].to} \subseteq 0 .. SlotsPerDay - 1

\* contains: from inclusive, to exclusive, over midnight if from > to.
contains(w, q) == IF w.from < w.to THEN w.from <= q /\ q < w.to ELSE w.from <= q \/ q < w.to

\* distinctWindowRanges over all requested meters.
distinctWindowRanges(meters) ==
    UNION {{[from |-> w.from, to |-> w.to] : w \in Range(meters[i].wins)} : i \in DOMAIN meters}

-----------------------------------------------------------------------------
(* Periods: one year of months.                                            *)

MonthOf(d) == (d - 1) \div DaysPerMonth + 1
WeeksPerYear == (DaysPerMonth * MonthsPerYear) \div DaysPerWeek
WeekOf(d) == (d \div DaysPerWeek) % WeeksPerYear

\* The months of a segment: GetLinePrefix of a month or the year, GetLineRange
\* of a half year or a quarter.
MonthsOf(period) ==
    CASE period.code = "YM" -> {period.segment}
      [] period.code = "YH" -> LET n == MonthsPerYear \div 2
                               IN  (period.segment - 1) * n + 1 .. period.segment * n
      [] period.code = "YQ" -> LET n == MonthsPerYear \div 4
                               IN  (period.segment - 1) * n + 1 .. period.segment * n
      [] OTHER -> 1 .. MonthsPerYear
RowsOf(rows, period) == {s \in DOMAIN rows : MonthOf(DayOf(s)) \in MonthsOf(period)}
StartDay(period) == MinOf(MonthsOf(period)) * DaysPerMonth - DaysPerMonth + 1

\* switchIntermediate: the part of the period that a day belongs to.  The first
\* week counts as week 1, and so does the second.
switchIntermediate(period, d) ==
    CASE period.code = "YM" -> d - MonthStart(d) + 1
      [] period.code = "YH" -> Max2((WeekOf(d) - WeekOf(StartDay(period))) % (WeeksPerYear + 1), 1)
      [] period.code = "YQ" -> Max2((WeekOf(d) - WeekOf(StartDay(period))) % WeeksPerYear, 1)
      [] OTHER -> MonthOf(d)

\* PeriodToStartEndTime: the first and the last day, or no period.
PeriodExists(period) ==
    CASE period.code = "YM" -> period.segment \in 1 .. MonthsPerYear
      [] period.code = "YQ" -> period.segment \in 1 .. 4
      [] period.code = "YH" -> period.segment \in 1 .. 2
      [] period.code = "Y" -> period.segment = 0
      [] OTHER -> FALSE
PeriodStart(period) == Midnight(StartDay(period))
PeriodEnd(period)   == Midnight(StartDay(period) + Cardinality(MonthsOf(period)) * DaysPerMonth - 1)

-----------------------------------------------------------------------------
(* Sums of a day.                                                          *)

\* newCalcResult, and appendResults: Matrix.Add grows to the wider matrix.
newCalcResult(meta) == [con |-> DeepCopy(<<>>, CountOf(meta, "con"), "con"),
                        pro |-> DeepCopy(<<>>, CountOf(meta, "pro"), "pro")]
MatrixAdd(a, b, dir) == AddBlocks(a, b, Max2(Len(a), Len(b)), dir)
appendResults(sum, row) == [con |-> MatrixAdd(sum.con, row.con, "con"), pro |-> MatrixAdd(sum.pro, row.pro, "pro")]

\* The billing quantity: utilization, or production less allocation.
Quantity(v, dir) == IF dir = "con" THEN v[3] ELSE v[1] - v[2]

\* The day counts for a meter from the midnight of its first day until the
\* midnight of its last one; the time of a day is that of its first row.
Gated(m, time) == Midnight(DayOf(m.from)) <= time /\ time <= Midnight(DayOf(m.until))

\* EnsureIntermediatValueSlice and the sum of one part.
AddPart(parts, i, v, dir) ==
    LET all == DeepCopy(parts, Max2(Len(parts), i), dir) IN [all EXCEPT ![i] = Plus(@, v)]

\* Mutant: the quantity of a day replaces what the days before it had.
appendBuckets_Replace(bucket, m, wins, meta) ==
    LET dir == meta[m.m].dir
        sum(w) == Quantity(Elm(BlocksOf(wins[[from |-> w.from, to |-> w.to]], dir), meta[m.m].idx, dir), dir)
        hit(k) == {w \in Range(m.wins) : w.key = k /\ [from |-> w.from, to |-> w.to] \in DOMAIN wins}
    IN  [k \in DOMAIN bucket |-> IF hit(k) = {} THEN bucket[k] ELSE sum(CHOOSE w \in hit(k) : TRUE)]

\* appendBucketsToParticipantMeter for one meter: the sums of its windows.
appendBuckets(bucket, m, wins, meta) ==
    LET dir == meta[m.m].dir
        sum(w) == Quantity(Elm(BlocksOf(wins[[from |-> w.from, to |-> w.to]], dir), meta[m.m].idx, dir), dir)
        hit(k) == {w \in Range(m.wins) : w.key = k /\ [from |-> w.from, to |-> w.to] \in DOMAIN wins}
    IN  [k \in DOMAIN bucket |-> IF hit(k) = {} THEN bucket[k] ELSE bucket[k] + sum(CHOOSE w \in hit(k) : TRUE)]

\* appendEnergyToParticipantMeter and the buckets for one meter.
AppendMeter(r, m, day, sum, wins, meta, period) ==
    IF m.m \notin DOMAIN meta \/ ~Gated(m, day) THEN r
    ELSE LET dir == meta[m.m].dir
             v   == Elm(BlocksOf(sum, dir), meta[m.m].idx, dir)
         IN  [sum    |-> Plus(IF r.sum = <<>> THEN NoValue(dir) ELSE r.sum, v),
              parts  |-> AddPart(r.parts, switchIntermediate(period, DayOf(day)), v, dir),
              bucket |-> appendBuckets(r.bucket, m, wins, meta)]

\* dayCb: a finished day is added to the meters.
dayCb(st, meters, meta, period) ==
    [st EXCEPT !.rep = [i \in DOMAIN @ |-> AppendMeter(@[i], meters[i], st.day, st.sum, st.wins, meta, period)]]

\* calcDailyScope: the sums of the day and of every window with a row in it.
AddRow(st, s, row, meters, meta, period) ==
    LET cur == IF DayOf(s) = DayOf(st.day) THEN st
               ELSE [dayCb(st, meters, meta, period) EXCEPT !.day = s, !.sum = newCalcResult(meta), !.wins = <<>>]
        hit == {w \in distinctWindowRanges(meters) : contains(w, s % SlotsPerDay)}
        sum(w) == IF w \in DOMAIN cur.wins THEN cur.wins[w] ELSE newCalcResult(meta)
    IN  [cur EXCEPT !.sum = appendResults(@, row),
                    !.wins = [w \in DOMAIN @ \cup hit |-> IF w \in hit THEN appendResults(sum(w), row) ELSE @[w]]]

\* buildBuckets: BASE is what the windows leave of the total.
buildBuckets(r, m, meta) ==
    LET total == IF r.sum = <<>> THEN 0 ELSE Quantity(r.sum, meta[m.m].dir)
        add(n, w) == n + r.bucket[w.key]
    IN  IF m.wins = <<>> THEN <<>> ELSE ("BASE" :> total - FoldLeft(add, 0, m.wins)) @@ r.bucket

\* calcParticipantReport over the rows of the period.
EnergyReport(meters, rows, meta, period) ==
    LET new(m) == [sum |-> <<>>, parts |-> <<>>, bucket |-> [k \in {w.key : w \in Range(m.wins)} |-> 0]]
        add(st, s) == AddRow(st, s, rows[s], meters, meta, period)
        init == [day |-> PeriodStart(period), sum |-> newCalcResult(meta), wins |-> <<>>,
                 rep |-> [i \in DOMAIN meters |-> new(meters[i])]]
        rep  == dayCb(OverLines(add, init, Ascending(RowsOf(rows, period))), meters, meta, period).rep
    IN  [i \in DOMAIN meters |-> [sum |-> rep[i].sum, parts |-> rep[i].parts, buckets |-> buildBuckets(rep[i], meters[i], meta)]]

\* TotalConsumption and TotalProduction.
TotalOf(report, meters, meta, dir) ==
    LET add(n, i) == IF report[i].sum = <<>> \/ meta[meters[i].m].dir # dir THEN n ELSE n + report[i].sum[1]
    IN  FoldLeft(add, 0, [i \in DOMAIN meters |-> i])

=============================================================================
