-------------------------------- MODULE Query --------------------------------
(***************************************************************************)
(* The query engine of store/engine.go and its report functions as         *)
(* operators.  A time is the number of a wall-clock quarter hour (the id of *)
(* a row); days, weeks and months are blocks of them and months are equally *)
(* long.  A metering point has one block of values per row, consumers      *)
(* three (consumed, allocated, covered) and producers two (produced,       *)
(* surplus).                                                               *)
(***************************************************************************)
EXTENDS Integers, Sequences, FiniteSets, SequencesExt, TLC

CONSTANTS
    SlotsPerHour,   \* 4
    HoursPerDay,    \* 24
    DaysPerWeek,    \* 7
    DaysPerMonth,   \* 28 to 31
    MonthsPerYear,  \* 12
    Skipped         \* quarter hours of the hour skipped when summer time starts

SlotsPerDay   == SlotsPerHour * HoursPerDay
DayOf(s)      == s \div SlotsPerDay
Midnight(d)   == d * SlotsPerDay
HourOf(s)     == (s % SlotsPerDay) \div SlotsPerHour
WeekStart(d)  == d - (d % DaysPerWeek)
MonthStart(d) == d - ((d - 1) % DaysPerMonth)   \* day 1 is the first of a month

MinOf(S) == CHOOSE x \in S : \A y \in S : x <= y
MaxOf(S) == CHOOSE x \in S : \A y \in S : y <= x
Ascending(S) ==
    IF S = {} THEN <<>> ELSE SelectSeq([i \in 1 .. MaxOf(S) + 1 |-> i - 1], LAMBDA x : x \in S)

\* FoldLeft over the lines of a query.  (That of SequencesExt nests too deeply
\* for TLC; acc = acc makes TLC finish a step before the next one.)
OverLines(op(_, _), start, lines) ==
    LET RECURSIVE from(_, _)
        from(i, acc) == IF acc = acc /\ i > Len(lines) THEN acc ELSE from(i + 1, op(acc, lines[i]))
    IN  from(1, start)

WallTimeExists(s) == s \notin Skipped

\* Quarter hours that have passed at s; clocks skip an hour, time does not.
Elapsed(s) == s - Cardinality({k \in Skipped : k < s})

\* A row: blocks of values and the set of their qualities (L0 to L3) by SourceIdx
\* (counted from 1).  The arrays grow up to the highest index written, and the
\* qualities of a row may end before its values.
NoValue(dir) == IF dir = "con" THEN <<0, 0, 0>> ELSE <<0, 0>>
Plus(a, b)   == IF Len(a) = 2 THEN <<a[1] + b[1], a[2] + b[2]>> ELSE <<a[1] + b[1], a[2] + b[2], a[3] + b[3]>>
Total(blocks, dir) == FoldLeft(Plus, NoValue(dir), blocks)
Elm(blocks, i, dir) == IF i <= Len(blocks) THEN blocks[i] ELSE NoValue(dir)
AddBlocks(a, b, n, dir) == [i \in 1 .. n |-> Plus(Elm(a, i, dir), Elm(b, i, dir))]
BlocksOf(line, dir) == IF dir = "con" THEN line.con ELSE line.pro
QualityOf(line, dir) == IF dir = "con" THEN line.qcon ELSE line.qpro

CountOf(meta, dir) == Cardinality({m \in DOMAIN meta : meta[m].dir = dir})

\* A line of a gap, after its Copy, which sizes the qualities like the values.
MakeRawSourceLine(s, cons, prods) ==
    [at |-> s, con |-> [i \in 1 .. cons |-> NoValue("con")], pro |-> [i \in 1 .. prods |-> NoValue("pro")],
     qcon |-> [i \in 1 .. cons |-> {0}], qpro |-> [i \in 1 .. prods |-> {0}]]

\* DeepCopy: the blocks cut or filled up to n; the copy has no id.
DeepCopy(blocks, n, dir) == [i \in 1 .. n |-> Elm(blocks, i, dir)]

-----------------------------------------------------------------------------
(* Engine.Query.                                                           *)

\* GetLineRange from the day of start to the day of end.
GetLineRange(rows, start, end) ==
    [s \in {x \in DOMAIN rows : DayOf(x) \in DayOf(start) .. DayOf(end)} |-> rows[s]]

\* Mutant: the skipped hour is filled like a gap.
Gap_Skipped(from, to, cons, prods) ==
    LET S == (from + 1) .. (to - 1)
    IN  [i \in 1 .. Cardinality(S) |-> MakeRawSourceLine(Ascending(S)[i], cons, prods)]

\* The lines for the quarter hours between two rows.
Gap(from, to, cons, prods) ==
    LET S == {s \in (from + 1) .. (to - 1) : WallTimeExists(s)}
    IN  [i \in 1 .. Cardinality(S) |-> MakeRawSourceLine(Ascending(S)[i], cons, prods)]

\* The lines a consumer is given: the rows in order, gaps filled.
Lines(rows, cons, prods) ==
    LET line(s) == [at |-> s, con |-> rows[s].con, pro |-> rows[s].pro,
                    qcon |-> rows[s].qcon, qpro |-> rows[s].qpro]
        add(acc, s) == IF acc = <<>> THEN <<line(s)>>
                       ELSE acc \o Gap(Last(acc).at, s, cons, prods) \o <<line(s)>>
    IN  OverLines(add, <<>>, Ascending(DOMAIN rows))

-----------------------------------------------------------------------------
(* The cache of a report: rows are summed per bucket of time.              *)

NoStep   == [unit |-> "none", n |-> 0]
Hours(n) == [unit |-> "h", n |-> n]
Days(n)  == [unit |-> "d", n |-> n]

\* AddDuration goes on by time, AddDate by the calendar (from a midnight).
AddDuration(t, n) ==
    CHOOSE s \in t .. t + n + Cardinality(Skipped) : WallTimeExists(s) /\ Elapsed(s) = Elapsed(t) + n
AddDate(t, n) == t + n * SlotsPerDay
AddTs(step, t) == IF step.unit = "h" THEN AddDuration(t, step.n * SlotsPerHour) ELSE AddDate(t, step.n)

\* The bucket of ts, from the bucket t on; a step of 0 moves nothing.
RECURSIVE Advance(_, _, _)
Advance(step, t, ts) ==
    LET next == AddTs(step, t) IN IF ts < next \/ next <= t THEN t ELSE Advance(step, next, ts)

InitCache(t, meta) ==
    [time |-> t, id |-> FALSE, panic |-> FALSE, res |-> <<>>,
     con |-> DeepCopy(<<>>, CountOf(meta, "con"), "con"), pro |-> DeepCopy(<<>>, CountOf(meta, "pro"), "pro")]

\* addToCache indexes the cache with the row's indices.
addToCache(ca, line) ==
    IF Len(line.con) > Len(ca.con) \/ Len(line.pro) > Len(ca.pro) THEN [ca EXCEPT !.panic = TRUE]
    ELSE [ca EXCEPT !.id = TRUE,
                    !.con = AddBlocks(@, line.con, Len(@), "con"), !.pro = AddBlocks(@, line.pro, Len(@), "pro")]

\* CacheLine: AddTo(res, t, line) takes a finished bucket, or every row when
\* there is no step.
CacheLine(ca, line, step, AddTo(_, _, _)) ==
    IF ca.panic THEN ca
    ELSE IF step = NoStep THEN [ca EXCEPT !.res = AddTo(@, line.at, line)]
    ELSE IF line.at < AddTs(step, ca.time) THEN addToCache(ca, line)
    ELSE [ca EXCEPT !.res = AddTo(@, ca.time, ca), !.id = FALSE,
                    !.con = DeepCopy(line.con, Len(@), "con"), !.pro = DeepCopy(line.pro, Len(@), "pro"),
                    !.time = Advance(step, AddTs(step, @), line.at)]

Cached(lines, ca, step, AddTo(_, _, _)) ==
    LET add(c, line) == CacheLine(c, line, step, AddTo) IN OverLines(add, ca, lines)

-----------------------------------------------------------------------------
(* The report functions.                                                   *)

Done(v)          == [panic |-> FALSE, val |-> v]
Finished(ca, v)  == [panic |-> ca.panic, val |-> IF ca.panic THEN <<>> ELSE v]

\* LoadCurve, IntraDay, EnergySummary: addToResult sums all metering points.
Entry(res, key) == IF key \in DOMAIN res THEN res[key] ELSE [con |-> NoValue("con"), pro |-> NoValue("pro")]
SumUp(res, key, line) ==
    (key :> [con |-> Plus(Entry(res, key).con, Total(line.con, "con")),
             pro |-> Plus(Entry(res, key).pro, Total(line.pro, "pro"))]) @@ res

\* determineTimeShiftFunction, and where the first bucket begins.
determineTimeShiftFunction(start, end) ==
    CASE AddDate(start, 1) >= end -> NoStep
      [] AddDate(start, DaysPerMonth) >= end -> Days(1)
      [] AddDate(start, DaysPerMonth * (MonthsPerYear \div 2)) >= end -> Days(DaysPerWeek)
      [] AddDate(start, DaysPerMonth * MonthsPerYear) >= end -> Days(DaysPerMonth)
      [] OTHER -> NoStep
InitTs(step, d) ==
    CASE step = Days(DaysPerWeek) -> WeekStart(d) [] step = Days(DaysPerMonth) -> MonthStart(d) [] OTHER -> d

\* LoadCurve.HandleEnd leaves out a cache without id: nothing was added to it
\* since it was copied from the first row of its bucket.
LoadCurve(lines, meta, start, end) ==
    LET step == determineTimeShiftFunction(start, end)
        ca   == Cached(lines, InitCache(Midnight(InitTs(step, DayOf(lines[1].at))), meta), step, SumUp)
    IN  Finished(ca, IF ca.id THEN SumUp(ca.res, ca.time, ca) ELSE ca.res)

\* IntraDay: the cache begins in the hour of the first row.
IntraDay(lines, meta) ==
    LET add(res, t, line) == SumUp(res, HourOf(t), line)
        hour == lines[1].at - (lines[1].at % SlotsPerHour)
        ca   == Cached(lines, InitCache(hour, meta), Hours(1), add)
    IN  Finished(ca, add(ca.res, ca.time, ca))

\* EnergySummary sums everything but the surplus.
EnergySummary(lines) ==
    LET add(res, line) == SumUp(res, 0, line)
        sum == OverLines(add, <<>>, lines)
    IN  Done([k \in DOMAIN sum |-> [sum[k] EXCEPT !.pro[2] = 0]])

\* ParentFunction.addToResult: for every target its block of the line.
dedupTargets(cps) ==
    LET add(out, m) == IF Contains(out, m) THEN out ELSE Append(out, m) IN FoldLeft(add, <<>>, cps)
Known(cps, meta) == Range(dedupTargets(cps)) \cap DOMAIN meta
AddTargets(res, t, line, cps, meta) ==
    Append(res, [m \in Known(cps, meta) |-> [ts |-> t, value |-> Elm(BlocksOf(line, meta[m].dir), meta[m].idx, meta[m].dir)]])
PerTarget(res, cps, meta) == [m \in Known(cps, meta) |-> [i \in DOMAIN res |-> res[i][m]]]

\* RawDataEngine: DefaultFunction without "f", otherwise Aggregate over steps of
\* at least a quarter hour; its cache begins with the day of the first row.
DefaultFunction(lines, cps, meta) ==
    LET add(res, line) == AddTargets(res, line.at, line, cps, meta) IN Done(PerTarget(OverLines(add, <<>>, lines), cps, meta))
Aggregate(lines, cps, meta, step) ==
    LET add(res, t, line) == AddTargets(res, t, line, cps, meta)
        ca == Cached(lines, InitCache(Midnight(DayOf(lines[1].at)), meta), step, add)
    IN  Finished(ca, PerTarget(add(ca.res, ca.time, ca), cps, meta))

\* CombinedConsumers: the known reports of the request over one pass.
Report(name, lines, meta, start, end) ==
    CASE name = "loadcurve" -> LoadCurve(lines, meta, start, end)
      [] name = "intraday"  -> IntraDay(lines, meta)
      [] name = "summary"   -> EnergySummary(lines)
determineReportFunctions(names) == names \cap {"loadcurve", "intraday", "summary"}
CombinedReports(names, lines, meta, start, end) ==
    LET res == [n \in determineReportFunctions(names) |-> Report(n, lines, meta, start, end)]
    IN  [panic |-> \E n \in DOMAIN res : res[n].panic, val |-> [n \in DOMAIN res |-> res[n].val]]

=============================================================================
