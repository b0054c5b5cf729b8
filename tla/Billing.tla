------------------------------- MODULE Billing -------------------------------
(***************************************************************************)
(* The billing check (store/billingcheck_function.go) and the Excel export *)
(* (excel/EnergyExport.go, SummarySheet.go, EnergySheet.go) as operators   *)
(* over the lines of Query.  A requested entry is [m, dir, from, until]:   *)
(* metering point, direction, activeSince and inactiveSince, 0 for none.   *)
(***************************************************************************)
EXTENDS Query

Min2(a, b) == IF a < b THEN a ELSE b
Max2(a, b) == IF a > b THEN a ELSE b

-----------------------------------------------------------------------------
(* Billing check.                                                          *)

\* Validate: the period, at most a year; directions are known.
Validate(req, maxDays) ==
    /\ req.start > 0 /\ req.start <= req.end
    /\ req.end - req.start <= maxDays * SlotsPerDay
    /\ \A i \in DOMAIN req.cps : req.cps[i].dir \in {"con", "pro"}

quarterHoursOnDay(d) == Cardinality({s \in Midnight(d) .. Midnight(d + 1) - 1 : WallTimeExists(s)})

\* HandleStart: an entry counts if its metering point is known with its direction.
Resolved(cp, meta) == cp.m \in DOMAIN meta /\ meta[cp.m].dir = cp.dir
ActiveFrom(cp)     == Midnight(DayOf(cp.from))
ActiveTo(cp)       == IF cp.until > 0 THEN Midnight(DayOf(cp.until) + 1) - 1 ELSE -1

\* slotQuality: no value is L0, a value without a quality counts as L1.
slotQuality(line, i, dir) ==
    CASE i > Len(BlocksOf(line, dir)) -> {0}
      [] i > Len(QualityOf(line, dir)) -> {1}
      [] OTHER -> QualityOf(line, dir)[i]

\* HandleLine for one entry.  present counts the quarter hours of a day.
CheckLine(e, line, cp, idx) ==
    LET q   == slotQuality(line, idx, cp.dir)
        day == DayOf(line.at)
        seen == IF q = {0} THEN e
                ELSE [e EXCEPT !.first = IF @ = 0 THEN line.at ELSE @, !.last = line.at,
                               !.present = IF day \in DOMAIN @ THEN [@ EXCEPT ![day] = @ + 1] ELSE @]
    IN  IF line.at < ActiveFrom(cp) \/ (cp.until > 0 /\ line.at > ActiveTo(cp)) THEN e
        ELSE IF 3 \notin q THEN seen
        ELSE [seen EXCEPT !.l3 = @ + 1, !.l3days = IF @ # <<>> /\ Last(@) = day THEN @ ELSE Append(@, day)]

\* countMissing: per day of the active part of the period, the quarter hours
\* without a value.
countMissing(e, cp, req) ==
    LET from == IF cp.from > 0 THEN Max2(DayOf(req.start), DayOf(cp.from)) ELSE DayOf(req.start)
        to   == IF cp.until > 0 THEN Min2(DayOf(req.end), DayOf(cp.until)) ELSE DayOf(req.end)
        short(d) == quarterHoursOnDay(d) - e.present[d]
        bad  == Ascending({d \in from .. to : short(d) > 0})
        add(n, d) == n + short(d)
    IN  [first |-> e.first, last |-> e.last, l3 |-> e.l3, l3days |-> e.l3days,
         missing |-> FoldLeft(add, 0, bad), missingDays |-> IF e.first = 0 THEN <<>> ELSE bad]

\* QueryBillingCheck: the totals of the community and a result per entry, also
\* without rows.
BillingCheck(req, lines, meta) ==
    LET new  == [first |-> 0, last |-> 0, l3 |-> 0, l3days |-> <<>>,
                 present |-> [d \in DayOf(req.start) .. DayOf(req.end) |-> 0]]
        entry(cp) == LET add(e, line) == CheckLine(e, line, cp, meta[cp.m].idx)
                     IN  IF Resolved(cp, meta) THEN OverLines(add, new, lines) ELSE new
        sum(t, line) == [con |-> Plus(t.con, Total(line.con, "con")), pro |-> Plus(t.pro, Total(line.pro, "pro"))]
    IN  Done([meters |-> [i \in DOMAIN req.cps |-> countMissing(entry(req.cps[i]), req.cps[i], req)],
              totals |-> OverLines(sum, [con |-> NoValue("con"), pro |-> NoValue("pro")], lines)])

-----------------------------------------------------------------------------
(* Excel export.                                                           *)

\* IsLineDateOutOfRange: inactiveSince plus 23:59 hours of time; without an end
\* (0) every row lies behind it.
IsLineDateOutOfRange(s, cp) ==
    s < cp.from \/ cp.until = 0 \/ s > AddDuration(cp.until, SlotsPerDay - 1)

\* createRunnerContext: the requested metering points that are known, the
\* consumers before the producers (orderedCps).
Exported(cps, meta) ==
    LET of(dir) == SelectSeq(cps, LAMBDA cp : cp.m \in DOMAIN meta /\ cp.dir = dir) IN of("con") \o of("pro")
ExportCount(cps, meta, dir) == Len(SelectSeq(Exported(cps, meta), LAMBDA cp : cp.dir = dir))

\* addHeaderV2: the metering point and the value that heads each column, placed
\* by the direction in the record, where the lines go by the requested one.
Width(dir) == Len(NoValue(dir))
addHeaderV2(known, meta) ==
    LET dir(i)  == meta[known[i].m].dir
        n(d)    == Len(SelectSeq(known, LAMBDA cp : cp.dir = d)) * Width(d)
        base(i) == (IF dir(i) = "con" THEN 0 ELSE n("con")) + Width(dir(i)) * Cardinality({j \in 1 .. i - 1 : dir(j) = dir(i)})
        heads(c) == {i \in DOMAIN known : c \in base(i) + 1 .. base(i) + Width(dir(i))}
    IN  [c \in 1 .. n("con") + n("pro") |->
            IF heads(c) = {} THEN <<>> ELSE <<known[MaxOf(heads(c))].m, c - base(MaxOf(heads(c)))>>]

\* initSheet of the energy sheet: the period in the header, as days, is that of
\* the data within the requested one.
initSheet(known, meta, start, end) ==
    [i \in DOMAIN known |->
        [from |-> DayOf(IF meta[known[i].m].start > start THEN meta[known[i].m].start ELSE start),
         to   |-> DayOf(IF meta[known[i].m].end < end THEN meta[known[i].m].end ELSE end)]]

\* handleParticipantReport: sums and, if the qualities of the line reach the
\* metering point, how many quarter hours of which days are L0, L2 and L3.
SummaryLine(p, line, cp, idx) ==
    IF IsLineDateOutOfRange(line.at, cp) THEN p
    ELSE LET sum == [p EXCEPT !.sum = Plus(@, Elm(BlocksOf(line, cp.dir), idx, cp.dir))]
             qs  == QualityOf(line, cp.dir)
             day == DayOf(line.at)
         IN  IF idx > Len(qs) THEN sum
             ELSE [sum EXCEPT !.ok = @ /\ qs[idx] \subseteq {1, 2},
                              !.count = [l \in DOMAIN @ |-> IF l \in qs[idx] THEN @[l] + 1 ELSE @[l]],
                              !.days = [l \in DOMAIN @ |-> IF l \notin qs[idx] \/ (@[l] # <<>> /\ Last(@[l]) = day)
                                                          THEN @[l] ELSE Append(@[l], day)]]

\* addLine: the columns of a metering point in a line with its qualities (L0 is
\* shown grey); none outside its time.
Cell(line, cp, idx) ==
    LET qs == QualityOf(line, cp.dir)
    IN  IF IsLineDateOutOfRange(line.at, cp) THEN {}
        ELSE IF idx <= Len(qs) THEN qs[idx] ELSE {0}
addLine(known, line, meta) ==
    LET cells(cp) == [i \in 1 .. Width(cp.dir) |-> [m |-> cp.m, value |-> i, qov |-> Cell(line, cp, meta[cp.m].idx)]]
    IN  FlattenSeq([i \in DOMAIN known |-> cells(known[i])])

\* summaryMeteringPoints: the rows of the consumers or of the producers.
summaryMeteringPoints(rows, dir) == SelectSeq(rows, LAMBDA row : row.dir = dir)

\* sumMeterResult and closeSheet of the summary: total, share and self coverage
\* of the consumers, total and surplus of the producers, and the balance.
sumMeterResult(rows, n) == LET add(t, row) == t + row.sum[n] IN FoldLeft(add, 0, rows)
closeSheet(rows) ==
    LET con == summaryMeteringPoints(rows, "con")
        pro == summaryMeteringPoints(rows, "pro")
    IN  [total |-> sumMeterResult(con, 1), share |-> sumMeterResult(con, 2), self |-> sumMeterResult(con, 3),
         surplus |-> sumMeterResult(pro, 2), production |-> sumMeterResult(pro, 1),
         balance |-> sumMeterResult(pro, 1) - sumMeterResult(pro, 2) - sumMeterResult(con, 3)]

\* EnergyRunner.run with both sheets.
Export(cps, lines, meta, start, end) ==
    LET new == [m |-> "", dir |-> "", sum |-> <<>>, ok |-> TRUE, count |-> [l \in {0, 2, 3} |-> 0], days |-> [l \in {0, 2, 3} |-> <<>>]]
        row(cp) == LET add(p, line) == SummaryLine(p, line, cp, meta[cp.m].idx)
                   IN  OverLines(add, [new EXCEPT !.m = cp.m, !.dir = cp.dir, !.sum = NoValue(cp.dir)], lines)
        known   == Exported(cps, meta)
        summary == [i \in DOMAIN known |-> row(known[i])]
    IN  Done([summary |-> summary, totals |-> closeSheet(summary),
              header |-> addHeaderV2(known, meta), periods |-> initSheet(known, meta, start, end),
              cells |-> [j \in DOMAIN lines |-> addLine(known, lines[j], meta)]])

=============================================================================
