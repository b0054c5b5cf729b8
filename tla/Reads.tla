-------------------------------- MODULE Reads --------------------------------
(***************************************************************************)
(* What the read requests promise: every answer compared with a direct     *)
(* definition over the rows and the record that the request read.          *)
(***************************************************************************)
EXTENDS Requests

SumOver(S, F(_), zero) == LET add(n, s) == Plus(n, F(s)) IN OverLines(add, zero, Ascending(S))

\* The quarter hours from the first to the last row.
Span(R) == {s \in MinOf(DOMAIN R) .. MaxOf(DOMAIN R) : WallTimeExists(s)}
BlockAt(R, s, m, meta) ==
    IF s \in DOMAIN R THEN Elm(BlocksOf(R[s], meta[m].dir), meta[m].idx, meta[m].dir) ELSE NoValue(meta[m].dir)
SumsOf(R, S) ==
    LET con(s) == Total(R[s].con, "con") pro(s) == Total(R[s].pro, "pro")
    IN  [con |-> SumOver(S, con, NoValue("con")), pro |-> SumOver(S, pro, NoValue("pro"))]

\* The step of time that s lies in, counted from t0.
StepOf(step, t0, s) ==
    CASE step = NoStep -> s
      [] step.unit = "d" -> t0 + ((s - t0) \div (step.n * SlotsPerDay)) * step.n * SlotsPerDay
      [] step.unit = "h" -> LET n == step.n * SlotsPerHour
                            IN  CHOOSE t \in t0 .. s : WallTimeExists(t) /\
                                   Elapsed(t) = Elapsed(t0) + ((Elapsed(s) - Elapsed(t0)) \div n) * n

RawIs(in, R, meta) ==
    LET t0 == Midnight(DayOf(MinOf(DOMAIN R)))
        starts == {StepOf(in.step, t0, s) : s \in Span(R)} \cup (IF in.step = NoStep THEN {} ELSE {t0})
        series(m) == LET val(t) == LET at(s) == BlockAt(R, s, m, meta)
                                   IN  SumOver({s \in DOMAIN R : StepOf(in.step, t0, s) = t}, at, NoValue(meta[m].dir))
                     IN  [i \in 1 .. Cardinality(starts) |-> [ts |-> Ascending(starts)[i], value |-> val(Ascending(starts)[i])]]
    IN  [m \in Range(Targets(in)) \cap DOMAIN meta |-> series(m)]

LoadCurveIs(start, end, R) ==
    LET step == determineTimeShiftFunction(start, end)
        t0   == Midnight(InitTs(step, DayOf(MinOf(DOMAIN R))))
    IN  [k \in {StepOf(step, t0, s) : s \in Span(R)} |-> SumsOf(R, {s \in DOMAIN R : StepOf(step, t0, s) = k})]

\* A later last bucket that holds one line only: LoadCurveReport never writes it.
LoneLast(start, end, R) ==
    LET step == determineTimeShiftFunction(start, end)
        t0   == Midnight(InitTs(step, DayOf(MinOf(DOMAIN R))))
        last == StepOf(step, t0, MaxOf(DOMAIN R))
    IN  IF step # NoStep /\ last # t0 /\ Cardinality({s \in Span(R) : StepOf(step, t0, s) = last}) = 1
        THEN {last} ELSE {}
IntraDayIs(R) == [h \in {HourOf(s) : s \in Span(R)} |-> SumsOf(R, {s \in DOMAIN R : HourOf(s) = h})]
SummaryIs(R)  == 0 :> [SumsOf(R, DOMAIN R) EXCEPT !.pro[2] = 0]
ReportIs(n, in, R, val) ==
    CASE n = "loadcurve" ->
           LET is == LoadCurveIs(in.start, in.end, R) lone == LoneLast(in.start, in.end, R)
           IN  /\ DOMAIN is \ lone \subseteq DOMAIN val /\ DOMAIN val \subseteq DOMAIN is
               /\ \A k \in DOMAIN val : val[k] = is[k]
      [] n = "intraday" -> val = IntraDayIs(R)
      [] OTHER -> val = SummaryIs(R)

\* Billing check of one entry: the quarter hours of its time with a value.
BillingIs(in, cp, R, meta) ==
    LET days == {d \in DayOf(in.start) .. DayOf(in.end) :
                    d >= DayOf(cp.from) /\ (cp.until = 0 \/ d <= DayOf(cp.until))}
        slots == {s \in Midnight(DayOf(in.start)) .. Midnight(DayOf(in.end) + 1) - 1 : WallTimeExists(s) /\ DayOf(s) \in days}
        has(s) == Resolved(cp, meta) /\ slotQuality(R[s], meta[cp.m].idx, cp.dir) # {0}
        V  == {s \in DOMAIN R \cap slots : has(s)}
        L3 == {s \in V : 3 \in slotQuality(R[s], meta[cp.m].idx, cp.dir)}
    IN  [first |-> IF V = {} THEN 0 ELSE MinOf(V), last |-> IF V = {} THEN 0 ELSE MaxOf(V),
         l3 |-> Cardinality(L3), l3days |-> Ascending({DayOf(s) : s \in L3}),
         missing |-> Cardinality(slots \ V),
         missingDays |-> IF V = {} THEN <<>> ELSE Ascending({DayOf(s) : s \in slots \ V})]

\* Excel report of one metering point.  Qualities that the line does not carry
\* are not counted, though the cell is shown as L0; a metering point without an
\* end has no time at all, and the end is 23:59 hours after inactiveSince.
ExcelIs(cp, cps, R, meta, start, end) ==
    LET idx == meta[cp.m].idx
        act == {s \in Span(R) : s >= cp.from /\ cp.until > 0 /\ Elapsed(s) < Elapsed(cp.until) + SlotsPerDay}
        qs(s) == IF s \in DOMAIN R THEN (IF idx <= Len(QualityOf(R[s], cp.dir)) THEN QualityOf(R[s], cp.dir)[idx] ELSE {})
                 ELSE IF idx <= ExportCount(cps, meta, cp.dir) THEN {0} ELSE {}
        at(s) == Elm(BlocksOf(R[s], cp.dir), idx, cp.dir)
        hit(l) == {s \in act : l \in qs(s)}
        all == Ascending(Span(R))
    IN  [row |-> [m |-> cp.m, dir |-> cp.dir, sum |-> SumOver(act \cap DOMAIN R, at, NoValue(cp.dir)),
                  ok |-> \A s \in act : qs(s) \subseteq {1, 2},
                  count |-> [l \in {0, 2, 3} |-> Cardinality(hit(l))],
                  days |-> [l \in {0, 2, 3} |-> Ascending({DayOf(s) : s \in hit(l)})]],
         cells |-> [i \in DOMAIN all |-> IF all[i] \notin act THEN {} ELSE IF qs(all[i]) = {} THEN {0} ELSE qs(all[i])],
         days |-> [from |-> Max2(DayOf(meta[cp.m].start), DayOf(start)), to |-> Min2(DayOf(meta[cp.m].end), DayOf(end))]]

\* The sheets: every column of a line stands under its own heading if the request
\* gives the direction of each metering point as the record does.
SheetsAre(in, R, meta, val) ==
    LET known == Exported(in.cps, meta)
        is(i) == ExcelIs(known[i], in.cps, R, meta, in.start, in.end)
        agree == \A i \in DOMAIN known : known[i].dir = meta[known[i].m].dir
        sum(dir) == SumOver({i \in DOMAIN known : known[i].dir = dir}, LAMBDA i : is(i).row.sum, NoValue(dir))
    IN  /\ val.summary = [i \in DOMAIN known |-> is(i).row]
        /\ val.periods = [i \in DOMAIN known |-> is(i).days]
        /\ \A j \in DOMAIN val.cells, c \in DOMAIN val.header :
              /\ \E i \in DOMAIN known : val.cells[j][c].m = known[i].m /\ val.cells[j][c].qov = is(i).cells[j]
              /\ agree => val.header[c] = <<val.cells[j][c].m, val.cells[j][c].value>>
        /\ Len(val.cells) = Cardinality(Span(R)) /\ \A j \in DOMAIN val.cells : Len(val.cells[j]) = Len(val.header)
        /\ <<val.totals.total, val.totals.share, val.totals.self>> = sum("con")
        /\ <<val.totals.production, val.totals.surplus>> = sum("pro")
        /\ val.totals.production = val.totals.surplus + val.totals.self + val.totals.balance

AnswerIs(q) ==
    LET in == q.in R == q.rows meta == q.meta
    IN  CASE in.kind = "billing" ->
               q.val = [meters |-> [i \in DOMAIN in.cps |-> BillingIs(in, in.cps[i], R, meta)], totals |-> SumsOf(R, DOMAIN R)]
          [] in.kind \in Engines \ {"billing"} /\ DOMAIN R = {} -> q.val = <<>>
          [] in.kind \in {"raw", "query"} /\ DOMAIN R # {} -> q.val = RawIs(in, R, meta)
          [] in.kind = "combined" /\ DOMAIN R # {} ->
               /\ DOMAIN q.val = in.names \cap {"loadcurve", "intraday", "summary"}
               /\ \A n \in DOMAIN q.val : ReportIs(n, in, R, q.val[n])
          [] in.kind \in {"loadcurve", "intraday", "summary"} /\ DOMAIN R # {} -> ReportIs(in.kind, in, R, q.val)
          [] in.kind = "excel" ->
               SheetsAre(in, R, meta, q.val)
          [] OTHER -> TRUE

\* A row with more columns than cpmeta/0 has metering points.
Wider(q) == \E s \in DOMAIN q.rows : Len(q.rows[s].con) > CountOf(q.meta, "con") \/ Len(q.rows[s].pro) > CountOf(q.meta, "pro")

\* A record whose indices have a gap (known-errors #43).  The service
\* numbers metering points without one; a record may come from elsewhere.
Gapped(meta) == \E m \in DOMAIN meta : meta[m].idx > CountOf(meta, meta[m].dir)

\* A report (load curve, intraday, summary, combined, raw data and their
\* aggregation, billing check, Excel) is the direct definition over the rows of one snapshot, or an
\* error if one of them cannot be read, never a truncated result.  There are
\* three exceptions.  Rows are read before cpmeta/0 (Engine.Query), so a row may
\* be wider than the record, and the report panic or miss a value, while an Excel
\* upload has written its rows and not yet its record; so it may with a record
\* that has a gap in its indices; and a load curve may lack its last bucket if
\* that holds one line only and is not the first one.
ReportExact ==
    \A r \in Reqs : LET q == req[r] IN q.pc = "done" /\ q.in.kind \in Engines \cup {"excel"} /\ DOMAIN q.rows # {} =>
        /\ q.bad # {} => q.code \in {Route(q.orig).error, NoAnswer}
        /\ q.in.kind \in Engines /\ q.code \in {200, NoAnswer} /\ Wider(q) => q.torn \/ Gapped(q.meta)
        /\ q.code = NoAnswer => Wider(q)
        /\ q.code = 200 /\ (q.in.kind = "excel" \/ ~Wider(q)) => AnswerIs(q)

-----------------------------------------------------------------------------

\* The slot of a day in the parts of an energy report.  Weeks are counted from
\* the first week, which has the slot 1 - or, with the second one, shares it
\* (known-errors #23: which of the two is right is not decided).
PartIs(period, d, shared) ==
    CASE period.code = "YM" -> ((d - 1) % DaysPerMonth) + 1
      [] period.code \in {"YH", "YQ"} ->
           LET week == (WeekStart(d) - WeekStart(StartDay(period))) \div DaysPerWeek
           IN  IF shared THEN Max2(week, 1) ELSE week + 1
      [] OTHER -> MonthOf(d)
InWindow(w, s) == \E k \in 0 .. ((w.to - w.from) % SlotsPerDay) - 1 : (w.from + k) % SlotsPerDay = s % SlotsPerDay

\* The rows on the days of an entry of the energy report, and those on its last
\* day if that has no row at midnight and is not the first day of the period.
Counts(m, R)           == {s \in DOMAIN R : DayOf(m.from) <= DayOf(s) /\ DayOf(s) <= DayOf(m.until)}
LateLast(m, R, period) == {s \in DOMAIN R : /\ DayOf(s) = DayOf(m.until) /\ Midnight(DayOf(s)) \notin DOMAIN R
                                             /\ DayOf(s) # StartDay(period)}

\* What the report shows of entry i, if the rows A count for it.
EnergyIs(q, i, A) ==
    LET R == q.rows period == q.in.period m == q.in.cps[i] rep == q.val.meters[i] dir == q.meta[m.m].dir
        at(s) == BlockAt(R, s, m.m, q.meta)
        of(S) == SumOver(S, at, NoValue(dir))
        amount(S) == Quantity(of(S), dir)
        apart == \A j, k \in DOMAIN m.wins : j # k => \A s \in A : ~(InWindow(m.wins[j], s) /\ InWindow(m.wins[k], s))
    IN  IF m.m \notin DOMAIN q.meta THEN rep.sum = <<>> /\ rep.parts = <<>>
        ELSE /\ IF rep.sum = <<>> THEN A = {} ELSE rep.sum = of(A)
             /\ \E shared \in BOOLEAN :
                  /\ \A p \in DOMAIN rep.parts : rep.parts[p] = of({s \in A : PartIs(period, DayOf(s), shared) = p})
                  /\ {PartIs(period, DayOf(s), shared) : s \in A} \subseteq DOMAIN rep.parts
             /\ m.wins # <<>> =>
                  /\ \A j \in DOMAIN m.wins : rep.buckets[m.wins[j].key] = amount({s \in A : InWindow(m.wins[j], s)})
                  /\ apart => rep.buckets["BASE"] = amount({s \in A : \A j \in DOMAIN m.wins : ~InWindow(m.wins[j], s)})

\* An energy report that was answered, and its entries.
ReportDone(q) == q.pc = "done" /\ q.in.kind = "report" /\ q.code = 200

\* The energy report of a meter: its sums are those of the rows on its days,
\* each part has the days that belong to it, a window the rows in it, and BASE
\* the rest: the windows and BASE together are the total (buildBuckets), and if
\* no quarter hour is in two windows BASE is what lies outside of them.  The last
\* day counts in all of them, or, if it has no row at midnight, in none.
EnergyExact ==
    \A r \in Reqs : LET q == req[r] IN ReportDone(q) => \A i \in DOMAIN q.in.cps :
        LET m == q.in.cps[i] IN
        \/ EnergyIs(q, i, Counts(m, q.rows))
        \/ EnergyIs(q, i, Counts(m, q.rows) \ LateLast(m, q.rows, q.in.period))

\* The last day of a meter counts in the energy report ("both inclusive", "the
\* same day-level from/until gating").  It does not: until is cut to midnight and
\* compared with the time of the first row of a day.
LastDayCounts ==
    \A r \in Reqs : LET q == req[r] IN ReportDone(q) => \A i \in DOMAIN q.in.cps :
        EnergyIs(q, i, Counts(q.in.cps[i], q.rows))

-----------------------------------------------------------------------------

\* The windows the backend reported for m while the lookup of q ran.
Reported(q, m) ==
    UNION {UNION {UNION {windows(bm) : bm \in {b \in hist[k][t] : b.m = m}} : t \in Range(AskedTenants(q.in.tenant, q.in.claims))}
           : k \in {x \in 1 .. q.at : x >= q.asked}}

\* May q show m at s?
MaySee(q, m, s) == \E w \in Reported(q, m) : DayOf(s) \in w.from .. w.until

\* The hours by which the Excel report goes beyond the last day of m: it ends
\* 23:59 hours after inactiveSince, be that midnight or not, the day short or not.
Overrun(q, m, s) ==
    /\ q.in.kind = "excel"
    /\ \E i \in DOMAIN q.in.cps, w \in Reported(q, m) : LET cp == q.in.cps[i] IN
          /\ cp.m = m /\ DayOf(cp.until) \in w.from .. w.until
          /\ s > cp.until /\ Elapsed(s) < Elapsed(cp.until) + SlotsPerDay

\* The rows without what q may not show.
Hidden(q, May(_, _, _)) ==
    LET name(i, dir) == {m \in DOMAIN q.meta : q.meta[m].idx = i /\ q.meta[m].dir = dir}
        see(i, s, dir) == \E m \in name(i, dir) : May(q, m, s)
        cut(seq, s, dir, none) == [i \in DOMAIN seq |-> IF see(i, s, dir) THEN seq[i] ELSE none]
    IN  [s \in DOMAIN q.rows |-> [con  |-> cut(q.rows[s].con, s, "con", NoValue("con")),
                                  pro  |-> cut(q.rows[s].pro, s, "pro", NoValue("pro")),
                                  qcon |-> cut(q.rows[s].qcon, s, "con", {0}), qpro |-> cut(q.rows[s].qpro, s, "pro", {0})]]

\* The part of an answer that is about single metering points.
Shown(q) == IF q.in.kind \in {"report", "billing"} THEN q.val.meters ELSE q.val
PerMeterAnswer(q, R) ==
    LET lines(n, p) == Lines(R, n, p) IN
    CASE q.in.kind = "report"  -> EnergyReport(q.in.cps, R, q.meta, q.in.period)
      [] q.in.kind = "excel"   -> Export(q.in.cps, lines(ExportCount(q.in.cps, q.meta, "con"), ExportCount(q.in.cps, q.meta, "pro")), q.meta, q.in.start, q.in.end).val
      [] q.in.kind = "billing" -> BillingCheck(q.in, lines(CountOf(q.meta, "con"), CountOf(q.meta, "pro")), q.meta).val.meters
      [] OTHER -> Computed(q.in, lines(CountOf(q.meta, "con"), CountOf(q.meta, "pro")), q.meta).val

\* The clamped window of an entry is the part of the requested days in one of
\* the member's windows, and no other window has more of them.
ClampedWell(q, i) ==
    LET o == q.orig.cps[i] c == q.in.cps[i]
        end(t) == IF t > 0 THEN DayOf(t) ELSE OpenEnd
        common(w) == {d \in w.from .. w.until : d >= DayOf(o.from) /\ d <= end(o.until)}
    IN  \E w \in Range(q.own[o.m]) :
            /\ common(w) # {} /\ \A v \in Range(q.own[o.m]) : Cardinality(common(v)) <= Cardinality(common(w))
            /\ common(w) = DayOf(c.from) .. end(c.until)

\* The answer of q does not depend on a value that it may not show.
Within(q, May(_, _, _)) ==
    q.in.kind \in PerMeter /\ DOMAIN q.rows # {} /\ ~Wider(q) => Shown(q) = PerMeterAnswer(q, Hidden(q, May))

\* A member's request that was answered.
MemberDone(q) == q.pc = "done" /\ q.code = 200 /\ q.in.role = "member"

\* A member sees its own metering points in its own time: the answer of a
\* member's request for metering points does not depend on any value that lies outside the windows
\* the backend reported for the lookup it rests on (allowMeters, clampDays,
\* ClampRange), the lookup was not outdated when it was used (cacheTTL), and of
\* the requested days it gets all that lie in one window.  The one exception are
\* the hours of an Excel report after the last day (see MemberWindowKept).
MemberSeesOwn ==
    \A r \in Reqs : LET q == req[r] IN
      MemberDone(q) /\ q.in.kind \in PerMeter \cup {"meta"} =>
        /\ q.left > 0
        /\ q.in.kind = "meta" => \A m \in DOMAIN q.val : \E k \in q.asked .. q.at, t \in DOMAIN hist[1] : \E b \in hist[k][t] : b.m = m
        /\ Within(q, LAMBDA p, m, s : MaySee(p, m, s) \/ Overrun(p, m, s))
        /\ q.in.kind \in PerMeter \ {"raw"} => \A i \in DOMAIN q.in.cps : ClampedWell(q, i)

\* A member reads a metering point "only for the time [it was] its own", also in
\* the Excel report.  It does not hold: ClampDays leaves an end on the last day
\* of the window as it is given, and IsLineDateOutOfRange adds 23:59 hours to it.
MemberWindowKept == \A r \in Reqs : MemberDone(req[r]) => Within(req[r], MaySee)

=============================================================================
