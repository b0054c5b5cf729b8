------------------------------ MODULE Requests -------------------------------
(***************************************************************************)
(* The read requests of rest/ with the member lookup of ownmeters/, next   *)
(* to a writer of the store and a backend that changes.  A request reads   *)
(* the rows and the record cpmeta/0 in separate transactions.  The answers *)
(* are computed by Query, Billing, Energy and Members.                     *)
(***************************************************************************)
EXTENDS Members

CONSTANTS
    Reqs,           \* requests
    TTL,            \* cacheTTL
    maxEntries,     \* maxEntries of the cache
    MaxPeriodDays,  \* billingCheckMaxPeriod
    Now,            \* the present as a quarter hour
    MaxClock,       \* bound: ticks
    MaxVersions     \* bound: states of the backend

VARIABLES
    db,      \* the store: [rows, meta, bad (slots whose row cannot be decoded)]
    wr,      \* the writer: [kind, pc, rows, meta, start, end] it has yet to write
    hist,    \* states of the backend: tenant -> records; the last is current
    clock,
    cache,   \* Resolver.cache: key -> [meters, until, asked, at]
    flight,  \* singleflight: keys with a running lookup
    req      \* the handlers

rqvars == <<db, wr, hist, clock, cache, flight, req>>

NoAnswer == -1   \* the handler panicked
PerMeter == {"report", "raw", "billing", "excel"}
Engines  == {"raw", "query", "billing", "intraday", "loadcurve", "combined", "summary"}

\* A handler: orig is the body as it came, left the remaining life of the cache
\* entry it used.  Only members are limited to their own metering points.
Handler(in) ==
    [pc |-> "begin", in |-> in, orig |-> in, todo |-> <<>>, meters |-> <<>>, limited |-> FALSE, own |-> <<>>, asked |-> 0, at |-> 0,
     left |-> 1, rows |-> <<>>, bad |-> {}, meta |-> <<>>, torn |-> FALSE, code |-> 0, val |-> <<>>]

RequestsInit(ins, store, writer, backends) ==
    /\ req = [r \in Reqs |-> Handler(ins[r])]
    /\ db = store /\ wr = writer /\ hist = <<backends>>
    /\ clock = 0 /\ cache = <<>> /\ flight = {}

Key(r)        == <<req[r].in.subject, req[r].in.tenant>>
Targets(in)   == [i \in DOMAIN in.cps |-> in.cps[i].m]
Go(r, q)      == req' = [req EXCEPT ![r] = q]
Answer(q, code, val) == [q EXCEPT !.pc = "done", !.code = code, !.val = val]

-----------------------------------------------------------------------------
(* Checks before any data is read.                                         *)

\* The handlers: ok says whether the body is accepted, member what a member may
\* ask for (its own metering points, always or if some are named; everything;
\* nothing), and error the code of a failed query.
Handles(ok, member, error) == [ok |-> ok, member |-> member, error |-> error]
fetchEnergyReportV2(in)  == Handles(ValidateTimeWindows(in.cps), "named", 500)
fetchRawEnergyV2         == Handles(TRUE, "named", 400)
fetchBillingCheck(in)    == Handles(Validate(in, MaxPeriodDays), "named", 500)
exportReport             == Handles(TRUE, "named", 500)
queryMetaData            == Handles(TRUE, "own", 400)
queryRawData             == Handles(TRUE, "all", 400)
lastRecordDate           == Handles(TRUE, "all", 404)
exportMeteringData       == Handles(TRUE, "none", 400)
fetchIntraDayReportV2    == Handles(TRUE, "all", 400)
fetchLoadCurveReportV2   == Handles(TRUE, "all", 400)
fetchCombinedReportV2    == Handles(TRUE, "all", 400)
fetchSummaryReportV2(in) == Handles(PeriodExists(in.period), "all", 400)

\* NewRestServer and InitQueryApiRouter: the handler of a route.
Route(in) ==
    CASE in.kind = "report"    -> fetchEnergyReportV2(in)
      [] in.kind = "raw"       -> fetchRawEnergyV2
      [] in.kind = "billing"   -> fetchBillingCheck(in)
      [] in.kind = "excel"     -> exportReport
      [] in.kind = "meta"      -> queryMetaData
      [] in.kind = "query"     -> queryRawData
      [] in.kind = "last"      -> lastRecordDate
      [] in.kind = "export"    -> exportMeteringData
      [] in.kind = "intraday"  -> fetchIntraDayReportV2
      [] in.kind = "loadcurve" -> fetchLoadCurveReportV2
      [] in.kind = "combined"  -> fetchCombinedReportV2
      [] in.kind = "summary"   -> fetchSummaryReportV2(in)

\* allowMeters, ownMeters and Meters up to the lookup; denyMember.  The mailed
\* export of a month names no metering points, which ExportEnergyToExcel refuses.
\* A raw data query that names none asks the master data first.
Begin(r) ==
    LET q == req[r] in == q.in h == Route(in)
        member == in.role = "member"
        looked == member /\ (h.member = "own" \/ (h.member = "named" /\ in.cps # <<>>))
        next ==
          CASE ~h.ok -> Answer(q, 400, <<>>)
            [] h.ok /\ in.kind = "export" -> Answer(q, IF member /\ h.member = "none" THEN 403 ELSE h.error, <<>>)
            [] h.ok /\ looked /\ ~(in.email /\ in.configured) -> Answer(q, 503, <<>>)
            [] h.ok /\ looked /\ in.email /\ in.configured ->
                 [q EXCEPT !.pc = IF in.subject = "" THEN "ask" ELSE "lookup",
                           !.todo = AskedTenants(in.tenant, in.claims), !.asked = Len(hist)]
            [] OTHER -> [q EXCEPT !.pc = IF in.kind = "query" /\ in.cps = <<>> THEN "targets" ELSE "read",
                                  !.limited = member /\ h.member = "named"]
    IN  q.pc = "begin" /\ Go(r, next) /\ UNCHANGED <<db, wr, hist, clock, cache, flight>>

\* RequestActiveMeteringPoints and targetsOf: all metering points of the
\* community, or an error.
RequestActiveMeteringPoints(r, points) ==
    LET q == req[r]
        targets == [i \in DOMAIN points |-> [m |-> points[i]]]
    IN  /\ q.pc = "targets"
        /\ \/ Go(r, [q EXCEPT !.pc = "read", !.in.cps = targets])
           \/ Go(r, Answer(q, queryRawData.error, <<>>))
        /\ UNCHANGED <<db, wr, hist, clock, cache, flight>>

-----------------------------------------------------------------------------
(* Resolver.Meters.                                                        *)

\* The lookup in the cache.
Lookup(r) ==
    LET hit == Key(r) \in DOMAIN cache /\ clock < cache[Key(r)].until
        e   == cache[Key(r)]
    IN  /\ req[r].pc = "lookup"
        /\ Go(r, IF ~hit THEN [req[r] EXCEPT !.pc = "join"]
                 ELSE [req[r] EXCEPT !.pc = "community", !.meters = e.meters, !.asked = e.asked, !.at = e.at, !.left = e.until - clock])
        /\ UNCHANGED <<db, wr, hist, clock, cache, flight>>

\* group.Do: the first caller of a key asks, the others wait for its result.
Join(r) ==
    /\ req[r].pc = "join"
    /\ Go(r, IF Key(r) \in flight THEN [req[r] EXCEPT !.pc = "wait"]
             ELSE [req[r] EXCEPT !.pc = "ask", !.asked = Len(hist)])
    /\ flight' = flight \cup {Key(r)}
    /\ UNCHANGED <<db, wr, hist, clock, cache>>

\* fetch of one tenant: its records, a refusal (401, 403) or an error.  A refusal
\* of another tenant than the requested one adds nothing.
Fetch(r) ==
    LET q == req[r] t == Head(q.todo) rest == [q EXCEPT !.todo = Tail(@)]
        end(p) == IF p.in.subject = "" THEN (IF p.code = 503 THEN [p EXCEPT !.pc = "done"] ELSE [p EXCEPT !.pc = "community"])
                  ELSE [p EXCEPT !.pc = IF p.code = 503 THEN "deliver" ELSE "store"]
        on(p) == IF p.todo = <<>> THEN end([p EXCEPT !.at = Len(hist)]) ELSE p
    IN  /\ q.pc = "ask"
        /\ \/ Go(r, on([rest EXCEPT !.meters = unite(@, hist[Len(hist)][t])]))
           \/ t # q.in.tenant /\ Go(r, on(rest))
           \/ Go(r, end([q EXCEPT !.code = 503, !.meters = <<>>]))
        /\ UNCHANGED <<db, wr, hist, clock, cache, flight>>

\* store: a full cache drops what has expired, or everything.
Store(r) ==
    LET live == {k \in DOMAIN cache : clock < cache[k].until}
        kept == CASE Cardinality(DOMAIN cache) < maxEntries -> DOMAIN cache
                  [] Cardinality(DOMAIN cache) >= maxEntries /\ Cardinality(live) < maxEntries -> live
                  [] OTHER -> {}
        e == [meters |-> req[r].meters, until |-> clock + TTL, asked |-> req[r].asked, at |-> req[r].at]
    IN  /\ req[r].pc = "store"
        /\ cache' = [k \in kept \cup {Key(r)} |-> IF k = Key(r) THEN e ELSE cache[k]]
        /\ Go(r, [req[r] EXCEPT !.pc = "deliver"])
        /\ UNCHANGED <<db, wr, hist, clock, flight>>

\* The end of group.Do for the caller that asked and for those that wait.
Deliver(r) ==
    LET q == req[r]
        got(p) == [p EXCEPT !.pc = IF q.code = 503 THEN "done" ELSE "community", !.code = q.code,
                            !.meters = q.meters, !.asked = q.asked, !.at = q.at]
    IN  /\ q.pc = "deliver"
        /\ req' = [o \in Reqs |-> IF o = r \/ (req[o].pc = "wait" /\ Key(o) = Key(r)) THEN got(req[o]) ELSE req[o]]
        /\ flight' = flight \ {Key(r)}
        /\ UNCHANGED <<db, wr, hist, clock, cache>>

\* inCommunity, the check of the named metering points and the clamps.
Community(r) ==
    LET q == req[r] in == q.in
        own == [m \in {x \in DOMAIN q.meters : DOMAIN db.meta = {} \/ x \in DOMAIN db.meta} |-> q.meters[m]]
        cut(i) == ClampDays(own, in.cps[i].m, in.cps[i].from, in.cps[i].until)
        all == ClampRange(own, Targets(in), in.start, in.end)
        on(to) == [q EXCEPT !.pc = "read", !.limited = TRUE, !.own = own, !.in = to]
        next ==
          CASE in.kind = "meta" -> on(in)
            [] in.kind # "meta" /\ \E i \in DOMAIN in.cps : ~Owns(own, in.cps[i].m) -> Answer(q, 403, <<>>)
            [] in.kind = "raw" /\ \A i \in DOMAIN in.cps : Owns(own, in.cps[i].m) ->
                 IF all.ok THEN on([in EXCEPT !.start = all.from, !.end = all.until]) ELSE Answer(q, 403, <<>>)
            [] OTHER ->
                 IF \A i \in DOMAIN in.cps : cut(i).ok
                 THEN on([in EXCEPT !.cps = [i \in DOMAIN @ |-> [@[i] EXCEPT !.from = cut(i).from, !.until = cut(i).until]]])
                 ELSE Answer(q, 403, <<>>)
    IN  q.pc = "community" /\ Go(r, next) /\ UNCHANGED <<db, wr, hist, clock, cache, flight>>

-----------------------------------------------------------------------------
(* Reading the store.                                                      *)

StartOf(in) == IF in.kind = "summary" THEN PeriodStart(in.period) ELSE in.start
EndOf(in)   == IF in.kind = "summary" THEN PeriodEnd(in.period) ELSE in.end

\* The rows before one that cannot be decoded: Err then fails the request.
Readable(q) == [s \in {x \in DOMAIN q.rows : \A b \in q.bad : x < b} |-> q.rows[s]]

\* HandleStart, HandleLine and HandleEnd of the consumer for lines and meta;
\* without rows (ErrNoRows) it is never started.
Computed(in, lines, meta) ==
    CASE in.kind \in {"raw", "query"} /\ (lines = <<>> \/ in.step = NoStep) -> DefaultFunction(lines, Targets(in), meta)
      [] in.kind \in {"raw", "query"} /\ lines # <<>> /\ in.step # NoStep -> Aggregate(lines, Targets(in), meta, in.step)
      [] in.kind = "billing" -> BillingCheck(in, lines, meta)
      [] in.kind = "summary" -> EnergySummary(lines)
      [] lines = <<>> -> Done(<<>>)
      [] in.kind = "combined" /\ lines # <<>> -> CombinedReports(in.names, lines, meta, in.start, in.end)
      [] OTHER -> Report(in.kind, lines, meta, in.start, in.end)

\* Engine.Query opens the iterator first.
Snapshot(r) ==
    LET q == req[r]
        rows == GetLineRange(db.rows, StartOf(q.in), EndOf(q.in))
        got  == [q EXCEPT !.rows = rows, !.bad = db.bad \cap DOMAIN rows]
    IN  /\ q.pc = "read" /\ q.in.kind \in Engines
        /\ Go(r, IF DOMAIN rows = {} THEN Answer(got, 200, Computed(q.in, <<>>, <<>>).val)
                 ELSE IF DOMAIN Readable(got) = {} THEN Answer(got, Route(q.in).error, <<>>)
                 ELSE [got EXCEPT !.pc = "context"])
        /\ UNCHANGED <<db, wr, hist, clock, cache, flight>>

\* createEngineContext reads cpmeta/0 when the first row is there; then the rows
\* of the snapshot are consumed.  A panic ends the request without an answer.
Context(r) ==
    LET q   == [req[r] EXCEPT !.meta = db.meta, !.torn = wr.kind = "excel" /\ wr.pc # "idle"]
        res == Computed(q.in, Lines(Readable(q), CountOf(q.meta, "con"), CountOf(q.meta, "pro")), q.meta)
    IN  /\ q.pc = "context"
        /\ Go(r, CASE res.panic -> Answer(q, NoAnswer, <<>>)
                   [] ~res.panic /\ q.bad # {} -> Answer(q, Route(q.in).error, <<>>)
                   [] OTHER -> Answer(q, 200, res.val))
        /\ UNCHANGED <<db, wr, hist, clock, cache, flight>>

\* The periods of the metering points, of its own for a member.
QueryMetaData(q) ==
    [m \in {x \in DOMAIN db.meta : ~q.limited \/ Owns(q.own, x)} |-> [from |-> db.meta[m].start, until |-> db.meta[m].end]]

\* The latest end of a period; a metering point without one counts as of now.
GetLastEnergyEntry == MaxOf({IF db.meta[m].end = 0 THEN Now ELSE db.meta[m].end : m \in DOMAIN db.meta})

\* GetMetaInfo of the energy report, createRunnerContext of the Excel report,
\* QueryMetaData and GetLastEnergyEntry read cpmeta/0 first.
ReadMeta(r) ==
    LET q == req[r]
        none == DOMAIN db.meta = {}
    IN  /\ q.pc = "read" /\ q.in.kind \notin Engines
        /\ Go(r, CASE q.in.kind = "meta" -> Answer([q EXCEPT !.meta = db.meta], 200, QueryMetaData(q))
                   [] q.in.kind = "last" /\ none -> Answer(q, Route(q.in).error, <<>>)
                   [] q.in.kind = "last" /\ ~none ->
                        Answer([q EXCEPT !.meta = db.meta], 200, <<GetLastEnergyEntry>>)
                   [] OTHER -> [q EXCEPT !.meta = db.meta, !.pc = "rows"])
        /\ UNCHANGED <<db, wr, hist, clock, cache, flight>>

\* EnergyReportV2 and EnergyRunner.run then read the rows.  The lines that fill
\* a gap in the Excel report are as wide as the requested metering points.
ReadRows(r) ==
    LET q == req[r] in == q.in
        report == in.kind = "report"
        rows == IF report THEN [s \in RowsOf(db.rows, in.period) |-> db.rows[s]]
                ELSE GetLineRange(db.rows, in.start, in.end)
        got  == [q EXCEPT !.rows = rows, !.bad = db.bad \cap DOMAIN rows]
        sheets == Export(in.cps, Lines(rows, ExportCount(in.cps, q.meta, "con"), ExportCount(in.cps, q.meta, "pro")), q.meta,
                         in.start, in.end)
    IN  /\ q.pc = "rows"
        /\ Go(r, CASE got.bad # {} -> Answer(got, Route(in).error, <<>>)
                   [] got.bad = {} /\ report ->
                        [got EXCEPT !.pc = "last", !.val = EnergyReport(in.cps, rows, q.meta, in.period)]
                   [] got.bad = {} /\ ~report /\ DOMAIN rows = {} -> Answer(got, 404, <<>>)
                   [] OTHER -> Answer(got, 200, sheets.val))
        /\ UNCHANGED <<db, wr, hist, clock, cache, flight>>

\* EnergyReportV2 lists cpmeta/0 as it is at the end; a member sees its own.
ReportMeta(r) ==
    LET q == req[r]
        shown == {m \in DOMAIN db.meta : ~q.limited \/ Owns(q.own, m)}
    IN  /\ q.pc = "last"
        /\ Go(r, Answer(q, 200, [meters |-> q.val, meta |-> shown,
                                 con |-> TotalOf(q.val, q.in.cps, q.meta, "con"),
                                 pro |-> TotalOf(q.val, q.in.cps, q.meta, "pro")]))
        /\ UNCHANGED <<db, wr, hist, clock, cache, flight>>

-----------------------------------------------------------------------------
(* The surroundings.                                                       *)

\* An import registers the metering point, writes its rows and then the period;
\* the Excel upload writes the rows before cpmeta/0.  SetLines commits rows one
\* after the other.
Write ==
    /\ \/ /\ wr.pc \in {"register", "meta"}
          /\ db' = [db EXCEPT !.meta = wr.meta @@ @]
          /\ wr' = [wr EXCEPT !.pc = IF @ = "register" THEN "rows" ELSE "idle"]
       \/ /\ wr.pc = "rows" /\ DOMAIN wr.rows # {}
          /\ LET s == MinOf(DOMAIN wr.rows)
                 rest == DOMAIN wr.rows \ {s}
             IN  /\ db' = [db EXCEPT !.rows = (s :> wr.rows[s]) @@ @]
                 /\ wr' = [wr EXCEPT !.rows = [x \in rest |-> @[x]],
                                     !.pc = IF rest # {} THEN "rows" ELSE IF wr.kind = "excel" THEN "meta" ELSE "period"]
       \/ /\ wr.pc = "period"
          /\ db' = [db EXCEPT !.meta = [m \in DOMAIN @ |-> IF m \in DOMAIN wr.meta THEN [@[m] EXCEPT !.start = wr.start, !.end = wr.end] ELSE @[m]]]
          /\ wr' = [wr EXCEPT !.pc = "idle"]
    /\ UNCHANGED <<hist, clock, cache, flight, req>>

\* Time passes, and the backend changes.
Tick == clock < MaxClock /\ clock' = clock + 1 /\ UNCHANGED <<db, wr, hist, cache, flight, req>>
BackendChange(states) ==
    /\ Len(hist) < MaxVersions
    /\ \E b \in states : b # Last(hist) /\ hist' = Append(hist, b)
    /\ UNCHANGED <<db, wr, clock, cache, flight, req>>

RequestStep(r) ==
    \/ Begin(r) \/ Lookup(r) \/ Join(r) \/ Fetch(r) \/ Store(r) \/ Deliver(r) \/ Community(r)
    \/ Snapshot(r) \/ Context(r) \/ ReadMeta(r) \/ ReadRows(r) \/ ReportMeta(r)
=============================================================================
