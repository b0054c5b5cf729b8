------------------------------- MODULE Members -------------------------------
(***************************************************************************)
(* ownmeters/window.go and the tenants of a lookup (ownmeters.go): the     *)
(* time a metering point belonged to a member.  A day is a number from 1,  *)
(* 0 is a missing or placeholder date and OpenEnd the 31.12.2999.  The     *)
(* backend names a metering point by a record [m, status, active, inactive, *)
(* registered].                                                            *)
(***************************************************************************)
EXTENDS Energy

CONSTANTS
    OpenEnd,     \* the day that means "no end"
    maxTenants   \* maxTenants

\* windows: the participation of one record, if it has one.
windows(bm) ==
    LET ended == bm.inactive # 0 /\ bm.inactive < OpenEnd
        until == IF ended THEN bm.inactive ELSE OpenEnd
        from  == IF bm.active # 0 THEN bm.active
                 ELSE IF bm.status \in {"ACTIVE", "INACTIVE"} THEN bm.registered ELSE 0
    IN  IF (~ended /\ bm.status = "INACTIVE") \/ from = 0 \/ until < from THEN {}
        ELSE {[from |-> from, until |-> until]}

\* fetch: the windows of a tenant's records join those of the tenants before.
\* fetchAll sorts them by their start (equal starts, which Go leaves in any
\* order, by their end).
unite(meters, records) ==
    LET new(m) == UNION {windows(bm) : bm \in {b \in records : b.m = m}}
        old(m) == IF m \in DOMAIN meters THEN Range(meters[m]) ELSE {}
    IN  [m \in DOMAIN meters \cup {bm.m : bm \in records} |->
            SetToSortSeq(old(m) \cup new(m), LAMBDA v, w : v.from < w.from \/ (v.from = w.from /\ v.until < w.until))]

\* fetchAll: the requested tenant first, each once, at most maxTenants.
AskedTenants(requested, claims) ==
    LET all == dedupTargets(<<requested>> \o claims) IN SubSeq(all, 1, Min2(Len(all), maxTenants))

Owns(own, m) == m \in DOMAIN own

overlapDays(from, until, w) ==
    LET f == Max2(from, w.from) u == Min2(until, w.until) IN IF f > u THEN 0 ELSE u - f + 1

NoClamp == [ok |-> FALSE, from |-> 0, until |-> 0]

\* Mutant: a request without an end stays open.
ClampDays_Open(own, m, from, until) ==
    LET reqFrom == DayOf(from)
        reqUntil == IF until > 0 THEN DayOf(until) ELSE OpenEnd
        ws == own[m]
        days(i) == overlapDays(reqFrom, reqUntil, ws[i])
        better(best, i) == IF days(i) > 0 /\ (best = 0 \/ days(i) >= days(best)) THEN i ELSE best
        best == FoldLeft(better, 0, [i \in DOMAIN ws |-> i])
    IN  IF best = 0 THEN NoClamp
        ELSE [ok |-> TRUE,
              from |-> IF reqFrom < ws[best].from THEN Midnight(ws[best].from) ELSE from,
              until |-> IF until > 0 /\ reqUntil > ws[best].until THEN Midnight(ws[best].until) ELSE until]

\* ClampDays: the window with the largest overlap, the latest of equal ones; an
\* open end stays open if the window has no end either.
ClampDays(own, m, from, until) ==
    LET reqFrom == DayOf(from)
        reqUntil == IF until > 0 THEN DayOf(until) ELSE OpenEnd
        ws == own[m]
        days(i) == overlapDays(reqFrom, reqUntil, ws[i])
        better(best, i) == IF days(i) > 0 /\ (best = 0 \/ days(i) >= days(best)) THEN i ELSE best
        best == FoldLeft(better, 0, [i \in DOMAIN ws |-> i])
    IN  IF best = 0 THEN NoClamp
        ELSE [ok |-> TRUE,
              from |-> IF reqFrom < ws[best].from THEN Midnight(ws[best].from) ELSE from,
              until |-> IF reqUntil > ws[best].until THEN Midnight(ws[best].until) ELSE until]

\* ClampRange: cut to the first window of every metering point that it meets.
ClampRange(own, meters, start, end) ==
    LET first(w) == Midnight(w.from)
        last(w)  == Midnight(w.until + 1) - 1
        add(c, m) ==
            LET hit == SelectSeq(own[m], LAMBDA w : start <= last(w) /\ end >= first(w))
            IN  IF ~c.ok \/ hit = <<>> THEN NoClamp
                ELSE [ok |-> TRUE, from |-> Max2(c.from, first(hit[1])), until |-> Min2(c.until, last(hit[1]))]
        cut == FoldLeft(add, [ok |-> TRUE, from |-> start, until |-> end], meters)
    IN  [cut EXCEPT !.ok = @ /\ cut.from <= cut.until]

=============================================================================
