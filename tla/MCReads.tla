------------------------------- MODULE MCReads -------------------------------
(* Model values of the run reads: the bow layer, and the read requests.     *)
(* The two share no state; a behaviour is about one of them.                *)
EXTENDS Reads, Bow

CONSTANTS r1, r2

-----------------------------------------------------------------------------
(* Calls of the bow layer.                                                 *)

Record(k, v) == [key |-> k, val |-> v]
Call(kind, name, rows, key, until) == [kind |-> kind, name |-> name, rows |-> rows, key |-> key, until |-> until]
MCBowOps ==
    {Call("batch", "rawdata", <<Record(<<1, 1>>, "a"), Record(<<1, 2>>, "a"), Record(<<2, 1>>, "a")>>, <<>>, <<>>),
     Call("batch", "rawdata", <<Record(<<1, 2>>, "undecodable")>>, <<>>, <<>>),
     Call("batch", "rawdata", <<Record(<<1, 2>>, "b")>>, <<>>, <<>>),
     Call("delete", "rawdata", <<>>, <<1, 1>>, <<>>),
     Call("range", "rawdata", <<>>, <<1, 1>>, <<1, 2>>),
     Call("iter", "rawdata", <<>>, <<1>>, <<>>),
     Call("put", "metadata", <<Record(<<5>>, "a")>>, <<>>, <<>>),
     Call("get", "metadata", <<>>, <<5>>, <<>>)}

-----------------------------------------------------------------------------
(* A year of 12 days: 4 quarter hours a day, 2 days a week, 3 a month; the  *)
(* second hour of day 3 is skipped.                                        *)

MCSkipped == {14, 15}

\* Consumers c1, c2 and producer p1; the writer adds c3.
MCMeta == [c1 |-> [idx |-> 1, dir |-> "con", start |-> 4, end |-> 20], c2 |-> [idx |-> 2, dir |-> "con", start |-> 9, end |-> 30],
           p1 |-> [idx |-> 1, dir |-> "pro", start |-> 0, end |-> 14]]
NewMeta == [c3 |-> [idx |-> 3, dir |-> "con", start |-> 0, end |-> 0]]

\* The values tell slots and metering points apart; some rows are short.
Con(i, s)  == <<s * (10 + i), s, i>>
Row(s, n) ==
    LET w == IF n = 3 THEN 3 ELSE IF s % 4 = 1 THEN 1 ELSE 2
    IN  [con |-> [i \in 1 .. w |-> Con(i, s)], pro |-> IF s % 3 = 0 THEN <<>> ELSE <<<<s * 7, s>>>>,
         qcon |-> [i \in 1 .. (IF s = 8 THEN 1 ELSE w) |-> IF s % 8 \in {4, 5} THEN {0, 3} ELSE IF i = 1 THEN {1} ELSE {s % 4}],
         qpro |-> IF s % 3 = 0 \/ s = 8 THEN <<>> ELSE <<{1}>>]
RowsAt(S) == [s \in S |-> Row(s, 2)]

Nobody == [kind |-> "none", pc |-> "idle", rows |-> <<>>, meta |-> <<>>, start |-> 0, end |-> 0]
Writers ==
    {[kind |-> "import", pc |-> "register", rows |-> [s \in {6, 17} |-> Row(s, 3)], meta |-> NewMeta, start |-> 6, end |-> 17],
     [kind |-> "excel", pc |-> "rows", rows |-> [s \in {6, 17} |-> Row(s, 3)], meta |-> [c3 |-> [NewMeta.c3 EXCEPT !.start = 6, !.end = 17]],
      start |-> 6, end |-> 17]}

\* Entries of a request, and requests.
Cp(m, dir, from, until, wins) == [m |-> m, dir |-> dir, from |-> from, until |-> until, wins |-> wins]
Win(k, f, t) == [key |-> k, from |-> f, to |-> t]
Period(c, n) == [code |-> c, segment |-> n]
Base == [kind |-> "last", role |-> "admin", email |-> TRUE, configured |-> TRUE, subject |-> "s1", tenant |-> "T1",
         claims |-> <<"T1", "T2">>, cps |-> <<>>, start |-> 4, end |-> 24, period |-> Period("YM", 1),
         names |-> {}, step |-> NoStep]
AllCps == <<Cp("c1", "con", 0, 0, <<>>), Cp("c2", "con", 9, 16, <<>>), Cp("p1", "pro", 4, 12, <<>>), Cp("x", "con", 4, 20, <<>>)>>
ReportCps == <<Cp("c1", "con", 4, 12, <<Win("T1", 3, 1), Win("T2", 1, 2)>>), Cp("c2", "con", 4, 18, <<Win("T2", 0, 2), Win("T1", 1, 3)>>),
               Cp("p1", "pro", 8, 48, <<Win("T1", 0, 2)>>), Cp("c1", "con", 16, 24, <<>>), Cp("x", "con", 4, 20, <<>>)>>

Ranges == {<<5, 7>>, <<4, 16>>, <<4, 20>>, <<4, 40>>}
AdminRequests ==
    {[Base EXCEPT !.kind = k, !.start = t[1], !.end = t[2]] : k \in {"loadcurve", "intraday"}, t \in Ranges}
    \cup {[Base EXCEPT !.kind = "combined", !.names = {"loadcurve", "summary", "intraday", "other"}, !.end = 17]}
    \cup {[Base EXCEPT !.kind = "summary", !.period = p] : p \in {Period("YM", 1), Period("YQ", 2), Period("Y", 0), Period("Y", 1)}}
    \cup {[Base EXCEPT !.kind = "raw", !.step = st, !.cps = AllCps \o <<AllCps[1]>>] : st \in {NoStep, Hours(1), Hours(3), Days(1), Days(2)}}
    \cup {[Base EXCEPT !.kind = "query", !.step = Hours(1)]}
    \cup {[Base EXCEPT !.kind = "billing", !.cps = AllCps, !.end = e] : e \in {12, 20, 3}}
    \cup {[Base EXCEPT !.kind = "excel", !.cps = c] : c \in {AllCps, <<AllCps[3], AllCps[2]>>, <<AllCps[2], Cp("p1", "con", 4, 20, <<>>)>>}}
    \cup {[Base EXCEPT !.kind = "report", !.cps = ReportCps, !.period = p] :
              p \in {Period("YM", 1), Period("YM", 2), Period("YH", 1), Period("YQ", 2), Period("Y", 0)}}
    \cup {[Base EXCEPT !.kind = "report", !.cps = <<Cp("c1", "con", 4, 20, <<Win("T1", 1, 1)>>)>>]}
    \cup {[Base EXCEPT !.kind = k] : k \in {"last", "meta", "export"}}

\* What the backend knows of the member.
Point(m, st, a, i, reg) == [m |-> m, status |-> st, active |-> a, inactive |-> i, registered |-> reg]
MCBackends ==
    {[T1 |-> {Point("c1", "ACTIVE", 1, 99, 0), Point("c2", "INACTIVE", 0, 2, 1)}, T2 |-> {Point("z", "ACTIVE", 1, 0, 0)}],
     [T1 |-> {Point("c1", "INACTIVE", 1, 2, 0), Point("c1", "ACTIVE", 4, 0, 0)}, T2 |-> {Point("c2", "NEW", 0, 0, 1), Point("p1", "ACTIVE", 0, 0, 2)}]}

\* A second request runs beside each of them: with the same
\* key, another one, or (without a subject) none in the cache.
Member == [Base EXCEPT !.role = "member"]
RawRequest == [Member EXCEPT !.kind = "raw", !.cps = <<Cp("c1", "con", 0, 0, <<>>), Cp("c2", "con", 0, 0, <<>>)>>]
MemberRequests ==
    {[Member EXCEPT !.kind = "report", !.cps = <<Cp("c1", "con", 4, 40, <<>>)>>, !.period = Period("YH", 1)],
     RawRequest,
     [Member EXCEPT !.kind = "billing", !.cps = <<Cp("c1", "con", 9, 0, <<>>), Cp("c2", "con", 4, 0, <<>>)>>, !.subject = "s2"],
     [Member EXCEPT !.kind = "excel", !.cps = <<Cp("c1", "con", 4, 17, <<>>)>>],
     [Member EXCEPT !.kind = "excel", !.cps = <<Cp("c1", "con", 4, 9, <<>>)>>],
     [Member EXCEPT !.kind = "meta", !.subject = ""]}
OtherMembers ==
    LET Raw == [Member EXCEPT !.kind = "raw", !.cps = <<Cp("p1", "pro", 0, 0, <<>>)>>]
    IN  {[Raw EXCEPT !.email = FALSE], [Raw EXCEPT !.configured = FALSE], [Raw EXCEPT !.cps = <<>>],
         [Raw EXCEPT !.kind = "export"], [Raw EXCEPT !.kind = "billing", !.cps = <<>>], Raw}

Stored(S) == [rows |-> RowsAt(S), meta |-> MCMeta, bad |-> {}]
\* c2 has the index 3 and nobody the index 2.
GapStored == [Stored({5, 6, 8, 17}) EXCEPT !.rows = [s \in DOMAIN @ |-> Row(s, 3)], !.meta = [@ EXCEPT !["c2"].idx = 3]]
Empty == [rows |-> <<>>, meta |-> <<>>, bad |-> {}]
One(in) == (r1 :> in) @@ (r2 :> [Base EXCEPT !.kind = "export"])
Quiet == CHOOSE b \in MCBackends : TRUE

ReadsInit ==
    \/ \E in \in AdminRequests, S \in SUBSET {5, 6, 8, 12, 13, 17} :
          RequestsInit(One(in), Stored(S), Nobody, Quiet)
    \/ \E in \in AdminRequests, w \in Writers, bad \in {{}, {8}, {17}} :
          RequestsInit(One(in), [Stored({5, 6, 8, 12, 16, 17}) EXCEPT !.bad = bad], w, Quiet)
    \/ \E in \in AdminRequests : RequestsInit(One(in), GapStored, Nobody, Quiet)
    \/ \E in \in AdminRequests \cup OtherMembers : RequestsInit(One(in), Empty, Nobody, Quiet)
    \/ \E in \in OtherMembers : RequestsInit(One(in), Stored({5, 6, 8, 17}), Nobody, Quiet)
    \/ \E in \in MemberRequests, b \in MCBackends :
          RequestsInit((r1 :> in) @@ (r2 :> RawRequest), Stored({5, 6, 8, 12, 17}), Nobody, b)

\* The backend and the clock matter to members only, and r2 is idle otherwise;
\* nothing matters to requests that are answered.
Members2 == req[r2].orig.role = "member"
Running  == req[r1].pc # "done" \/ (Members2 /\ req[r2].pc # "done")

\* No writer runs beside members, so that once it knows its metering points the
\* rest of a member's request commutes with all other steps: it goes first.
Reading(r) == req[r].pc \in {"community", "read", "context", "rows", "last"}
ReadsNext ==
    \/ ~(Members2 /\ ~Reading(r1) /\ Reading(r2)) /\ RequestStep(r1)
    \/ RequestActiveMeteringPoints(r1, <<"p1", "c1", "z">>)
    \/ Members2 /\ ~Reading(r1) /\ RequestStep(r2)
    \/ Members2 /\ Running /\ ~Reading(r1) /\ ~Reading(r2) /\ (Tick \/ BackendChange(MCBackends))
    \/ Running /\ Write

Init ==
    \/ ReadsInit /\ BowInit(MaxBowCalls)
    \/ RequestsInit(One([Base EXCEPT !.kind = "export"]), Empty, Nobody, Quiet) /\ BowInit(0)
NextStep ==
    \/ spent.calls = MaxBowCalls /\ ~bow.open /\ ReadsNext /\ UNCHANGED bvars
    \/ BowNext /\ UNCHANGED rqvars
Spec == Init /\ [][NextStep]_<<rqvars, bvars>>

=============================================================================
