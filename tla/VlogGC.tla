-------------------------------- MODULE VlogGC --------------------------------
(***************************************************************************)
(* The nightly value log GC of store/ebow/vloggc.go: one goroutine that    *)
(* runs once per time window over the databases on disk, largest first,    *)
(* as a client of the connection pool.  A value log is a function from     *)
(* file ids to sizes and discarded bytes; what Badger does with it is      *)
(* modelled from how vloggc.go uses and describes it.                      *)
(***************************************************************************)
EXTENDS Pool, Sequences, FiniteSetsExt, Functions

CONSTANTS
    gc,         \* the client of the pool that is the GC goroutine
    DayMin,     \* minutes of a day
    MaxNow,     \* bound: the last minute; the service starts on day 1
    checkEvery  \* VlogGCConfig.CheckEvery, which parse wants to be positive

ASSUME VlogGCConfig ==
    gc \in Clients /\ DayMin \in Nat \ {0} /\ MaxNow \in Nat /\ DayMin <= MaxNow /\ checkEvery \in Nat \ {0}

VARIABLES
    cfg,      \* VlogGCConfig
    now,      \* the clock
    ticker,   \* the phase of the ticker, None before it is made
    tick,     \* the time in ticker.C, or None
    ctxDone,  \* the context of the service has ended
    known,    \* databases with a directory and a MANIFEST
    vlog,     \* database -> file id -> [size, dis]
    gcPc,     \* where the goroutine is
    lastDay,  \* the day whose window had its run, or None
    run,      \* the run: [refs, deadline, budget]
    col,      \* collectDatabase: [files (rewritten), before, cand (its size), end]
    late,     \* files rewritten after the end of the window or of the service
    seen,     \* windows in which a check happened
    served,   \* windows of the runs, in order
    forecast  \* what a dry run would have rewritten in the database being collected

gvars == <<cfg, now, ticker, tick, ctxDone, known, vlog, gcPc, lastDay, run, col, late, seen, served, forecast>>

None == -1

\* VlogGCConfig, and the files of a database.
Configs ==
    [enabled : BOOLEAN, dryRun : BOOLEAN, startMin : Int, endMin : Int, discardRatio : Int,
     probeRatio : Int, minBytes : Int, maxBytes : Int]

ValueLogs == UNION {[fs -> [size : Nat, dis : Nat]] : fs \in {f \in SUBSET Nat : IsFiniteSet(f)}}

\* parse: what a valid configuration is.
parse(c) ==
    /\ c.startMin \in 0 .. DayMin - 1 /\ c.endMin \in 0 .. DayMin - 1
    /\ c.startMin # c.endMin
    /\ c.discardRatio \in 1 .. 99 /\ c.probeRatio \in 1 .. 99

NoRun == [refs |-> <<>>, deadline |-> None, budget |-> 0]
NoCol == [files |-> <<>>, before |-> 0, cand |-> 0, end |-> "none"]

\* The service starts with the configuration c on the disk v.
\* An invalid one leaves the GC switched off.
StartVlogGC(c, v) ==
    /\ cfg = c /\ vlog = v
    /\ known = {k \in Keys : DOMAIN v[k] # {}}
    /\ now = DayMin /\ ticker = None /\ tick = None /\ ctxDone = FALSE
    /\ gcPc = IF c.enabled /\ parse(c) THEN "start" ELSE "exited"
    /\ lastDay = None /\ run = NoRun /\ col = NoCol /\ late = 0
    /\ seen = {} /\ served = <<>> /\ forecast = <<>>

-----------------------------------------------------------------------------
(* The window.                                                             *)

at(d, min) == d * DayMin + min

\* The end of the window that begins on day d.
stopOf(d) == IF cfg.endMin < cfg.startMin THEN at(d + 1, cfg.endMin) ELSE at(d, cfg.endMin)

\* t is inside the window that begins on day d.
inWindow(d, t) == at(d, cfg.startMin) <= t /\ t < stopOf(d)

\* window: the day on which the window around t began, today or yesterday.
window(t) ==
    LET today == t \div DayMin
    IN  IF inWindow(today, t) THEN today
        ELSE IF inWindow(today - 1, t) THEN today - 1 ELSE None

\* The reference: the set of all windows around t.
WindowsAround(t) ==
    {d \in 0 .. MaxNow \div DayMin :
        LET len == (cfg.endMin - cfg.startMin) % DayMin
        IN  t - at(d, cfg.startMin) \in 0 .. len - 1}

\* Time passes; the ticker fills its channel of one place, or drops the tick.
Tick ==
    /\ now < MaxNow
    /\ now' = now + 1
    /\ tick' = IF ticker # None /\ tick = None /\ now' % checkEvery = ticker THEN now' ELSE tick
    /\ UNCHANGED <<cfg, ticker, ctxDone, known, vlog, gcPc, lastDay, run, col, late, seen, served, forecast>>

-----------------------------------------------------------------------------
(* The value logs.                                                         *)

\* The file Badger appends to while k is open; it is preallocated.
curFid(k) == IF db[k] THEN Max(DOMAIN vlog[k]) ELSE 0

\* vlogBytes: the files of k, without the preallocated one.
vlogBytes(k) == MapThenSumSet(LAMBDA f : vlog[k][f].size, DOMAIN vlog[k] \ {curFid(k)})

\* The files with the most discarded bytes among the set fs.
MostDiscard(k, fs) ==
    LET d == {f \in fs : vlog[k][f].dis > 0}
    IN  {f \in d : \A g \in d : vlog[k][g].dis <= vlog[k][f].dis}

\* discardCandidate: the file whose size is charged to the budget.
discardCandidate(k) == MostDiscard(k, DOMAIN vlog[k])

Reaches(k, f, ratio) == vlog[k][f].dis * 100 >= ratio * vlog[k][f].size

\* Badger's MaxDiscard: the file RunValueLogGC looks at, 0 without one,
maxDiscard(k) == IF discardCandidate(k) = {} THEN {0} ELSE discardCandidate(k)

\* and pickLog: whether it rewrites it.
pickLog(k, f, ratio) == f # 0 /\ f # curFid(k) /\ Reaches(k, f, ratio)

\* Opening a database begins a new file and closing it removes that file if
\* nothing was written to it.
FilesFollow(v) ==
    [k \in Keys |->
        CASE ~db[k] /\ db'[k] ->
                [f \in DOMAIN v[k] \cup {Max(DOMAIN v[k] \cup {0}) + 1} |->
                    IF f \in DOMAIN v[k] THEN v[k][f] ELSE [size |-> 0, dis |-> 0]]
          [] db[k] /\ ~db'[k] -> [f \in {g \in DOMAIN v[k] : v[k][g].size > 0} |-> v[k][f]]
          [] OTHER -> v[k]]

\* A step of the pool, seen on disk.
DiskFollows ==
    /\ vlog' = FilesFollow(vlog)
    /\ known' = known \cup {k \in Keys : db'[k]}

\* A client that holds k overwrites what it wrote before: the current file gets
\* data that is discarded.
Overwrites(c) ==
    /\ pc[c] = "holding" /\ handle[c] = "open" /\ c # gc
    /\ LET k == key[c] IN
       /\ vlog[k][curFid(k)].size = 0
       /\ vlog' = [vlog EXCEPT ![k][curFid(k)] = [size |-> 3, dis |-> 3]]
    /\ UNCHANGED vars
    /\ UNCHANGED <<cfg, now, ticker, tick, ctxDone, known, gcPc, lastDay, run, col, late, seen, served, forecast>>

\* The loop of dryRunDatabase over the files of all, largest discard first; rest
\* are the files it has not seen yet.
dryRunFiles(k, all, budget) ==
    LET files[rest \in SUBSET all] ==
            LET most == MostDiscard(k, rest)
                f    == CHOOSE g \in most : TRUE
                left == budget - MapThenSumSet(LAMBDA g : vlog[k][g].size, all \ rest)
            IN  IF most = {} \/ left <= 0 \/ ~Reaches(k, f, cfg.discardRatio) THEN <<>>
                ELSE <<f>> \o files[rest \ {f}]
    IN  files[all]

\* Mutant: one file more than the budget allows.
dryRunDatabase_Over(k) == dryRunFiles(k, DOMAIN vlog[k] \ {curFid(k)}, run.budget + 1)

\* dryRunDatabase: the files a run would rewrite, in order.
dryRunDatabase(k) == dryRunFiles(k, DOMAIN vlog[k] \ {curFid(k)}, run.budget)

-----------------------------------------------------------------------------
(* The goroutine.                                                          *)

\* A run begins in the window of day; after the end of the service it is still
\* the same end that files are late for.
RunBegins(day) ==
    /\ gcPc' = "enumerate" /\ lastDay' = day
    /\ run' = [NoRun EXCEPT !.deadline = stopOf(day), !.budget = cfg.maxBytes]
    /\ late' = IF ctxDone THEN late ELSE 0
    /\ served' = Append(served, day)

\* Mutant: every check inside a window begins a run.
check_NoDay(t) ==
    LET day == window(t) IN
    /\ seen' = seen \cup WindowsAround(t)
    /\ IF day = None
       THEN gcPc' = "select" /\ UNCHANGED <<lastDay, run, late, served>>
       ELSE RunBegins(day)
    /\ UNCHANGED vars
    /\ UNCHANGED <<cfg, now, ctxDone, known, vlog, col, forecast>>

\* check(t): at most one run per window; lastDay is set before the run.
check(t) ==
    LET day == window(t) IN
    /\ seen' = seen \cup WindowsAround(t)
    /\ IF day = None \/ day = lastDay
       THEN gcPc' = "select" /\ UNCHANGED <<lastDay, run, late, served>>
       ELSE RunBegins(day)
    /\ UNCHANGED vars
    /\ UNCHANGED <<cfg, now, ctxDone, known, vlog, col, forecast>>

FirstCheck == gcPc = "start" /\ check(now) /\ UNCHANGED tick

TickCheck == gcPc = "select" /\ tick # None /\ tick' = None /\ check(tick)

\* Mutant: the end of the context is only noticed at a tick.
GCExit_AtTick ==
    /\ gcPc = "select" /\ ctxDone /\ tick # None
    /\ gcPc' = "exited"
    /\ UNCHANGED vars
    /\ UNCHANGED <<cfg, now, tick, ctxDone, known, vlog, lastDay, run, col, late, seen, served, forecast>>

\* The goroutine returns, and with it waitVlogGC.
GCExit ==
    /\ gcPc = "select" /\ ctxDone
    /\ gcPc' = "exited"
    /\ UNCHANGED vars
    /\ UNCHANGED <<cfg, now, tick, ctxDone, known, vlog, lastDay, run, col, late, seen, served, forecast>>

sharedEcId(k) == \E l \in known : l # k /\ l[2] = k[2]

\* enumerateVlogDBs: what is on disk now, largest first, with the ecIds that two
\* tenants have; or the listing fails.
enumerateVlogDBs ==
    /\ gcPc = "enumerate"
    /\ \/ /\ gcPc' = "next"
          /\ \E s \in Injection(1 .. Cardinality(known), known) :
                /\ \A i, j \in DOMAIN s : i < j => vlogBytes(s[i]) >= vlogBytes(s[j])
                /\ run' = [run EXCEPT !.refs =
                       [i \in DOMAIN s |-> [key |-> s[i], bytes |-> vlogBytes(s[i]), shared |-> sharedEcId(s[i])]]]
       \/ gcPc' = "select" /\ run' = NoRun
    /\ UNCHANGED vars
    /\ UNCHANGED <<cfg, now, tick, ctxDone, known, vlog, lastDay, col, late, seen, served, forecast>>

stopReason == ctxDone \/ now >= run.deadline \/ run.budget <= 0

NextRef == [run EXCEPT !.refs = Tail(@)]

\* runVlogGC goes on to the next database or ends; collectDatabase skips a
\* shared ecId that the pool does not have yet, and a dry run only looks.
runVlogGC ==
    /\ gcPc = "next"
    /\ LET over == stopReason \/ ~\E i \in DOMAIN run.refs : i = 1 /\ run.refs[1].bytes >= cfg.minBytes
           ref  == Head(run.refs)
           skip == ref.shared /\ ref.key \notin pool
       IN  \/ /\ over
              /\ gcPc' = "select" /\ run' = NoRun /\ col' = NoCol /\ forecast' = <<>>
              /\ UNCHANGED vars /\ UNCHANGED <<known, vlog>>
           \/ /\ ~over /\ skip /\ PoolMuFree
              /\ run' = NextRef /\ UNCHANGED vars /\ UNCHANGED <<gcPc, col, forecast, known, vlog>>
           \/ /\ ~over /\ ~skip /\ cfg.dryRun
              /\ forecast' = dryRunDatabase(ref.key)
              /\ run' = [NextRef EXCEPT !.budget =
                            @ - MapThenSumSet(LAMBDA f : vlog[ref.key][f].size, Range(forecast'))]
              /\ UNCHANGED vars /\ UNCHANGED <<gcPc, col, known, vlog>>
           \/ /\ ~over /\ ~skip /\ ~cfg.dryRun
              /\ Get(gc, ref.key) /\ gcPc' = "open"
              /\ UNCHANGED <<run, col, forecast, known, vlog>>
    /\ UNCHANGED <<cfg, now, tick, ctxDone, lastDay, late, seen, served>>

\* OpenStorage returned: without a handle the next database is due.
opened ==
    /\ gcPc = "open" /\ pc[gc] \in {"idle", "holding"}
    /\ IF pc[gc] = "holding"
       THEN /\ gcPc' = "collect" /\ UNCHANGED run
            /\ col' = [NoCol EXCEPT !.before = vlogBytes(key[gc])]
            /\ forecast' = dryRunDatabase(key[gc])
       ELSE gcPc' = "next" /\ run' = NextRef /\ UNCHANGED <<col, forecast>>
    /\ UNCHANGED vars
    /\ UNCHANGED <<cfg, now, tick, ctxDone, known, vlog, lastDay, late, seen, served>>

\* RunValueLogGC rewrites file f of k: what is not discarded moves to the
\* current file.  The size of the candidate seen before the call is charged.
rewrite(k, f) ==
    LET v == vlog[k] IN
    /\ vlog' = [vlog EXCEPT ![k] = [g \in DOMAIN v \ {f} |->
            IF g = curFid(k) THEN [v[g] EXCEPT !.size = @ + v[f].size - v[f].dis] ELSE v[g]]]
    /\ run' = [run EXCEPT !.budget = @ - col.cand]
    /\ late' = IF ctxDone \/ now >= run.deadline THEN late + 1 ELSE late

NoRewrite == UNCHANGED <<vlog, run, late>>

\* The loop ends for the reason e.
Ends(e) == gcPc' = "close" /\ col' = [col EXCEPT !.end = e]

\* The checks passed: the candidate is looked up and RunValueLogGC is due.
CandidateSeen ==
    /\ gcPc' = "rewrite"
    /\ \E c \in maxDiscard(key[gc]) :
          col' = [col EXCEPT !.cand = IF c = 0 THEN 0 ELSE vlog[key[gc]][c].size]

\* Mutant: the deadline and the budget are only looked at between databases.
collectDatabase_NoStop ==
    /\ gcPc = "collect"
    /\ CandidateSeen
    /\ UNCHANGED vars
    /\ UNCHANGED <<cfg, now, tick, ctxDone, known, vlog, lastDay, run, late, seen, served, forecast>>

\* The head of the loop of collectDatabase: the context, the deadline and the
\* budget.
collectDatabase ==
    /\ gcPc = "collect"
    /\ \/ stopReason /\ Ends(IF ctxDone \/ now >= run.deadline THEN "interrupted" ELSE "budget")
       \/ ~stopReason /\ CandidateSeen
    /\ UNCHANGED vars
    /\ UNCHANGED <<cfg, now, tick, ctxDone, known, vlog, lastDay, run, late, seen, served, forecast>>

\* RunValueLogGC, whatever happened since the checks: a file is rewritten; or
\* there is nothing to rewrite, and a large log without a rewrite so far is
\* probed; or it fails (an error, a GC already running, a panic).
RunValueLogGC ==
    LET k     == key[gc]
        probe == col.files = <<>> /\ col.before >= cfg.minBytes
    IN
    /\ gcPc = "rewrite"
    /\ \/ \E f \in maxDiscard(k) :
            /\ pickLog(k, f, cfg.discardRatio) /\ rewrite(k, f)
            /\ gcPc' = "collect" /\ col' = [col EXCEPT !.files = Append(@, f)]
       \/ /\ \E f \in maxDiscard(k) : ~pickLog(k, f, cfg.discardRatio)
          /\ \/ probe /\ gcPc' = "probe" /\ UNCHANGED col
             \/ ~probe /\ Ends("nothing")
          /\ NoRewrite
       \/ \E e \in {"failed", "panic"} : Ends(e) /\ NoRewrite
    /\ UNCHANGED vars
    /\ UNCHANGED <<cfg, now, tick, ctxDone, known, lastDay, seen, served, forecast>>

\* The probe: RunValueLogGC once more, with the lower ratio and without another
\* look at the clock and the context.  Its error is only logged.
probeOnce ==
    LET k == key[gc] IN
    /\ gcPc = "probe"
    /\ \/ \E f \in maxDiscard(k) :
            /\ pickLog(k, f, cfg.probeRatio) /\ rewrite(k, f)
            /\ gcPc' = "close" /\ col' = [col EXCEPT !.files = <<f>>, !.end = "probed"]
       \/ \E e \in {"nothing", "panic"} : Ends(e) /\ NoRewrite
    /\ UNCHANGED vars
    /\ UNCHANGED <<cfg, now, tick, ctxDone, known, lastDay, seen, served, forecast>>

\* Mutant: a panic leaves the handle open.
GCClose_Panic ==
    /\ gcPc = "close"
    /\ IF col.end = "panic"
       THEN gcPc' = "select" /\ run' = NoRun /\ UNCHANGED vars /\ UNCHANGED <<known, vlog>>
       ELSE gcPc' = "next" /\ run' = NextRef /\ Put(gc) /\ DiskFollows
    /\ col' = NoCol /\ forecast' = <<>>
    /\ UNCHANGED <<cfg, now, tick, ctxDone, lastDay, late, seen, served>>

\* The deferred Close of the storage; a panic ends the run.
GCClose ==
    /\ gcPc = "close"
    /\ Put(gc) /\ DiskFollows
    /\ IF col.end = "panic" THEN gcPc' = "select" /\ run' = NoRun ELSE gcPc' = "next" /\ run' = NextRef
    /\ col' = NoCol /\ forecast' = <<>>
    /\ UNCHANGED <<cfg, now, tick, ctxDone, lastDay, late, seen, served>>

\* The ticker is made when the first check, its run included, has returned.
NewTicker == ticker' = IF ticker = None /\ gcPc' = "select" THEN now % checkEvery ELSE ticker

GCStep ==
    /\ \/ FirstCheck \/ TickCheck \/ GCExit \/ enumerateVlogDBs \/ runVlogGC \/ opened
       \/ collectDatabase \/ RunValueLogGC \/ probeOnce \/ GCClose
    /\ NewTicker

-----------------------------------------------------------------------------
(* Properties.                                                             *)

\* Every window in which a check happened had its run, and none had two,
\* however many checks fall into it (StartVlogGC, window: also over midnight and
\* with a tick that waited).
WindowServedOnce ==
    /\ seen \subseteq Range(served)
    /\ \A i, j \in DOMAIN served : i # j => served[i] # served[j]

\* The clock and the context go on between the checks of collectDatabase and
\* RunValueLogGC, and between that and the probe.  Still at most one file is
\* rewritten after the end of the window or of the service: the next check, of
\* this database or of the next one, ends the run.  And a file is only rewritten
\* with budget left, in the database the run is at and whose handle it holds.
RewriteAllowed ==
    [][Len(col'.files) > Len(col.files) =>
          /\ late' <= 1 /\ run.budget > 0
          /\ db[key[gc]] /\ Head(run.refs).key = key[gc]]_<<col, late>>

\* In a database that a run goes through undisturbed, the files above the
\* discard ratio are rewritten as a dry run on the same disk predicts ("sagt
\* voraus, was collectDatabase umschreiben wuerde").  There are two exceptions.
\* The dry run does not know the probe: where it predicts nothing, the probe may
\* rewrite one file.  And if the current file has the most discarded data,
\* pickLog finds nothing, while the dry run leaves that file out and goes on.
DryRunPredicts ==
    gcPc = "close" =>
        \/ /\ col.end \in {"nothing", "budget"} => Range(col.files) = Range(forecast)
           /\ col.end = "probed" => forecast = <<>>
        \/ curFid(key[gc]) \in discardCandidate(key[gc])

=============================================================================
